--------------------------------- MODULE Pricing ---------------------------------
(***************************************************************************)
(* What a cart costs: apps/discounts/services/bogo_service.py and          *)
(* bogo_selector.py (buy X get Y), apply_coupon_to_amount, and             *)
(* calculate_cart_totals of apps/cart/services/cart_service.py.            *)
(*                                                                         *)
(* The code computes everything from the cart, the price list and the      *)
(* offers of the moment; these are the variables, and the computation is   *)
(* operators over them.  Money is in cents.                                *)
(***************************************************************************)
EXTENDS Integers, FiniteSetsExt, Functions

CONSTANTS
  Line,        \* cart lines, of variants and bundles
  ProductOf,   \* of a line: its product, or Nothing
  BundleOf,    \* of a line: its bundle, or Nothing
  CategoryOf,  \* of a line: the categories of its product
  Offer,       \* the shop's buy-X-get-Y discounts, each with its rules
  Coupon,      \* the discounts of the coupons a cart may carry
  Method,      \* the shipping methods
  Price,       \* prices staff may set
  Quote,       \* charges UPS may answer
  MaxQty,      \* bound on the quantity of a line
  Nothing      \* no coupon, no method, no answer, no product, bundle or category

ASSUME LineAssumption ==
  /\ IsFiniteSet(Line)
  /\ MaxQty \in Nat /\ Price \subseteq Nat /\ Quote \subseteq Nat

\* Discount.clean, which the admin and the API call before they save.
ValidDiscount(d) ==
  IF d.type = "bogo"
  THEN /\ d.buy >= 1 /\ d.get >= 1
       /\ 0 < d.percent /\ d.percent <= 100
  ELSE d.value # 0

\* A rule names something (DiscountRuleSerializer.validate).
ValidRule(r) == \E target \in {"product", "bundle", "category", "plan"} : r[target] # Nothing

ASSUME DiscountAssumption ==
  /\ \A d \in Offer \cup Coupon : ValidDiscount(d)
  /\ \A o \in Offer : o.type = "bogo" /\ \A r \in o.rules : ValidRule(r)

\* The fields hold numbers (Discount); max is 0 for null, and the value of a flat
\* amount or a percentage may have any sign.
ASSUME NumbersAssumption ==
  /\ \A o \in Offer : o.buy \in Nat /\ o.get \in Nat /\ o.percent \in Nat /\ o.max \in Nat
  /\ \A c \in Coupon : c.type \in {"flat", "percent", "bogo"} /\ (c.type # "bogo" => c.value \in Int)

VARIABLES
  qty,     \* quantity of each line; 0 if the cart does not have it
  price,   \* live price of what each line holds
  active,  \* offers that are active, in their window and not used up
  coupon,  \* applied_coupon
  method,  \* shipping_method
  ups      \* what UPS answers for the cart's address, Nothing if nothing

pricingVars == <<qty, price, active, coupon, method, ups>>

-----------------------------------------------------------------------------

\* A percentage of an amount; ROUND_HALF_UP rounds a half away from zero.
Percent(amount, p) ==
  IF amount * p >= 0 THEN (amount * p + 50) \div 100 ELSE -((50 - amount * p) \div 100)

Subtotal == SumFunctionOnSet([l \in Line |-> price[l] * qty[l]], Line)

-----------------------------------------------------------------------------
(* Buy X get Y.                                                            *)

\* What the rules of a role cover; a subscription plan is no part of it.
ScopeOf(o, role) ==
  LET named(target) == {r[target] : r \in {x \in o.rules : x.role = role}} \ {Nothing}
  IN  [products |-> named("product"), bundles |-> named("bundle"), categories |-> named("category")]

EligibleScope(o) == ScopeOf(o, "eligible")
RewardScope(o) == ScopeOf(o, "reward")

IsWhole(scope) == scope.products \cup scope.bundles \cup scope.categories = {}

Matches(scope, l) ==
  \/ IsWhole(scope)
  \/ ProductOf[l] \in scope.products
  \/ BundleOf[l] \in scope.bundles
  \/ scope.categories \cap CategoryOf[l] # {}

\* One element per physical unit; what costs nothing neither earns nor is one.
Units(scope) ==
  {u \in {l \in Line : Matches(scope, l) /\ price[l] > 0} \X (1 .. MaxQty) : u[2] <= qty[u[1]]}

NoReward == [amount |-> 0, units |-> 0, applications |-> 0, allocation |-> [l \in Line |-> 0]]

\* Faulty variant: the dearest units are given away.
Cheapest_Dearest(units, n) ==
  CHOOSE s \in kSubset(n, units) :
    \A u \in s, x \in units \ s : price[u[1]] >= price[x[1]]

\* The first n units in the order of their prices.
Cheapest(units, n) ==
  CHOOSE s \in kSubset(n, units) :
    \A u \in s, x \in units \ s : price[u[1]] <= price[x[1]]

\* The reward pool is a pool of its own if the offer has reward rules.
RewardPool(o) == IF IsWhole(RewardScope(o)) THEN Units(EligibleScope(o)) ELSE Units(RewardScope(o))

\* Faulty variant: a shared pool need not hold the reward as well.
Earned_BuyOnly(o) == Cardinality(Units(EligibleScope(o))) \div o.buy

\* How often the cart earns the offer; max_applications is 0 for null.
Earned(o) ==
  LET group == IF IsWhole(RewardScope(o)) THEN o.buy + o.get ELSE o.buy
      earned == Cardinality(Units(EligibleScope(o))) \div group
  IN  IF o.max = 0 THEN earned ELSE Min({earned, o.max})

\* What an offer takes off some units, rounded for each of them.
Value(o, units) == SumFunctionOnSet([u \in units |-> Percent(price[u[1]], o.percent)], units)

\* Faulty variant: the sum is rounded, its parts are not.
Reward_RoundSum(o, given) ==
  [amount |-> Percent(SumFunctionOnSet([u \in given |-> price[u[1]]], given), o.percent),
   units |-> Cardinality(given),
   applications |-> Earned(o),
   allocation |-> [l \in Line |-> Value(o, {u \in given : u[1] = l})]]

\* What the given units are worth, in all and per line.
Reward(o, given) ==
  [amount |-> Value(o, given),
   units |-> Cardinality(given),
   applications |-> Earned(o),
   allocation |-> [l \in Line |-> Value(o, {u \in given : u[1] = l})]]

\* compute_bogo_discount.
Bogo(o) ==
  IF o.buy < 1 \/ o.get < 1 \/ o.percent <= 0 \/ Units(EligibleScope(o)) = {} THEN NoReward
  ELSE LET pool == RewardPool(o)
           n == Min({Earned(o) * o.get, Cardinality(pool)})
       IN  IF n < 1 THEN NoReward ELSE Reward(o, Cheapest(pool, n))

Eligible(o) == o \in active /\ o.minimum <= Subtotal

\* What each offer takes off this cart.
Worth == [o \in Offer |-> IF Eligible(o) THEN Bogo(o).amount ELSE 0]

\* The offer that is worth most; Nothing if none is worth anything.
BestOffer ==
  LET worth == Worth
      best == {o \in Offer : worth[o] > 0 /\ \A x \in Offer : worth[o] >= worth[x]}
  IN  IF best = {} THEN Nothing ELSE CHOOSE o \in best : TRUE

-----------------------------------------------------------------------------
(* Totals.                                                                 *)

\* apply_coupon_to_amount; a coupon of a buy-X-get-Y discount takes nothing off.
CouponDiscount ==
  CASE coupon = Nothing -> 0
    [] coupon # Nothing /\ coupon.type = "bogo" -> 0
    [] coupon # Nothing /\ coupon.type = "flat" -> Min({coupon.value, Subtotal})
    [] coupon # Nothing /\ coupon.type = "percent" -> Percent(Subtotal, coupon.value)

BogoDiscount == LET best == BestOffer IN IF best = Nothing THEN 0 ELSE Bogo(best).amount

Stack == CouponDiscount = 0 \/ BogoDiscount = 0 \/ (coupon.stackable /\ BestOffer.stackable)

\* The two together if both are stackable, the better one if not.
Discount ==
  Min({Subtotal,
       IF Stack THEN CouponDiscount + BogoDiscount ELSE Max({CouponDiscount, BogoDiscount})})

\* Faulty variant: the offer is shown whether it won or not.
ShownOffer_Always == BestOffer

\* The offer the cart names: none when a coupon beats it.
ShownOffer == IF ~Stack /\ BogoDiscount < CouponDiscount THEN Nothing ELSE BestOffer

\* resolve_shipping_amount; an address UPS does not serve gets no answer.
Shipping ==
  CASE method = Nothing -> 0
    [] method # Nothing /\ method.threshold > 0 /\ Subtotal >= method.threshold -> 0
    [] method # Nothing /\ ~(method.threshold > 0 /\ Subtotal >= method.threshold) ->
         IF method.live /\ ups # Nothing THEN ups ELSE method.base

GrandTotal ==
  LET taxable == Subtotal - Discount + Shipping
  IN  taxable + Percent(taxable, 8)

-----------------------------------------------------------------------------

PricingInit ==
  /\ qty = [l \in Line |-> 0]
  /\ price \in [Line -> Price]
  /\ active = {}
  /\ coupon = Nothing
  /\ method = Nothing
  /\ ups = Nothing

\* The customer edits the cart, here one unit at a time.
ChangeQuantity(l) ==
  /\ \E n \in {qty[l] - 1, qty[l] + 1} \cap (0 .. MaxQty) : qty' = [qty EXCEPT ![l] = n]
  /\ UNCHANGED <<price, active, coupon, method, ups>>

\* Staff change a price, an offer begins or ends.
ChangePrice(l) ==
  /\ \E p \in Price : price' = [price EXCEPT ![l] = p]
  /\ UNCHANGED <<qty, active, coupon, method, ups>>

ChangeOffer(o) ==
  /\ \E on \in {active \cup {o}, active \ {o}} : active' = on
  /\ UNCHANGED <<qty, price, coupon, method, ups>>

\* A coupon is checked when it is applied and not again.
ChangeCoupon(c) ==
  /\ c # Nothing => Subtotal >= c.minimum
  /\ coupon' = c
  /\ UNCHANGED <<qty, price, active, method, ups>>

ChangeShipping(m, a) ==
  /\ method' = m
  /\ ups' = a
  /\ UNCHANGED <<qty, price, active, coupon>>

PricingNext ==
  \/ \E l \in Line : ChangeQuantity(l) \/ ChangePrice(l)
  \/ \E o \in Offer : ChangeOffer(o)
  \/ \E c \in Coupon \cup {Nothing} : ChangeCoupon(c)
  \/ \E m \in Method \cup {Nothing}, a \in Quote \cup {Nothing} : ChangeShipping(m, a)

PricingSpec == PricingInit /\ [][PricingNext]_pricingVars

-----------------------------------------------------------------------------
(* Properties.                                                             *)

\* An offer costs the shop as little as that many units of its pool can cost
\* (docstring of compute_bogo_discount).
RewardIsCheapest ==
  \A o \in active :
    LET r == Bogo(o)
    IN  r.units > 0 =>
          \A s \in kSubset(r.units, RewardPool(o)) : r.amount <= Value(o, s)

\* What the lines are given adds up to the discount, to the cent, and no line
\* is given more than it costs.
AllocationsAddUp ==
  \A o \in active :
    LET r == Bogo(o)
    IN  /\ SumFunctionOnSet(r.allocation, Line) = r.amount
        /\ \A l \in Line : r.allocation[l] <= price[l] * qty[l]

\* Units of the offer's buy set that are not themselves given as a reward.
Bought(o) ==
  Cardinality(Units(EligibleScope(o)))
    - Cardinality({u \in Cheapest(RewardPool(o), Bogo(o).units) : Matches(EligibleScope(o), u[1])})

\* Groups of the offer of which at least one unit was given.
Groups(o) == (Bogo(o).units + o.get - 1) \div o.get

\* For every reward the customer pays for the units that earn it, when the
\* offer has one pool (comment in compute_bogo_discount).
PaidBeforeFree ==
  \A o \in active : IsWhole(RewardScope(o)) /\ o.get > 0 => Bought(o) >= o.buy * Groups(o)

\* The coupon and the offer that the cart names account for the discount it
\* asks: an offer that lost to the coupon is not named, one that won is.
ShownOfferExplains ==
  LET shown == IF ShownOffer = Nothing THEN 0 ELSE Bogo(ShownOffer).amount
  IN  Discount \in {shown, Min({Subtotal, CouponDiscount + shown})}

-----------------------------------------------------------------------------
(* What the docs lead one to expect and the code does not keep: see README. *)

\* What PaidBeforeFree says, of every offer (models.py, "Buy `buy_quantity`, get `get_quantity`").
AlwaysPaidBeforeFree ==
  \A o \in active : o.get > 0 => Bought(o) >= o.buy * Groups(o)

\* A cart with the coupon of a buy-X-get-Y discount gets the reward it earns
\* (docstring of eligible_bogo_discounts).
CouponBogoIsGiven ==
  coupon # Nothing /\ coupon.type = "bogo" => Discount >= Bogo(coupon).amount

\* reward_source says where the reward comes from (models.py, "Cheapest
\* eligible items in the cart").
RewardSourceRespected ==
  \A o \in active : o.source = "cheapest" =>
    \A l \in Line : Bogo(o).allocation[l] > 0 => Matches(EligibleScope(o), l)

\* An offer with a rule covers less than the whole catalogue (serializers.py,
\* "A rule that names nothing would silently widen the discount").
RulesNarrow ==
  \A o \in active, role \in {"eligible", "reward"} :
    (\E r \in o.rules : r.role = role) => ~IsWhole(ScopeOf(o, role))
=============================================================================
