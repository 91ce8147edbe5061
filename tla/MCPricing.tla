------------------------------ MODULE MCPricing ------------------------------
(* A small shop for TLC: socks, caps and a bundle of both. *)
EXTENDS Pricing

CONSTANTS socks, caps, box, wear

MCProductOf == [l \in Line |-> IF l = box THEN Nothing ELSE l]
MCBundleOf == [l \in Line |-> IF l = box THEN l ELSE Nothing]
MCCategoryOf == [l \in Line |-> IF l = box THEN {} ELSE {wear}]

Rule(role) == [role |-> role, product |-> Nothing, bundle |-> Nothing, category |-> Nothing, plan |-> Nothing]
OnWear == [Rule("eligible") EXCEPT !.category = wear]
OnSocks == [Rule("eligible") EXCEPT !.product = socks]
OnBox == [Rule("eligible") EXCEPT !.bundle = box]
OnPlan == [Rule("eligible") EXCEPT !.plan = "monthly"]
GiveCap == [Rule("reward") EXCEPT !.product = caps]

\* Buy one get one at half price, on clothes.
HalfPrice == [type |-> "bogo", buy |-> 1, get |-> 1, percent |-> 50, max |-> 0, rules |-> {OnWear},
              minimum |-> 0, stackable |-> TRUE, source |-> "cheapest"]
\* Buy one get two, once, on anything from an order of some size.
BuyOneGetTwo == [type |-> "bogo", buy |-> 1, get |-> 2, percent |-> 100, max |-> 1, rules |-> {},
                 minimum |-> 5, stackable |-> FALSE, source |-> "cheapest"]
\* Buy two socks or boxes, get a cap.
FreeCap == [type |-> "bogo", buy |-> 2, get |-> 1, percent |-> 100, max |-> 0,
            rules |-> {OnSocks, OnBox, GiveCap},
            minimum |-> 0, stackable |-> TRUE, source |-> "reward_set"]
\* Buy two of anything, get a cap; the reward source left at its default; a
\* rule that names a plan.
AnyGetCap == [FreeCap EXCEPT !.rules = {GiveCap}]
DefaultSource == [FreeCap EXCEPT !.source = "cheapest"]
PlanOffer == [HalfPrice EXCEPT !.rules = {OnPlan}]

MCOffers == {HalfPrice, BuyOneGetTwo, FreeCap}
OverlapOffers == {AnyGetCap}
SourceOffers == {DefaultSource}
PlanOffers == {PlanOffer}

MCCoupons == {[type |-> "flat", value |-> 7, minimum |-> 6, stackable |-> TRUE],
              [type |-> "percent", value |-> 15, minimum |-> 0, stackable |-> FALSE]}
BogoCoupons == {BuyOneGetTwo}

\* One method, and no answer of UPS: no property of the run depends on shipping.
MCMethods == {[base |-> 4, threshold |-> 20, live |-> TRUE]}
=============================================================================
