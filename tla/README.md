# kofora-api: specifications, model checks and proofs

TLA+ modules for the shop backend in `src/`, the TLC runs that check them and
the theorems TLAPS proves about them. `PROJECT.json` is the machine-readable
index: components, runs, mutants, the map from definitions to source lines,
findings, hazards and theorems.

## 1. Inventory of the system

A Django REST backend on PostgreSQL (READ COMMITTED, one transaction per
service function marked `@transaction.atomic`, autocommit elsewhere:
`ATOMIC_REQUESTS` is off), Redis for the cache, Celery workers with Celery Beat.
Gunicorn workers and Celery workers share nothing but the database and the
cache, so every interaction below is through rows, row locks and cache keys.

| component | state | operations | hard because | what makes it correct |
|---|---|---|---|---|
| orders | `Order` (payment_status, fulfillment_status), items, history | checkout, staff status change, expiry sweep | the sweep, staff and payments meet on one order | no paid order is expired; stock is given back once; overdue orders expire |
| inventory | `ProductVariant.stock_quantity`, `reserved_quantity`, `InventoryAdjustment` ledger, `LowStockAlert` | reserve, commit, release; manual adjustment; alert task; reports | row locks in the first three, none in the others | 0 <= reserved <= stock; reserved is what orders hold; the ledger explains every unit; reports agree |
| payments | `PaymentTransaction`, `RefundTransaction`, `PaymentWebhookEvent`, and the provider's own books | open, confirm, capture, webhook, refund | duplicated, late and reordered deliveries; a provider call inside a transaction | a charge ends as a paid order, once; refunds stay below the charge |
| cart | `Cart`, items, applied coupon and claim | add, change, remove, merge, clear, coupon | check-then-act on quantities; concurrent tabs | quantities follow what was asked and what is available |
| cart totals | none (pure) | subtotal, discount, shipping, tax | stacking, rounding, fall-backs | 0 <= discount <= subtotal; the best offer wins |
| discounts: claims and coupons | `DiscountClaim`, `DiscountUsage`, `CouponCode` | claim, apply, attach, redeem | the same claim in two orders; two claims of one email | one discounted order per email; limits hold |
| discounts: buy X get Y | none (pure) | rewards of a cart, best offer | overlapping pools, caps, rounding | never more free units than earned |
| authentication, users | `User`, `EmailOTP`, `PasswordResetToken`, `GoogleOAuthAccount` | register, codes, resets, password change, profile, (de)activation, Google sign-in | most requests commit statement by statement; profile edits write whole rows as they were read | only proven addresses are verified; a Google account is one user; everybody can sign in |
| shipping | cached UPS token, cached charges | total, quotes, rate, track, validate, `ups_check` | a token expires, is revoked or is replaced under a request; one cache for all workers | no token dies in a call; one retry repairs; a cached charge fits the parcel |
| products | variants, images | staff form of a variant, upload, edit and deletion of images | a primary is saved in three statements; forms write back old quantities | one primary image per colour |
| categories | a forest of categories, tags of products | save, rename, move, delete | a parent edit can close a circle; deletion cascades | |
| seeds and `sync_sock_taxonomy` | the same tables, and demo rows | five commands | they meet what staff made of what they wrote before | repeatable; seeds only add; the sync repairs |
| notifications | `NotificationLog` | send mail task | the mail may be lost at the broker, fail, or be sent by a worker that dies | |
| addresses, attributes, catalog, subscriptions, reviews, contact, content, search, rest of core | their rows | CRUD or read-only queries | no workflow behind them | |

Interactions: checkout calls cart totals, claims and inventory in one
transaction; payment completion calls inventory, claims and cart in one
transaction; the sweep calls inventory and writes payment transactions; staff
changes call inventory. Cart totals call the UPS client. Codes and reset tokens
travel by the mail task. Staff forms, seeds and the sync write rows that the
rest reads. Webhooks, confirmations and captures all end in
`_complete_paid_transaction`.

Which behaviours are hard, one by one and at their lines, is the list
`hazards` of `PROJECT.json`; each names the properties that would catch it.

## 2. Modules

| module | models | abstract state | granularity |
|---|---|---|---|
| `Checkout` | `orders/services`, `inventory/services`, the completion half of `payments/services/provider_service.py` | committed rows (`order`, `row`, `ledger`, `txn`), row locks (`olock`, `vlock`, `tlock`), open transactions (`job`) | one SQL statement, or several no other session can tell apart |
| `CheckoutInvariant` | | the inductive invariants of `Checkout` | |
| `OrderStock` | what `stock_service.py` promises: Reserve, Commit, Release of whole orders | no sessions, no locks | one step per transaction |
| `CheckoutRefinement` | | `OrderStock` instantiated with the committed rows of `Checkout` | |
| `CheckoutLiveness` | Celery Beat and PostgreSQL's lock queues | adds `lost`, the sweeps that failed by chance | |
| `CheckoutProofs` | | proofs about `Checkout` | |
| `FirstOrder` | `discounts/services/discount_service.py`, claims; its callers in cart, checkout and payment | `mail`, `moves`, `claim`, `lapsed`, `cart`, `order`, `used`, `job`; history `had` | one statement per request without a transaction; first read and COMMIT of those with one |
| `Payments` | `payments/services/provider_service.py`, `payments/views.py` | the providers' books (`pay`, `refunds`, `due`), our rows (`row`, `refunded`, `done`), `job`, `crashes` | before, at and after each provider call |
| `Cart` | `cart/views.py`, the cart half of `create_order_from_cart` | rows of one cart (`row`), `coupon`, `claim`, what is available (`avail`), `orders`, `job` | one statement |
| `PaymentsProofs` | | proofs about `Payments` | |
| `CartProofs` | | proofs about `Cart` | |
| `Pricing` | `bogo_service.py`, `bogo_selector.py`, `apply_coupon_to_amount`, `calculate_cart_totals`, what `Discount.clean` and the rule serializer accept | what the computation reads: `qty`, `price`, `active`, `coupon`, `method`, `ups` | the computation is operators over the state |
| `DiscountsProofs` | | proofs about `FirstOrder` and `Pricing` | |
| `Accounts` | `apps/authentication`, `apps/users`, the mail task | `user`, `link`, `code`, `token`, `lapsed`, `mail`, `job`; history `login` | one statement; registration and sign-in, which are transactions, at their reads and their COMMIT |
| `AccountsProofs` | | proofs about `Accounts` | |
| `Shipping` | `apps/shipping/services`, its views and `ups_check`, the shipping half of `cart_service.py` | tokens at UPS (`life`), the cache (`copy`, `rate`), `job`; history `shaken` | before, at and after each call of UPS and each use of the cache |
| `ShippingProofs` | | proofs about `Shipping` | |
| `Stockroom` | `apps/inventory` views and task, the staff form of a variant, the stock queries of `apps/analytics` and `apps/products` | `row`, `alert`, `desk`; history `hold`, `overwritten` | one statement of the desks; an order's three stock functions are one step each |
| `Gallery` | `ProductImage.save` and the image views, and the migration that introduced primaries | `image`, `color`, `editor`; history `mixed`, `torn` | one statement |
| `Taxonomy` | `apps/categories`, the categories of a product, the five commands of `apps/core` | `shop` (all tables), `last`, `edits` | one command or one staff request |
| `BackOfficeProofs` | | proofs about `Stockroom`, `Gallery` and `Taxonomy` | |
| `Sums` | | lemmas about sums over finite sets and about the least elements of a set, which the proofs of `Checkout` and `Pricing` use | |

`MC*` modules give the small instances. The definition-to-source map is the
`map` of `PROJECT.json`. Definitions named `X_Word`, preceded by "Faulty
variant", are not part of any specification: they are the mutants that show that
a property can fail.

### Checkout

A session runs one service function at a time: `create`
(`create_order_from_cart`), `complete` (`_complete_paid_transaction`), `staff`
(`change_order_status`) or `sweep` (`expire_unpaid_orders`). What it has written
but not committed is in its `job`: `taken` is the quantity moved on each
variant, `done` the orders whose ledger rows it will add, `batch` the orders it
will expire. `EndTransaction` publishes them and frees the locks; `Rollback`
only frees the locks. Reads see committed rows and the session's own writes
(`Seen`), as READ COMMITTED does; `SELECT ... FOR UPDATE` is an action whose
guard is that the lock is free, and what it decides is decided again on the
row as it is then (`Locked` tests `Expirable` again, as PostgreSQL re-evaluates
the WHERE clause of a row it had to wait for). `SKIP LOCKED` is not used by the
code and not by the model. `BlockedBy` and `BreakCycle` are PostgreSQL's
deadlock detector.

What is left out: orders of empty carts (`NeedAssumption`: they take no stock
and the stock functions do nothing for them), a staff change to the status an
order already has (it writes nothing), shipment numbers, snapshots and notes.
`FailPending`, the UPDATE over all pending transactions of an order, takes its
row locks in one step. Orders are locked in the order of their keys, which is
the order of `created_at`. Any order may get a payment transaction at any time,
which is more than the views allow. Redeeming the claim and emptying the cart
after a completion are in `FirstOrder` and `Cart`.

### FirstOrder

An email is one as claims store and compare it, in lower case. `User.email` is
unique as it is spelled, so accounts may share one, and an account may change its
own (`MeView.patch`, `ChangeEmail`) while a claim is in its cart or being
validated; `had` remembers the emails an account has had, for the properties. There
is one first-order discount. `RequestClaim`,
`LookForClaim`, `CreateClaim` are `apply_first_order_discount`; `LoadClaim`,
`ValidateClaim`, `SaveClaim`, `SaveCart` are `apply_first_order_claim_to_cart`;
`BeginCheckout` and `FinishCheckout` the lines of `create_order_from_cart` about
the claim, `BeginPay`, `FinishPay` and `PoisonedPay` the lines of a completion.
`PoisonedPay` is the completion that meets the unique constraint on
`DiscountUsage`: `track_discount_usage` catches the `IntegrityError`, but the
transaction is aborted, so the next statement raises and everything is rolled
back. `BeginPay` is enabled for every order that was placed, an expired or a
paid one too: a completion reads the order before it waits, and an order may be
paid twice.

### Payments

The provider's books change only by `CallOpen`, `Charge`, `Capture` and
`CallRefund`. Stripe is given an idempotency key (`Opened`), PayPal is not.
`Crash` is a worker that dies, or whose COMMIT fails, at any point, after the
provider was called too. `due` is the set of success events that a provider
repeats until it gets a 2xx answer. `Raise` is a completion that raises and rolls
back: the reserve does not cover the order, the claim's email has a usage row
already (`PoisonedPay` of `FirstOrder`), or a statement fails; a confirmation or
capture then ends, and an event stays unanswered. `DropEvent` is an event that is
answered without a row: Stripe's only if there is none, PayPal's also because the
id of its resource (a sale, a capture) need not be the payment id that was stored.
Signature checks are left out: a request with a bad one changes nothing.

### Cart

One customer's cart, several tabs. An item is live or deleted; a Django `save`
of a row another request has deleted inserts it again (`SaveAdd`), and the
unique constraint refuses a second row of a variant. `avail` is
`available_quantity`: the COMMIT of a checkout takes from it, `StockMoves` is
everything else that changes it (other customers' orders, releases, staff), and the
locks of `reserve_stock` hold it still until that COMMIT. How reserved and stock
make it up is `Checkout`. Deleting a coupon in the admin site clears it from carts
and leaves the claim (`on_delete=SET_NULL`); coupons are not deleted here. `PriceOrder`, `ReserveOrder` and `PlaceOrder` are
the three reads of the cart in one checkout, each of which sees what is
committed by then; the reads within `calculate_cart_totals` are one. Bundles are
left out: no endpoint puts one in a cart.

### Pricing

Money is integer cents and percentages are integers (the fields have two
decimals); `Percent` rounds a half away from zero, as `ROUND_HALF_UP` in `_money`
does. Which of several units of one price is given away is left
open (the code keeps the order of an unordered query). `max = 0` stands for
`max_applications = None`. An offer's window and limits are whether it is in
`active`.

A discount that the admin or the API saves has passed `Discount.clean`
(`ValidDiscount`), a rule its serializer (`ValidRule`); the offers and coupons of
every instance satisfy both, by assumption (`DiscountAssumption`).
`NumbersAssumption` is what the columns can hold: natural numbers in the fields of
an offer, a value of any sign in those of a flat amount or a percentage.

### Accounts

User names are left out, and so is the library that issues and blacklists JWTs:
a request that needs a token is made by any account that is active when it is
authenticated. `LookCode`, `SpendCode`, `MarkVerified` are `verify_otp`;
`LookToken`, `SavePassword`, `SpendToken` the reset of a password; `LookProfile`
and `SaveProfile` the profile edit, which saves every column as authentication
read it; `FindLink`, `FindUser` and then `LogIn`, `LinkUser` or `SignUp` the
Google sign-in, which saves a user as verified only if it was not when it was read
(`Vouch`). The verified administrators and staff that `seed_data` creates
(`seed_data.py:58,74`) are outside this module. A code or token can be sent back once its mail has arrived
(`Usable`) and until it lapses, which may happen at any time. Codes are compared
by row: two live codes of one address that happen to have the same six digits
are not modelled. `Abort` is a worker killed between two statements.

### Shipping

Time runs down in the rows: `life` is what UPS knows of a token, `copy` what is
left to the cached one. One unit is what UPS may take to answer (`Timeout`);
`Tick` is not enabled while a session has waited that long, which is what the
`timeout` of each call is for (`requests` bounds the connection and each read;
the model takes it for the whole answer). `Revoke` is UPS taking a token back at any moment,
`Evict` the cache losing a key at any moment, expiry of a charge included. A call
is answered with a 401 if the token is dead, and may be if it is not: an account
can lack the entitlement for an API (`ups_check.py:6-9`), and a request that is
refused twice with tokens in force ends `denied`, as `shipping/tests.py:106` wants. A
charge is the parcel UPS was asked about: what it costs no property depends on.
`Fail(w, "broken")` is an answer that raises something else than `UPSError`.

### Stockroom, Gallery and Taxonomy

They share no table; `MCBackOffice` checks them in one run, in which a behaviour
is one of one of them.

`Stockroom` has orders reserve, commit and release in one step each: that a step
is justified is what `Checkout` is about. A form may write any quantities, those
it was loaded with included. Every variant begins without a reserve: the one that
`seed_data` creates with six units reserved and no order (`seed_data.py:203`) does not,
and `ReservedIsHolds` is not about it. An alert's `current_stock` is part of what
`get_or_create` looks for, so alerts of one variant at two levels are two kinds.
A `PATCH` or `DELETE` of an adjustment changes the adjustment's row and no stock,
and nothing reads that row.

`Gallery` begins as the migration left the table (`Marked`). A save writes a
deleted row again. `Abandon` is a worker that dies, or a statement that fails, at any
point of a save, which is in no transaction. `mixed` are the groups that images joined because their
variant changed colour or was deleted, which nothing checks; `torn` the other groups
that a save wrote its primary to and died before it cleared the others, until another
save clears them.

`Taxonomy`: names, texts, prices, artwork and sort orders of a row are `words`,
which say who wrote them last: a seed, the sync or staff. A table is a function;
`get_or_create` of several rows is `table ++ new`, which keeps the rows of
`table`. A variant is looked up by its SKU. The SKUs a seed lists for a product are
treated alike, so the product's name stands for each of them: a SKU that staff
removed is created again, one they changed or moved to another product is kept.
Accounts are rows whose words are their fields other than the password; that
`seed_data` sets the passwords of its three users again is `passwords`. The tables of
the sync are
checked to be disjoint (`TablesAreDisjoint`), so its entries can be handled in
any order. The tags that `seed_socks` and `seed_caps` give are the ones in the
code; `seed_data`'s row of metrics, which is keyed by the date, is one row.

## 3. Runs

Every run ends within a few minutes. `expect: pass` means TLC explores the whole
state space of the instance; each property of these runs is also shown to be
violated when one mapped definition is replaced by its faulty variant
(`mutants`).

| run | instance | question |
|---|---|---|
| `race` | two orders sharing a variant, two payments, two web sessions, one sweep | do stock, ledger and payment status agree under every interleaving, and is every COMMIT one whole-order step of `OrderStock`? |
| `sweeps` | two sweeps, two web sessions, two orders over both variants, the second variant's last unit; staff cancel and reopen | is stock released once, does an order await its payment without a reserve only because staff reopened it, is the invariant that the proofs rest on (`BalanceInv`, with `Inv` and `CommitInv` in it) one where checkouts fail half-way, and do checkouts never wait in a circle? |
| `expires` | two orders, each with a variant of its own, one payment, one web session, one sweep that fails once by chance | does every overdue order leave the reserve in the end? |
| `claims` | two accounts that begin with one email, two emails, one change, two claims of which one may lapse, two orders, two sessions | who can redeem what, and what does a usage row mean? |
| `payments` | two payments, one key, one refund key, two sessions, one crash | do our rows agree with the provider, and is every charge of Stripe's recorded in the end? |
| `cart` | one variant, three rows, two tabs, none or one unit available, which changes, one promo code | do tabs, payments and checkouts leave a cart that is consistent? |
| `pricing` | three lines (two products, a bundle), prices 0, 3 and 7, quantities to 2, three offers, two coupons | are rewards cheapest, rounded consistently, paid for, and does the cart name what it was given? |
| `accounts` | two accounts, two addresses, two Google accounts, one code, one reset token, two sessions | do verifications, resets, profile edits and sign-ins that overlap keep what `is_email_verified`, a Google link and a password mean? |
| `shipping` | two parcels of one area, two tokens, two sessions, spans of 1 and 3 against a skew of 2 and a floor of 1 | do the shared token and the cached charges serve requests as their comments say? |
| `backoffice` | `Stockroom`: one variant, quantities to 2, two desks; `Gallery`: two images, variants, colours and editors; `Taxonomy`: three slugs, two products and their SKUs, two edits | do the quantities, primary images and categories that staff, tasks and commands write keep what the shop relies on? |
| `late` | violation | a completion that read its order before the sweep took it |
| `poisoned` | violation | one order that cannot be released stops every sweep |

Why the bounds are enough to be interesting. Two web sessions and one sweep are
the smallest set in which a payment, another payment and an expiry meet on one
order; two sweeps and two variants are needed for a circle of locks; two orders
on one variant for competition. One unit in stock makes the second checkout
fail on its second line after it moved the first. Two sessions and two claims
are needed to redeem twice, and two accounts to mix up owners; they begin with one
email, so one change (`MaxMoves`) is enough both to share an email and to leave it
while a claim is being validated, and one claim that lapses (`MaxLapsed`) leaves the
other to be handed out instead. One crash is
enough to separate the books of provider and shop at each point, because a
second crash meets a state the first has reached or begins from a retry.
`MaxLine` in `Cart` is needed because racing adds can pile up a quantity without
end; `Stock` bounds what may become available. Prices 3 and 7 at 50 percent give half cents, 0 a unit that earns nothing.
Two sessions are enough to read, be overtaken and write in `Accounts`,
`Stockroom` and `Gallery`; two Google accounts to compete for one address and
two addresses to change hands. In `Shipping` the spans are one below the skew, so
that the floor applies, and one above it, and a second token lets a slow worker
put the older one back into the cache. In `Taxonomy` two edits are enough to
rename, move or delete what a command made and to edit something between two
commands; `crew-socks` is an alias, `calf` the entry it belongs to and `socks`
the root.

Symmetry is used for sessions, payments, users, claims, items, tokens, images
and the like, never for what is ordered or compared, and only in
runs whose properties are invariants or action properties (`OrderStock` mentions
nothing that is permuted, and the properties of `Taxonomy` are about tables
without permuted values). `expires`, `poisoned`, `payments` and `pricing` use
none.

Deadlock is checked in every run.

### Fairness

`CheckoutLiveness`: `WF(BeginSweep)` because Celery Beat sends the task on a
schedule (`kofora_backend/settings/base.py:172-177`); `SF(Statement)` because
PostgreSQL queues the sessions that wait for a row, so one that finds it free
again and again gets it; `WF(BreakCycle)` for web sessions because the deadlock
detector ends every circle. Nothing forces a customer to pay, staff to act or a
request to begin, and a sweep may be killed `MaxLost` times.

`Payments`: `WF(Step)`, because a request that has begun runs on, to an exception
too (or crashes, at most `MaxCrashes` times); `SF(Deliver)` for each payment, because
both providers repeat an event until it is answered with success. Nothing forces a
customer to pay, and nothing keeps a completion from raising each time it is tried
(the expectation `NeverTrackedTwice` fails): `ChargeRecorded` says of each payment that
its charge is recorded or its completions raise for ever.

## 4. What is proved

All proofs are for every value of the constants that satisfies the named
assumptions: any number of orders, variants, payments, sessions, any carts and
stock (`Checkout`); any accounts, claims, orders and sessions (`FirstOrder`);
any payments, keys and number of crashes (`Payments`); any tokens, spans, parcels
and workers (`Shipping`); and so on.

`Checkout`. Type correctness is inductive by itself. None of the safety
properties is: at its COMMIT a session writes what it decided
earlier, so one has to know what is still true then. `Inv`
(`CheckoutInvariant`) adds what every open transaction may rely on, and which
lock keeps it so: it holds each variant it has moved something on and the row
it would leave is sound (`HoldsMoved`, `SeesSound`); a sweep holds the orders in
its batch and they are unpaid (`HoldsBatch`); a completion commits the lines
itself or saw them committed, or saw the order paid (`KnowsPaid`); whoever gives
stock back holds the order, and its ledger is open (`HoldsReleased`). The step
lemmas go action by action. From `Inv`, as theorems of `Spec`: `RowOK`
(0 <= reserved <= stock), `PaidImpliesCommitted`, `ReleasedOnce`, `PaidForGood`
and `NoReleaseAfterCommit`, the last two as action properties.

`CommitInv` is built on `Inv`, for two more. A completion holds the row of its
payment from the moment it saved it (`HoldsTxn`), so completions of one order
that are about to commit have different payments; counting them with the commits
in the ledger gives `CommitPerPayment`. It needs that the table of payments is
finite (`TxnAssumption`). Who commits or gives back an order's stock takes it out
of awaiting_payment with the same COMMIT (`GivesUp`), which gives
`HeldUnlessReopened`: whatever statuses staff set, the only step that leaves an order
awaiting its payment without a reserve is a staff change to that very status. The
serializer accepts it, so the state itself, `AwaitingHeld`, is not kept (section 5).

`ClimbInv` says that a checkout holds only variants below those it still wants.
In a circle each checkout would wait for a variant whose holder waits for a
higher one, so `MaxKey` minus the key would fall without end; keys are 64-bit
integers, and the theorem assumes no more than that they have a bound. That gives
`CheckoutsNeverDeadlock`.

`BalanceInv` is built on `CommitInv`, for `LedgerBalance` and the refinement. An
order's lines are moved one by one and a sweep moves many orders, so between two
COMMITs the moved quantities of a session are neither zero nor whole orders.
`MovesLines` says what they are: for each variant the sum of that line over the
orders the session has worked off, the current order counting for the variants
that are no longer in `todo`; and a session comes to its COMMIT with `todo`
empty. A step of a session moves one line and takes one variant out of `todo`; a
COMMIT adds orders to the ledger and what they sum up to to the rows, so both
sides of `LedgerBalance` change by the same sum (`SumShift`). It needs that there
are finitely many orders (`OrderAssumption`). Theorems: `BalanceInv`,
`LedgerBalance`, and `SweepsCanRelease`: if no order's stock was both committed
and given back or committed twice, what is reserved covers every set of orders
that a sweep may meet, those that staff reopened included (`Settled` makes the sweep
pass over an order that was given back). The run `poisoned` shows what happens
otherwise; the ways there are a late completion, a second payment and the payment of
an order that staff reopened.

`ImplementsOrderStock`, the refinement. `OrderStock` sees the committed rows
alone. A statement leaves those as they are and is a stutter there. The COMMIT
of a checkout is `Reserve` of its order: `taken` is then the whole order, and
`SeesSound` gives the guard. The COMMIT of a completion is `Commit`, or a stutter
if it found the order committed. The COMMIT of a staff change or of a sweep is
`Release` of the orders it gives back: each of them is open and placed
(`HoldsReleased`), and what it leaves reserved is sound.

`FirstOrder`. `Inv` adds to the properties that a referenced claim is a row
(`Referred`), that a redemption leaves a usage row (`RedeemedIsUsed`) and what a
session knows about the claim it works on (`Knows`): a validated claim belongs
to an email that the session's user has had, and the claim a payment will redeem to
one that the customer of an order priced with it has had. "Has had", because a change
of email may fall between the validation and each later write; that the claim is
for the email the account has now is not kept (`CartClaimIsCurrent`). It survives other
sessions because no step changes the email of a claim or the customer of an order, or
takes back an email an account has had (`Kept`). `Kept` carries the proof:
the lemma `StepKeeps` turns "the rows are fine and nothing was forgotten" into
`Inv'`, so each action needs only its rows. Theorems: `TypeOK`,
`OneRedemption`, `UsedMeansPaid`, `ClaimStaysWithOwner`.

`Payments`. What a request knows of a payment it read in the provider's books,
and the books only grow (`Grows`): a payment keeps its key and its provider, a
charge stays. A crash or an exception therefore takes nothing away that another request relies
on. `StripeIsIdempotent` (one payment of a key) and "a row has the key of its
payment" give `OneStripeRowPerKey`; "a completion under way is of a charged
payment" gives `SucceededIsCharged`. `NoChargeIsForgotten` is the safety half of
`ChargeRecorded`: a charge of Stripe's is of a payment with a row, so the event that
it repeats is never one that is dropped for want of a row; an exception leaves it
unanswered, so it is repeated until a completion was committed. Of PayPal's it would
be false (`PayPalChargeRecorded`).

`Accounts`. The same argument: `Knows` says what a session has read, `Grows` that
codes stay used, links stay and accounts stay. A profile edit that read
`is_email_verified` may write it back however late, because what proved the
address then proves it now. Theorems: `TypeOK`, `VerifiedIsProven`,
`SameUserEachTime`, `CanSignIn`.

`Cart`. Two live rows are of different variants (`Apart`): which row a tab will
write was decided on a cart that has changed since, so nothing is claimed about
what tabs have read; what each write looks at itself is enough. Theorems:
`OneLinePerVariant`, `CouponMatchesClaim`. For one tab the cart it decided on can
only have shrunk (`Shrinks`), so what it is about to write fits what is available
(`Modest`) as long as nothing is taken from that: `AloneWithinStock` says that
`WithinStock` holds with one tab in every behaviour in which availability only rises
(`Rising`). Both conditions are needed. An order takes from it, another customer's or
this one's own, whose cart keeps its rows until the payment.

`Shipping`. The invariant follows a token of a normal span from UPS to the worker
that fetched it (`left + wait >= span`), into the cache
(`life.left >= copy.left + Timeout`) and to the worker that uses the copy
(`left + wait >= Timeout + 1`). Each hop may take `Timeout`, so it needs
`SkewAssumption`: the skew is at least two timeouts (300 s and 30 s in the code).
`OneRefusalIsRepaired` follows from `NeverTooOld` and from the second attempt
never taking a token from the cache: a request ends with a 401 only if UPS denied it
with a token in force or revoked a token while it ran; `ChargeFits` from `RatesFit`, every charge
is kept under the key of its parcel. Theorems: `TypeOK` and these three.

`Stockroom`. `ReservedIsHolds` needs only that desks never write the reserved
quantity. Type correctness needs more (`AdjustmentsFit`): a desk adds its delta
to what it has read, and what it has read and the delta were checked together.
`ReportsAgree` follows from the types: that the reports subtract differently does
not matter, because thresholds are not negative.

`Gallery`. Two primaries of one group are allowed while somebody is still about
to clear the group for one of them (`PairsAreCleared`), or a save of it died before it
did (`torn`), and whoever is about to
save knows the group of the variant unless that variant changed (`GroupsKnown`).

`Taxonomy`. A command is a function of the tables, and the argument is the same
for each: it makes a condition true (every row it wants is there, is named and
placed as the tables say, every tag is set), no later part of the command makes
it false again, and under that condition the command changes nothing. So what
holds after a command is also what makes it repeatable: `Rested` says that the
command that ran last would leave the tables as they are. It is an invariant
because every edit of staff forgets `last`. `CommandsRepeat` follows from
`Rested`; `SyncRepairs` and `SeedsOnlyAdd` follow from what each part of a command
does to a row that is there (`table ++ new` keeps it, a SKU of another product too). The proofs hold for any
slugs and products staff may use, and for any tables that satisfy
`TablesAreDisjoint`, which TLC evaluates for those of the code.

`Pricing`. Type correctness is inductive, and each of the four properties holds
in every well-typed state; what is hard is the sums. `RewardIsCheapest` is an
exchange: of the chosen units and any other choice of as many, the parts that
they do not share have the same size, and each unit of the one costs at most what
any unit of the other costs; rounding a percentage keeps that order
(`PercentIs`), so the sums compare (`SumDominated`). `AllocationsAddUp` sums by
line (`SumByKey`): the shares are sums of rounded amounts, as is the whole, so
nothing is lost; and a line has no more units than its quantity
(`ShareBounded`). `PaidBeforeFree` counts: a group of a shared pool has `buy + get`
units, so `Earned * (buy + get)` units are there, of which at most `Earned * get` are
given, and those belong to at most `Earned` groups (`GroupsAre`).
`ShownOfferExplains` is a case split whose one hard case is an offer that wins
alone: it is worth no more than the cart, which is `AllocationsAddUp` summed over
the lines, so the cap of the discount does not cut it. Two more theorems say when
expectations hold that the code does not keep in general:
`PaidForUnlessPoolsOverlap` (`AlwaysPaidBeforeFree`, if no line is in both pools of
an offer) and `DiscountStaysInBounds` (a discount is between nothing and the
subtotal, if no coupon has a negative amount, which `Discount.clean` accepts).

`Sums` has the lemmas behind these. The sums of the models are
`SumFunctionOnSet` of the community modules, which is defined by a recursive
function over the subsets of a set and a `CHOOSE` of the next element. That such a
function exists and is unique, and then each lemma by induction over subsets, is
proved from the well-foundedness of the strict subset relation: a set of
exceptions, were it not empty, would have a least member (`SmallestOne`,
`FiniteInduction`). The lemmas take the set of good subsets instead of a predicate
as their parameter, because the provers cannot instantiate an operator.

Only model-checked: `UnpaidExpires` and `ChargeRecorded`, which are liveness under
fairness, and the two violations.

## 5. Where the code does not do what its documents say

Two runs show a disagreement (`findings` of `PROJECT.json` quotes the lines).

- `late`: `_complete_paid_transaction` reads the order, then waits for the
  transaction row that the sweep has locked, then goes on with what it read. It
  commits stock that was already given back. With another order on the variant,
  that order's reservation is used up;
- `poisoned`: and the release of that order then raises in every sweep. As a
  sweep is one transaction for the whole batch, no order expires any more.

More expectations fail. They are stated in the last section of each module and
can be seen by putting the name in the INVARIANTS of the named configuration.

| definition | configuration | what happens |
|---|---|---|
| `TimelineComplete` | `CheckoutRace.cfg` | a second success event moves an order to processing and writes no history row |
| `AwaitingHeld` | `CheckoutSweeps.cfg` | staff reopen a cancelled order; its stock is not reserved again |
| `CommittedOnce` | `CheckoutRace.cfg` | two payments of one order both look for a commit before either writes it |
| `CartClaimIsCurrent` | `FirstOrder.cfg` | an account changes its email and keeps the claim of the old one in its cart, where checkout refuses it; or it changes it while the claim is being applied |
| `OneDiscountedOrder` | `FirstOrder.cfg` | a cart keeps its claim after checkout, so it can be checked out twice before it is paid |
| `NeverTrackedTwice` | `FirstOrder.cfg` | two claims of one email were attached to two orders: the second completion is rolled back each time it is tried |
| `OnePayPalRowPerKey` | `Payments.cfg` | a retry after a crash, or a concurrent request, opens a second PayPal order |
| `RefundOncePerKey` | `Payments.cfg` | a refund repeated with its key after a crash reaches the provider twice |
| `PayPalChargeRecorded` (property) | `Payments.cfg` | the worker dies after the capture and the event names another resource than the stored payment: it is answered and dropped |
| `WithinStock` | `Cart.cfg` | two tabs check before either writes, or what is available falls afterwards |
| `OrderAddsUp` | `Cart.cfg` | the cart changes between the reads of one checkout |
| `PromoWithinLimit` | `Cart.cfg`, `MaxOrders = 2` | the use of a coupon is never counted |
| `CouponBogoIsGiven` | `Pricing.cfg`, `Coupon <- BogoCoupons` | the selector leaves a coupon-gated offer to the coupon path, and the coupon path takes nothing off for that type |
| `AlwaysPaidBeforeFree` | `Pricing.cfg`, `Offer <- OverlapOffers` | the free unit counts as one of those that earned it |
| `RewardSourceRespected` | `Pricing.cfg`, `Offer <- SourceOffers` | the field is stored and never read |
| `RulesNarrow` | `Pricing.cfg`, `Offer <- PlanOffers` | a rule that names only a subscription plan is accepted and covers the whole cart |
| `DeactivationLasts` (property) | `Accounts.cfg` | a profile edit that read the account before staff deactivated it saves it as active |
| `PasswordStays` (property) | `Accounts.cfg` | the same edit writes back the old password over a reset |
| `TokenUsedOnce` | `Accounts.cfg` | two requests read one reset token before either marks it used |
| `VerifiedAddress` | `Accounts.cfg` | an address that was changed counts as verified; so does one whose code was sent to the address before |
| `AnyFailureFallsBack` | `Shipping.cfg` | a token answer that is no JSON, or an `expires_in` that is no number, is not a `UPSError`: the total fails instead of falling back to `base_rate` |
| `EveryHoldIsStocked` | `BackOffice.cfg` | units are reserved or sold between the check of an adjustment and its write |
| `NoTwinAlerts` | `BackOffice.cfg` | two tasks create one alert each; `get_or_create` then raises `MultipleObjectsReturned` in every later task |
| `ListMatchesDashboard` | `BackOffice.cfg` | the staff list compares the stock with the threshold, the dashboard what is left of it |
| `SomePrimary`, `OnePrimaryEver` | `BackOffice.cfg` | the primary is deleted or made inactive; a variant changes colour; a save dies before it clears the other primaries |
| `NoCycle` | `BackOffice.cfg` | a category becomes a child of its own child |
| `ValidStaysValid` (property) | `BackOffice.cfg` | the sync renames a category or changes its group, and products that had the group of it no longer do |
| `SeedsKeepPasswords` (property) | `BackOffice.cfg` | `seed_data` sets the passwords of its three users again |
| `RemovedStayRemoved` (property) | `BackOffice.cfg` | a seed looks for each SKU and creates those that staff removed |
| `SeededAreShown` | `BackOffice.cfg` | `seed_socks` uses `crew-socks`, which the sync has put away |

And some behaviour nobody has written an expectation for: a payment's repeated
success event empties the cart the customer has filled again; a PATCH that read an
image writes it again after its deletion; a seed gives a product back the
categories that staff took from it; an event of an earlier attempt leaves the row of a
payment that succeeded as failed.

## 6. Not modelled

`PROJECT.json` lists every component with its status and reason.

- Rows with no workflow: addresses, reviews, contact, content, subscriptions,
  attributes, catalog, return requests, shipping zones and methods, bundles and
  collections. One request writes one row and nothing else reads it and acts.
- Read-only queries: search, listings, the analytics other than stock.
- The JWT library behind login, refresh and logout; signature checks of webhooks,
  which refuse a request before it changes anything.
- Data no property tells apart: snapshots of addresses and items, the contents of
  UPS answers, texts, artwork, the colour mixes of a variant, the wording of mails.
- Response envelopes, permissions, settings (except the schedule of the sweep),
  URL tables, the admin site beyond what it saves, migrations (except the one
  that marks primaries).

## 7. Plan

Done: the modules and runs above and the proofs of section 4; every invariant and
action property that a run checks is a theorem. What could follow:

1. Theorems that say under which conditions more of the expectations of section 5
   hold (`OneDiscountedOrder`, `SomePrimary`, `NoCycle`), as there are for
   `WithinStock` and `AlwaysPaidBeforeFree`.
2. `Checkout` with `Stockroom`: manual adjustments against the row locks, in one
   model.
3. UPS quotes in the instance of `Pricing`, whose run has one shipping method and
   no quote (what a quote does to the total is in `Shipping`).
