------------------------------ MODULE FirstOrder ------------------------------
(***************************************************************************)
(* The first-order discount: apps/discounts/services/discount_service.py   *)
(* and the places that call it.  An email claims the discount, an account  *)
(* with that email applies the claim to the cart, checkout attaches it to  *)
(* the order and prices the order with it, payment redeems it and leaves a *)
(* DiscountUsage row that keeps the email from a second discount.          *)
(*                                                                         *)
(* An email is a normalized one here, in lower case, as the claims compare *)
(* them; User.email is unique as it is spelled, so two accounts may have   *)
(* the same one, and an account may change its own at any time.            *)
(*                                                                         *)
(* A request is a sequence of statements and other requests run between    *)
(* them: the claim requests have no transaction at all, and checkout and   *)
(* payment write at their COMMIT what they decided from earlier reads.     *)
(***************************************************************************)
EXTENDS Integers, FiniteSets

CONSTANTS
  User,        \* accounts
  Email,       \* their emails, normalized (_normalize_email)
  Registered,  \* the email each account begins with
  Claim,       \* DiscountClaim rows that may be created
  Order,       \* orders that may be placed
  Web,         \* sessions of the web workers
  None,        \* no user, no email, no claim, no order
  MaxMoves,    \* how often accounts change their emails
  MaxLapsed    \* how many claims lapse

ASSUME NoneAssumption == None \notin User \cup Email \cup Claim \cup Order
ASSUME EmailAssumption == Registered \in [User -> Email] /\ MaxMoves \in Nat /\ MaxLapsed \in Nat

VARIABLES
  mail,    \* email of each account
  had,     \* the emails each account has had (history, for the properties)
  moves,   \* how often any of them changed its email
  claim,   \* DiscountClaim rows: email, status, and the order
  lapsed,  \* claims whose expires_at has passed
  cart,    \* applied_discount_claim of each user's cart
  order,   \* Order rows: customer, payment_status, priced with the discount?
  used,    \* emails that have a DiscountUsage row
  job      \* what each session is in the middle of

vars == <<mail, had, moves, claim, lapsed, cart, order, used, job>>
accounts == <<mail, had, moves>>
tables == <<mail, had, moves, claim, lapsed, cart, order, used>>

-----------------------------------------------------------------------------

NoClaim == [mail |-> None, status |-> "none", ord |-> None]
NoOrder == [by |-> None, pay |-> "none", off |-> FALSE]
Idle == [step |-> "idle", user |-> None, mail |-> None, claim |-> None, ord |-> None]

\* The statuses in which a claim can still be used.
Open(c) == claim[c].status \in {"claimed", "applied"}

HasPaid(u) == \E o \in Order : order[o].by = u /\ order[o].pay = "paid"

Begin(w, j) == job[w] = Idle /\ job' = [job EXCEPT ![w] = j]

Continue(w, j) == job' = [job EXCEPT ![w] = j]

End(w) == Continue(w, Idle)

-----------------------------------------------------------------------------
(* Accounts: MeView.patch, which any spelling of a taken email passes.     *)

ChangeEmail(u, e) ==
  /\ moves < MaxMoves
  /\ moves' = moves + 1
  /\ mail' = [mail EXCEPT ![u] = e]
  /\ had' = [had EXCEPT ![u] = @ \cup {e}]
  /\ UNCHANGED <<claim, lapsed, cart, order, used, job>>

-----------------------------------------------------------------------------
(* Claiming: apply_first_order_discount, three statements.                 *)

\* No usage row for the email.
RequestClaim(w, e) ==
  /\ e \notin used
  /\ Begin(w, [Idle EXCEPT !.step = "look", !.mail = e])
  /\ UNCHANGED tables

\* Lapsed claims are marked; a claim that is still good is handed out again.
LookForClaim(w) ==
  /\ job[w].step = "look"
  /\ LET mine == {c \in Claim : claim[c].mail = job[w].mail /\ Open(c)}
     IN  /\ claim' = [c \in Claim |-> IF c \in mine \cap lapsed
                                      THEN [claim[c] EXCEPT !.status = "expired"]
                                      ELSE claim[c]]
         /\ IF mine \subseteq lapsed THEN Continue(w, [job[w] EXCEPT !.step = "create"])
                                     ELSE End(w)
  /\ UNCHANGED <<accounts, lapsed, cart, order, used>>

CreateClaim(w) ==
  /\ job[w].step = "create"
  /\ \E c \in Claim :
       /\ claim[c] = NoClaim
       /\ claim' = [claim EXCEPT ![c] = [NoClaim EXCEPT !.mail = job[w].mail,
                                                        !.status = "claimed"]]
  /\ End(w)
  /\ UNCHANGED <<accounts, lapsed, cart, order, used>>

\* FIRST_ORDER_CLAIM_DAYS go by.
Lapse(c) ==
  /\ Cardinality(lapsed) < MaxLapsed
  /\ claim[c] # NoClaim
  /\ lapsed' = lapsed \cup {c}
  /\ UNCHANGED <<accounts, claim, cart, order, used, job>>

-----------------------------------------------------------------------------
(* Applying: apply_first_order_claim_to_cart, four statements.             *)

\* The account was loaded to authenticate the request; now the claim is, and
\* validate_discount_claim_for_user looks at its status.
LoadClaim(w, u, c) ==
  /\ Open(c)
  /\ Begin(w, [Idle EXCEPT !.step = "validate", !.user = u, !.mail = mail[u], !.claim = c])
  /\ UNCHANGED tables

\* Faulty variant: any account may apply the claim.
Owns_Anyone(e, c) == TRUE

\* The claim is for the email that the account had when it was loaded.
Owns(e, c) == claim[c].mail = e

\* The rest of the validation.  A lapsed claim is marked on the way out.
ValidateClaim(w) ==
  /\ job[w].step = "validate"
  /\ LET c == job[w].claim
     IN  \/ /\ c \in lapsed
            /\ claim' = [claim EXCEPT ![c].status = "expired"]
            /\ End(w)
         \/ /\ c \notin lapsed
            /\ ~Owns(job[w].mail, c) \/ HasPaid(job[w].user)
            /\ End(w)
            /\ UNCHANGED claim
         \/ /\ c \notin lapsed
            /\ Owns(job[w].mail, c) /\ ~HasPaid(job[w].user)
            /\ Continue(w, [job[w] EXCEPT !.step = "claim", !.mail = None])
            /\ UNCHANGED claim
  /\ UNCHANGED <<accounts, lapsed, cart, order, used>>

\* The status is written over whatever it is by now.
SaveClaim(w) ==
  /\ job[w].step = "claim"
  /\ claim' = [claim EXCEPT ![job[w].claim].status = "applied"]
  /\ Continue(w, [job[w] EXCEPT !.step = "cart"])
  /\ UNCHANGED <<accounts, lapsed, cart, order, used>>

SaveCart(w) ==
  /\ job[w].step = "cart"
  /\ cart' = [cart EXCEPT ![job[w].user] = job[w].claim]
  /\ End(w)
  /\ UNCHANGED <<accounts, claim, lapsed, order, used>>

\* RemoveCouponView and ClearCartView: the claim leaves the cart, no more.
RemoveFromCart(u) ==
  /\ cart' = [cart EXCEPT ![u] = None]
  /\ UNCHANGED <<accounts, claim, lapsed, order, used, job>>

-----------------------------------------------------------------------------
(* Checkout: the parts of create_order_from_cart about the claim.          *)

\* validate_cart_discount_claim; a refusal rolls everything back.
BeginCheckout(w, u) ==
  /\ LET c == cart[u]
     IN  c # None => Open(c) /\ c \notin lapsed /\ Owns(mail[u], c) /\ ~HasPaid(u)
  /\ Begin(w, [Idle EXCEPT !.step = "place", !.user = u, !.claim = cart[u]])
  /\ UNCHANGED tables

\* Faulty variant: the usage is tracked when the order is placed.
FinishCheckout_Track(w) ==
  /\ job[w].step = "place"
  /\ LET c == job[w].claim
     IN  /\ \E o \in Order :
              /\ order[o] = NoOrder
              /\ order' = [order EXCEPT ![o] =
                             [by |-> job[w].user, pay |-> "pending", off |-> c # None]]
              /\ claim' = IF c = None THEN claim
                          ELSE [claim EXCEPT ![c] = [@ EXCEPT !.status = "applied", !.ord = o]]
         /\ used' = IF c = None THEN used ELSE used \cup {claim[c].mail}
  /\ End(w)
  /\ UNCHANGED <<accounts, lapsed, cart>>

\* COMMIT: the order is priced with the discount and the claim attached to
\* it, over whatever order it was attached to before.
FinishCheckout(w) ==
  /\ job[w].step = "place"
  /\ LET c == job[w].claim
     IN  \E o \in Order :
           /\ order[o] = NoOrder
           /\ order' = [order EXCEPT ![o] =
                          [by |-> job[w].user, pay |-> "pending", off |-> c # None]]
           /\ claim' = IF c = None THEN claim
                       ELSE [claim EXCEPT ![c] = [@ EXCEPT !.status = "applied", !.ord = o]]
  /\ End(w)
  /\ UNCHANGED <<accounts, lapsed, cart, used>>

-----------------------------------------------------------------------------
(* Payment: redeem_discount_claim_for_order within a completion.           *)

\* The order row is saved, and so locked; then its claim is looked for.  The
\* completion has read the order earlier: it may have expired since, and a
\* second payment redeems for an order that is paid.
BeginPay(w, o) ==
  /\ order[o] # NoOrder
  /\ \A x \in Web : job[x].step = "pay" => job[x].ord # o
  /\ \E c \in Claim \cup {None} :
       /\ IF c = None THEN \A d \in Claim : claim[d].ord # o
                      ELSE claim[c].ord = o
       /\ Begin(w, [Idle EXCEPT !.step = "pay", !.user = order[o].by, !.ord = o,
                             !.claim = IF c = None \/ claim[c].status = "redeemed"
                                       THEN None ELSE c])
  /\ UNCHANGED tables

\* Faulty variant: a second usage row is refused in a savepoint of its own and
\* the payment goes on.
FinishPay_Savepoint(w) ==
  /\ job[w].step = "pay"
  /\ LET c == job[w].claim
     IN  /\ order' = [order EXCEPT ![job[w].ord].pay = "paid"]
         /\ claim' = IF c = None THEN claim ELSE [claim EXCEPT ![c].status = "redeemed"]
         /\ used' = IF c = None THEN used ELSE used \cup {claim[c].mail}
         /\ cart' = [cart EXCEPT ![job[w].user] = None]
  /\ End(w)
  /\ UNCHANGED <<accounts, lapsed>>

\* Faulty variant: the usage is not tracked.
FinishPay_Untracked(w) ==
  /\ job[w].step = "pay"
  /\ LET c == job[w].claim
     IN  /\ c # None => claim[c].mail \notin used
         /\ order' = [order EXCEPT ![job[w].ord].pay = "paid"]
         /\ claim' = IF c = None THEN claim ELSE [claim EXCEPT ![c].status = "redeemed"]
         /\ cart' = [cart EXCEPT ![job[w].user] = None]
  /\ End(w)
  /\ UNCHANGED <<accounts, lapsed, used>>

\* COMMIT: paid, redeemed, tracked, and the cart emptied.
FinishPay(w) ==
  /\ job[w].step = "pay"
  /\ LET c == job[w].claim
     IN  /\ c # None => claim[c].mail \notin used
         /\ order' = [order EXCEPT ![job[w].ord].pay = "paid"]
         /\ claim' = IF c = None THEN claim ELSE [claim EXCEPT ![c].status = "redeemed"]
         /\ used' = IF c = None THEN used ELSE used \cup {claim[c].mail}
         /\ cart' = [cart EXCEPT ![job[w].user] = None]
  /\ End(w)
  /\ UNCHANGED <<accounts, lapsed>>

\* The email has a usage row: track_discount_usage catches the IntegrityError
\* inside the open transaction, which PostgreSQL has then aborted, so that the
\* next statement raises and the whole completion rolls back.
PoisonedPay(w) ==
  /\ job[w].step = "pay"
  /\ job[w].claim # None
  /\ claim[job[w].claim].mail \in used
  /\ End(w)
  /\ UNCHANGED tables

\* The sweep closes an unpaid order that no payment has locked; the claim
\* stays attached to it.
CloseOrder(o) ==
  /\ order[o].pay = "pending"
  /\ \A w \in Web : job[w].step = "pay" => job[w].ord # o
  /\ order' = [order EXCEPT ![o].pay = "expired"]
  /\ UNCHANGED <<accounts, claim, lapsed, cart, used, job>>

-----------------------------------------------------------------------------

Init ==
  /\ mail = Registered
  /\ had = [u \in User |-> {mail[u]}]
  /\ moves = 0
  /\ claim = [c \in Claim |-> NoClaim]
  /\ lapsed = {}
  /\ cart = [u \in User |-> None]
  /\ order = [o \in Order |-> NoOrder]
  /\ used = {}
  /\ job = [w \in Web |-> Idle]

\* The requests of FirstOrderDiscountView and FirstOrderDiscountApplyView.
ClaimRequest(w) ==
  (\E e \in Email : RequestClaim(w, e)) \/ LookForClaim(w) \/ CreateClaim(w)

ApplyRequest(w) ==
  \/ \E u \in User, c \in Claim : LoadClaim(w, u, c)
  \/ ValidateClaim(w) \/ SaveClaim(w) \/ SaveCart(w)

\* A killed worker: the transaction rolls back, the rest stays undone.
Abort(w) == job[w] # Idle /\ End(w) /\ UNCHANGED tables

Next ==
  \/ \E w \in Web :
       \/ ClaimRequest(w) \/ ApplyRequest(w)
       \/ \E u \in User : BeginCheckout(w, u)
       \/ FinishCheckout(w)
       \/ \E o \in Order : BeginPay(w, o)
       \/ FinishPay(w) \/ PoisonedPay(w)
       \/ Abort(w)
  \/ \E c \in Claim : Lapse(c)
  \/ \E u \in User : RemoveFromCart(u) \/ \E e \in Email : ChangeEmail(u, e)
  \/ \E o \in Order : CloseOrder(o)

Spec == Init /\ [][Next]_vars

-----------------------------------------------------------------------------
(* Properties.                                                             *)

ClaimRow == [mail : Email \cup {None}, ord : Order \cup {None},
             status : {"none", "claimed", "applied", "redeemed", "expired"}]

OrderRow == [by : User \cup {None}, off : BOOLEAN, pay : {"none", "pending", "paid", "expired"}]

Job == [step : {"idle", "look", "create", "validate", "claim", "cart", "place", "pay"},
        user : User \cup {None}, mail : Email \cup {None}, claim : Claim \cup {None}, ord : Order \cup {None}]

\* Every row and session has the shape the code gives it.
TypeOK ==
  /\ mail \in [User -> Email]
  /\ had \in [User -> SUBSET Email]
  /\ moves \in 0 .. MaxMoves
  /\ claim \in [Claim -> ClaimRow]
  /\ lapsed \subseteq Claim
  /\ cart \in [User -> Claim \cup {None}]
  /\ order \in [Order -> OrderRow]
  /\ used \subseteq Email
  /\ job \in [Web -> Job]

\* An email redeems at most one claim, however many it was given.
OneRedemption ==
  \A c, d \in Claim :
    claim[c].status = "redeemed" /\ claim[d].status = "redeemed"
      /\ claim[c].mail = claim[d].mail => c = d

\* An account has had an email that a claim is for.
WasFor(c, u) == claim[c].mail \in had[u]

\* An email counts as having used the discount only if an account that has had it
\* paid for an order that was priced with it: nobody is locked out by an
\* unfinished purchase (docstring of apply_first_order_discount).
UsedMeansPaid ==
  \A e \in used : \E o \in Order :
    /\ order[o].by \in User /\ e \in had[order[o].by]
    /\ order[o].pay = "paid" /\ order[o].off

\* A claim never gets into the cart or onto an order of an account that never had
\* the email it is for, whoever changes emails while requests validate it, and
\* such an order was priced with it (validate_discount_claim_for_user).
ClaimStaysWithOwner ==
  /\ \A u \in User : cart[u] # None => WasFor(cart[u], u)
  /\ \A c \in Claim, o \in Order :
       claim[c].ord = o => order[o].by \in User /\ WasFor(c, order[o].by) /\ order[o].off

\* What the proofs of these rest on.  A claim that an order or a cart refers
\* to is a row already, so that it cannot become the claim of another email;
Referred ==
  /\ \A u \in User : mail[u] \in had[u]
  /\ \A c \in Claim : claim[c].ord # None => claim[c].mail # None

\* a session that has validated a claim, or found one to redeem, keeps what it
\* found out about its email and its order until it writes;
Knows(j) ==
  /\ j.step \in {"look", "create"} => j.mail # None
  /\ j.step \in {"validate", "claim", "cart", "place"} => j.user # None
  /\ j.step \in {"validate", "claim", "cart"} => j.claim # None
  /\ j.step = "validate" => j.mail \in had[j.user]
  /\ j.step = "pay" => j.ord # None
  /\ j.claim # None =>
       /\ j.step \in {"claim", "cart", "place"} => WasFor(j.claim, j.user)
       /\ j.step = "pay" =>
            /\ order[j.ord].by \in User
            /\ WasFor(j.claim, order[j.ord].by)
            /\ order[j.ord].off

\* and a redemption leaves a usage row.
RedeemedIsUsed == \A c \in Claim : claim[c].status = "redeemed" => claim[c].mail \in used

\* The invariant: inductive, unlike its parts.
Inv ==
  /\ TypeOK /\ Referred /\ RedeemedIsUsed
  /\ OneRedemption /\ UsedMeansPaid /\ ClaimStaysWithOwner
  /\ \A w \in Web : Knows(job[w])

-----------------------------------------------------------------------------
(* What the docs lead one to expect and the code does not keep: see README. *)

\* The claim in a cart is for the email of its account ("Discount email must match
\* the logged-in account"): the account may have changed it since.
CartClaimIsCurrent == \A u \in User : cart[u] # None => claim[cart[u]].mail = mail[u]

\* One account pays at most one order that has the first-order discount
\* (models.py, unique_together of DiscountUsage).
OneDiscountedOrder ==
  \A o, p \in Order :
    order[o].pay = "paid" /\ order[o].off /\ order[p].pay = "paid" /\ order[p].off
      /\ order[o].by = order[p].by => o = p

\* A completion that redeems a claim never meets a usage row of its email
\* (comment in track_discount_usage).
NeverTrackedTwice ==
  \A w \in Web :
    job[w].step = "pay" /\ job[w].claim # None => claim[job[w].claim].mail \notin used
=============================================================================
