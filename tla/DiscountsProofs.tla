---------------------------- MODULE DiscountsProofs ----------------------------
(***************************************************************************)
(* Theorems about the discounts: FirstOrder, for any accounts, claims,     *)
(* orders and sessions, and Pricing, for any lines, prices, offers,        *)
(* coupons and quantities.                                                 *)
(***************************************************************************)
EXTENDS FirstOrder, Pricing, Sums


-------------------------------------------------------------------------------
(* First-order claims.                                                     *)


\* What a step does to rows that others have seen: nothing to a claim's email,
\* nor to an order's customer and price; and what an account had, it had.
Kept ==
  /\ \A u \in User : had[u] \subseteq had'[u]
  /\ \A c \in Claim : claim[c].mail # None => claim'[c].mail = claim[c].mail
  /\ \A o \in Order : order[o].by # None =>
       order'[o].by = order[o].by /\ order'[o].off = order[o].off

LEMMA IdleKnows == Idle \in Job /\ Knows(Idle)
  BY NoneAssumption DEF Idle, Job, Knows

\* What a session knows stays true whatever another one does.
LEMMA KnowsKept ==
  ASSUME Inv, Kept, NEW j \in Job, Knows(j)
  PROVE  Knows(j)'
  <1>0. ASSUME NEW c \in Claim, NEW u \in User, claim[c].mail \in had[u]
        PROVE  claim'[c].mail \in had'[u]
    BY <1>0, NoneAssumption DEF Kept, Inv, TypeOK, ClaimRow
  <1>1. j.claim # None /\ j.step \in {"claim", "cart", "place"}
          => claim'[j.claim].mail \in had'[j.user]
    BY <1>0, NoneAssumption DEF Knows, Job, WasFor
  <1>2. j.claim # None /\ j.step = "pay"
          => /\ order'[j.ord].by \in User
             /\ order'[j.ord].off
             /\ claim'[j.claim].mail \in had'[order'[j.ord].by]
    BY <1>0, NoneAssumption DEF Kept, Knows, Job, WasFor
  <1>3. j.step = "validate" => j.mail \in had'[j.user]
    BY NoneAssumption DEF Kept, Knows, Job
  <1>4. QED
    BY <1>1, <1>2, <1>3 DEF Knows, WasFor

\* One session moves on to j, the others stay.
LEMMA SessionsKept ==
  ASSUME Inv, Kept, NEW w \in Web, NEW j \in Job, Knows(j)',
         job' = [job EXCEPT ![w] = j]
  PROVE  /\ job' \in [Web -> Job]
         /\ \A x \in Web : Knows(job[x])'
  <1>1. job' \in [Web -> Job]
    BY DEF Inv, TypeOK
  <1>2. ASSUME NEW x \in Web PROVE Knows(job[x])'
    <2>1. CASE x = w
      <3>1. job'[x] = j
        BY <2>1 DEF Inv, TypeOK
      <3>2. QED
        BY <3>1 DEF Knows
    <2>2. CASE x # w
      <3>1. job'[x] = job[x] /\ job[x] \in Job /\ Knows(job[x])
        BY <2>2 DEF Inv, TypeOK
      <3>2. QED
        BY <3>1, KnowsKept DEF Knows, Kept, WasFor
    <2>3. QED
      BY <2>1, <2>2
  <1>3. QED
    BY <1>1, <1>2

\* The invariant about the rows alone.
RowsOK ==
  /\ mail \in [User -> Email]
  /\ had \in [User -> SUBSET Email]
  /\ moves \in 0 .. MaxMoves
  /\ claim \in [Claim -> ClaimRow]
  /\ lapsed \subseteq Claim
  /\ cart \in [User -> Claim \cup {None}]
  /\ order \in [Order -> OrderRow]
  /\ used \subseteq Email
  /\ Referred /\ RedeemedIsUsed
  /\ OneRedemption /\ UsedMeansPaid /\ ClaimStaysWithOwner

LEMMA InvParts ==
  Inv <=> /\ RowsOK
          /\ job \in [Web -> Job]
          /\ \A w \in Web : Knows(job[w])
  BY DEF Inv, RowsOK, TypeOK

LEMMA RowsUnchanged ==
  ASSUME Inv, UNCHANGED tables
  PROVE  RowsOK' /\ Kept
  BY DEF Inv, TypeOK, RowsOK, Kept, tables, Referred, RedeemedIsUsed, OneRedemption,
         UsedMeansPaid, ClaimStaysWithOwner, WasFor

\* A step of one session, from what it does to the rows and where it goes.
LEMMA StepKeeps ==
  ASSUME Inv, RowsOK', Kept, NEW w \in Web, NEW j \in Job, Knows(j)', Continue(w, j)
  PROVE  Inv'
  <1>1. job' \in [Web -> Job] /\ \A x \in Web : Knows(job[x])'
    BY SessionsKept DEF Continue
  <1>2. QED
    BY <1>1 DEF Inv, RowsOK, TypeOK

LEMMA EndKeeps ==
  ASSUME Inv, RowsOK', Kept, NEW w \in Web, End(w)
  PROVE  Inv'
  <1>1. Knows(Idle)'
    BY NoneAssumption DEF Idle, Knows
  <1>2. QED
    BY <1>1, IdleKnows, StepKeeps DEF End

LEMMA BeginContinues ==
  ASSUME NEW w, NEW j, Begin(w, j) PROVE Continue(w, j)
  BY DEF Begin, Continue

\* A claim row that changes, but for its owner and its order.
LEMMA StatusKeeps ==
  ASSUME Inv, UNCHANGED <<accounts, lapsed, cart, order, used>>,
         claim' \in [Claim -> ClaimRow],
         \A c \in Claim : /\ claim'[c].mail = claim[c].mail
                          /\ claim'[c].ord = claim[c].ord
                          /\ claim'[c].status = "redeemed" => claim[c].status = "redeemed"
  PROVE  RowsOK' /\ Kept
  BY DEF Inv, TypeOK, RowsOK, Kept, accounts, Referred, RedeemedIsUsed, OneRedemption,
         UsedMeansPaid, ClaimStaysWithOwner, WasFor

-----------------------------------------------------------------------------

LEMMA ClaimingKeeps ==
  ASSUME Inv, NEW w \in Web,
         \/ \E e \in Email : RequestClaim(w, e)
         \/ LookForClaim(w)
         \/ CreateClaim(w)
  PROVE  Inv'
  <1>1. ASSUME NEW e \in Email, RequestClaim(w, e) PROVE Inv'
    <2> DEFINE j == [Idle EXCEPT !.step = "look", !.mail = e]
    <2>1. j \in Job /\ Knows(j)'
      BY NoneAssumption DEF Idle, Job, Knows
    <2>2. Continue(w, j) /\ UNCHANGED tables
      BY <1>1, BeginContinues DEF RequestClaim
    <2> HIDE DEF j
    <2>3. QED
      BY <2>1, <2>2, RowsUnchanged, StepKeeps
  <1>2. ASSUME LookForClaim(w) PROVE Inv'
    <2>0. PICK j : j = [job[w] EXCEPT !.step = "create"]
      OBVIOUS
    <2>1. job[w] \in Job /\ Knows(job[w]) /\ job[w].step = "look"
      BY <1>2 DEF LookForClaim, Inv, TypeOK
    <2>2. RowsOK' /\ Kept
      <3>1. claim' \in [Claim -> ClaimRow]
        BY <1>2 DEF LookForClaim, Inv, TypeOK, ClaimRow
      <3>2. \A c \in Claim : /\ claim'[c].mail = claim[c].mail
                             /\ claim'[c].ord = claim[c].ord
                             /\ claim'[c].status = "redeemed" => claim[c].status = "redeemed"
        BY <1>2 DEF LookForClaim, Inv, TypeOK, ClaimRow
      <3>3. QED
        BY <1>2, <3>1, <3>2, StatusKeeps DEF LookForClaim
    <2>3. CASE End(w)
      BY <2>2, <2>3, EndKeeps
    <2>4. CASE Continue(w, [job[w] EXCEPT !.step = "create"])
      <3>1. j \in Job
        BY <2>0, <2>1 DEF Job
      <3>2. Knows(j)'
        BY <2>0, <2>1 DEF Knows, Job
      <3>3. QED
        BY <3>1, <3>2, <2>0, <2>2, <2>4, StepKeeps
    <2>5. QED
      BY <1>2, <2>3, <2>4 DEF LookForClaim
  <1>3. ASSUME CreateClaim(w) PROVE Inv'
    <2>1. PICK c \in Claim :
            /\ claim[c] = NoClaim
            /\ claim' = [claim EXCEPT ![c] = [NoClaim EXCEPT !.mail = job[w].mail,
                                                             !.status = "claimed"]]
      BY <1>3 DEF CreateClaim
    <2>2. job[w].mail \in Email
      BY <1>3 DEF CreateClaim, Inv, TypeOK, Job, Knows
    <2>3. claim' \in [Claim -> ClaimRow]
      BY <2>1, <2>2 DEF Inv, TypeOK, ClaimRow, NoClaim
    <2>4. /\ claim[c].mail = None /\ claim[c].ord = None
          /\ claim'[c].mail = job[w].mail /\ claim'[c].ord = None
          /\ claim'[c].status = "claimed"
          /\ \A d \in Claim : d # c => claim'[d] = claim[d]
      BY <2>1, <2>2 DEF Inv, TypeOK, ClaimRow, NoClaim
    <2>5. UNCHANGED <<accounts, lapsed, cart, order, used>>
      BY <1>3 DEF CreateClaim
    <2>6. Kept
      BY <2>4, <2>5 DEF Kept, accounts
    <2>7. Referred'
      BY <2>4, <2>5, NoneAssumption DEF Inv, TypeOK, Referred, accounts
    <2>8. RedeemedIsUsed' /\ OneRedemption'
      BY <2>4, <2>5 DEF Inv, RedeemedIsUsed, OneRedemption
    <2>9. UsedMeansPaid'
      BY <2>5 DEF Inv, UsedMeansPaid, accounts
    <2>10. ClaimStaysWithOwner'
      BY <2>4, <2>5, NoneAssumption DEF Inv, TypeOK, ClaimStaysWithOwner, WasFor, accounts
    <2>11. RowsOK'
      BY <2>3, <2>5, <2>7, <2>8, <2>9, <2>10 DEF RowsOK, Inv, TypeOK, accounts
    <2>12. End(w)
      BY <1>3 DEF CreateClaim
    <2>13. QED
      BY <2>6, <2>11, <2>12, EndKeeps
  <1>4. QED
    BY <1>1, <1>2, <1>3

LEMMA ApplyingKeeps ==
  ASSUME Inv, NEW w \in Web,
         \/ \E u \in User, c \in Claim : LoadClaim(w, u, c)
         \/ ValidateClaim(w) \/ SaveClaim(w) \/ SaveCart(w)
  PROVE  Inv'
  <1>0. job[w] \in Job /\ Knows(job[w])
    BY DEF Inv, TypeOK
  <1>1. ASSUME NEW u \in User, NEW c \in Claim, LoadClaim(w, u, c) PROVE Inv'
    <2>1. PICK j : j = [Idle EXCEPT !.step = "validate", !.user = u, !.mail = mail[u], !.claim = c]
      OBVIOUS
    <2>2. j \in Job /\ Knows(j)
      BY <2>1, NoneAssumption DEF Idle, Job, Knows, Inv, TypeOK, Referred
    <2>3. Continue(w, j) /\ UNCHANGED tables
      BY <1>1, <2>1, BeginContinues DEF LoadClaim
    <2>4. Knows(j)'
      BY <2>2, <2>3, RowsUnchanged, KnowsKept
    <2>5. QED
      BY <2>2, <2>3, <2>4, RowsUnchanged, StepKeeps
  <1>2. ASSUME ValidateClaim(w) PROVE Inv'
    <2>1. job[w].claim \in Claim /\ job[w].step = "validate" /\ job[w].user # None
      BY <1>0, <1>2 DEF ValidateClaim, Job, Knows
    <2>2. CASE claim' = [claim EXCEPT ![job[w].claim].status = "expired"] /\ End(w)
      <3>1. claim' \in [Claim -> ClaimRow]
        BY <2>1, <2>2 DEF Inv, TypeOK, ClaimRow
      <3>2. \A c \in Claim : /\ claim'[c].mail = claim[c].mail
                             /\ claim'[c].ord = claim[c].ord
                             /\ claim'[c].status = "redeemed" => claim[c].status = "redeemed"
        BY <2>1, <2>2 DEF Inv, TypeOK, ClaimRow
      <3>3. RowsOK' /\ Kept
        BY <1>2, <3>1, <3>2, StatusKeeps DEF ValidateClaim
      <3>4. QED
        BY <2>2, <3>3, EndKeeps
    <2>3. CASE End(w) /\ UNCHANGED claim
      <3>1. UNCHANGED tables
        BY <1>2, <2>3 DEF ValidateClaim, tables, accounts
      <3>2. QED
        BY <2>3, <3>1, RowsUnchanged, EndKeeps
    <2>4. CASE /\ Owns(job[w].mail, job[w].claim)
               /\ Continue(w, [job[w] EXCEPT !.step = "claim", !.mail = None])
               /\ UNCHANGED claim
      <3>1. UNCHANGED tables
        BY <1>2, <2>4 DEF ValidateClaim, tables, accounts
      <3>2. PICK j : j = [job[w] EXCEPT !.step = "claim", !.mail = None]
        OBVIOUS
      <3>3. j \in Job /\ Knows(j)
        BY <1>0, <2>1, <2>4, <3>2 DEF Job, Knows, Owns, WasFor
      <3>5. Knows(j)'
        BY <3>1, <3>3, RowsUnchanged, KnowsKept
      <3>4. QED
        BY <2>4, <3>1, <3>2, <3>3, <3>5, RowsUnchanged, StepKeeps
    <2>5. QED
      BY <1>2, <2>2, <2>3, <2>4 DEF ValidateClaim
  <1>3. ASSUME SaveClaim(w) PROVE Inv'
    <2>1. job[w].claim \in Claim /\ job[w].step = "claim"
      BY <1>0, <1>3 DEF SaveClaim, Job, Knows
    <2>2. claim' \in [Claim -> ClaimRow]
      BY <1>3, <2>1 DEF SaveClaim, Inv, TypeOK, ClaimRow
    <2>3. \A c \in Claim : /\ claim'[c].mail = claim[c].mail
                           /\ claim'[c].ord = claim[c].ord
                           /\ claim'[c].status = "redeemed" => claim[c].status = "redeemed"
      BY <1>3, <2>1 DEF SaveClaim, Inv, TypeOK, ClaimRow
    <2>4. RowsOK' /\ Kept
      BY <1>3, <2>2, <2>3, StatusKeeps DEF SaveClaim
    <2>5. PICK j : j = [job[w] EXCEPT !.step = "cart"]
      OBVIOUS
    <2>6. j \in Job /\ Knows(j)'
      BY <1>0, <1>3, <2>1, <2>3, <2>5 DEF Job, Knows, WasFor, SaveClaim, accounts
    <2>7. QED
      BY <1>3, <2>4, <2>5, <2>6, StepKeeps DEF SaveClaim
  <1>4. ASSUME SaveCart(w) PROVE Inv'
    <2>1. /\ job[w].claim \in Claim /\ job[w].user \in User
          /\ WasFor(job[w].claim, job[w].user)
      BY <1>0, <1>4, NoneAssumption DEF SaveCart, Job, Knows
    <2>2. RowsOK' /\ Kept
      BY <1>4, <2>1 DEF SaveCart, Inv, TypeOK, RowsOK, Kept, accounts, Referred, RedeemedIsUsed,
                        OneRedemption, UsedMeansPaid, ClaimStaysWithOwner, WasFor
    <2>3. QED
      BY <1>4, <2>2, EndKeeps DEF SaveCart
  <1>5. QED
    BY <1>1, <1>2, <1>3, <1>4

LEMMA CheckoutKeeps ==
  ASSUME Inv, NEW w \in Web,
         \/ \E u \in User : BeginCheckout(w, u)
         \/ FinishCheckout(w)
  PROVE  Inv'
  <1>1. ASSUME NEW u \in User, BeginCheckout(w, u) PROVE Inv'
    <2>1. PICK j : j = [Idle EXCEPT !.step = "place", !.user = u, !.claim = cart[u]]
      OBVIOUS
    <2>2. UNCHANGED tables /\ Continue(w, j)
      BY <1>1, <2>1, BeginContinues DEF BeginCheckout
    <2>3. j \in Job
      BY <2>1 DEF Idle, Job, Inv, TypeOK
    <2>4. Knows(j)'
      BY <1>1, <2>1, <2>2, NoneAssumption
      DEF Idle, Knows, Inv, ClaimStaysWithOwner, WasFor, BeginCheckout, tables
    <2>5. QED
      BY <2>2, <2>3, <2>4, RowsUnchanged, StepKeeps
  <1>2. ASSUME FinishCheckout(w) PROVE Inv'
    <2>0. /\ job[w] \in Job /\ Knows(job[w]) /\ job[w].step = "place"
          /\ job[w].user \in User
      BY <1>2 DEF FinishCheckout, Inv, TypeOK, Knows, Job
    <2>1. PICK o \in Order :
            /\ order[o] = NoOrder
            /\ order' = [order EXCEPT ![o] =
                           [by |-> job[w].user, pay |-> "pending", off |-> job[w].claim # None]]
            /\ claim' = IF job[w].claim = None THEN claim
                        ELSE [claim EXCEPT ![job[w].claim] =
                                [@ EXCEPT !.status = "applied", !.ord = o]]
      BY <1>2 DEF FinishCheckout
    <2>2. UNCHANGED <<mail, had, moves, lapsed, cart, used>>
      BY <1>2 DEF FinishCheckout, accounts
    <2>3. /\ order' \in [Order -> OrderRow]
          /\ order[o].by = None /\ order[o].pay = "none"
          /\ order'[o].by = job[w].user /\ order'[o].off = (job[w].claim # None)
          /\ \A p \in Order : p # o => order'[p] = order[p]
      BY <2>0, <2>1 DEF Inv, TypeOK, OrderRow, NoOrder
    <2>4. ASSUME job[w].claim # None
          PROVE  /\ job[w].claim \in Claim
                 /\ WasFor(job[w].claim, job[w].user)
                 /\ claim' = [claim EXCEPT ![job[w].claim] =
                                [claim[job[w].claim] EXCEPT !.status = "applied", !.ord = o]]
      BY <2>0, <2>1, <2>4 DEF Job, Knows
    <2>5. /\ claim' \in [Claim -> ClaimRow]
          /\ \A c \in Claim :
               /\ claim'[c].mail = claim[c].mail
               /\ claim'[c].status = "redeemed" => claim[c].status = "redeemed"
               /\ \/ claim'[c].ord = claim[c].ord
                  \/ c = job[w].claim /\ claim'[c].ord = o /\ WasFor(c, job[w].user)
      <3>0. claim \in [Claim -> ClaimRow] /\ o \in Order
        BY <2>1 DEF Inv, TypeOK
      <3>1. CASE job[w].claim = None
        <4>1. claim' = claim
          BY <2>1, <3>1
        <4>2. QED
          BY <3>0, <4>1
      <3>2. CASE job[w].claim # None
        <4>1. PICK row : row = [claim[job[w].claim] EXCEPT !.status = "applied", !.ord = o]
          OBVIOUS
        <4>2. /\ job[w].claim \in Claim
              /\ WasFor(job[w].claim, job[w].user)
              /\ claim' = [claim EXCEPT ![job[w].claim] = row]
          BY <2>4, <3>2, <4>1
        <4>3. /\ row \in ClaimRow /\ row.mail = claim[job[w].claim].mail
              /\ row.status = "applied" /\ row.ord = o
          BY <3>0, <4>1, <4>2 DEF ClaimRow
        <4>4. claim' \in [Claim -> ClaimRow]
          BY <3>0, <4>2, <4>3
        <4>5. ASSUME NEW c \in Claim
              PROVE  /\ claim'[c].mail = claim[c].mail
                     /\ claim'[c].status = "redeemed" => claim[c].status = "redeemed"
                     /\ \/ claim'[c].ord = claim[c].ord
                        \/ c = job[w].claim /\ claim'[c].ord = o /\ WasFor(c, job[w].user)
          BY <3>0, <4>2, <4>3
        <4>6. QED
          BY <4>4, <4>5
      <3>3. QED
        BY <3>1, <3>2
    <2>6. Kept
      BY <2>2, <2>3, <2>5 DEF Kept
    <2>7. Referred'
      <3>1. ASSUME NEW c \in Claim, claim'[c].ord # None PROVE claim'[c].mail # None
        <4>1. CASE claim'[c].ord = claim[c].ord
          BY <2>5, <3>1, <4>1 DEF Inv, Referred
        <4>2. CASE WasFor(c, job[w].user)
          BY <2>0, <2>5, <4>2, NoneAssumption DEF Inv, TypeOK, WasFor
        <4>3. QED
          BY <2>5, <4>1, <4>2
      <3>2. \A u \in User : mail'[u] \in had'[u]
        BY <2>2 DEF Inv, Referred
      <3>3. QED
        BY <3>1, <3>2 DEF Referred
    <2>8. RedeemedIsUsed' /\ OneRedemption'
      BY <2>2, <2>5 DEF Inv, RedeemedIsUsed, OneRedemption
    <2>9. UsedMeansPaid'
      BY <2>2, <2>3 DEF Inv, UsedMeansPaid
    <2>10. ClaimStaysWithOwner'
      <3>1. \A u \in User : cart'[u] # None => claim'[cart'[u]].mail \in had'[u]
        BY <2>2, <2>5 DEF Inv, TypeOK, ClaimStaysWithOwner, WasFor
      <3>2. ASSUME NEW c \in Claim, NEW p \in Order, claim'[c].ord = p
            PROVE  /\ order'[p].by \in User /\ order'[p].off
                   /\ claim'[c].mail \in had'[order'[p].by]
        <4>1. CASE c = job[w].claim /\ p = o /\ WasFor(c, job[w].user)
          BY <2>0, <2>2, <2>3, <2>5, <4>1, NoneAssumption DEF Inv, TypeOK, WasFor, Job
        <4>2. CASE claim[c].ord = p
          <5>1. /\ order[p].by \in User /\ order[p].off
                /\ claim[c].mail \in had[order[p].by]
            BY <4>2 DEF Inv, ClaimStaysWithOwner, WasFor
          <5>2. p # o
            BY <2>3, <5>1, NoneAssumption
          <5>3. QED
            BY <2>2, <2>3, <2>5, <5>1, <5>2
        <4>3. QED
          BY <2>5, <3>2, <4>1, <4>2
      <3>3. QED
        BY <3>1, <3>2 DEF ClaimStaysWithOwner, WasFor
    <2>11. RowsOK'
      BY <2>2, <2>3, <2>5, <2>7, <2>8, <2>9, <2>10 DEF RowsOK, Inv, TypeOK
    <2>12. QED
      BY <1>2, <2>6, <2>11, EndKeeps DEF FinishCheckout
  <1>3. QED
    BY <1>1, <1>2

LEMMA PayingKeeps ==
  ASSUME Inv, NEW w \in Web,
         \/ \E o \in Order : BeginPay(w, o)
         \/ FinishPay(w) \/ PoisonedPay(w) \/ Abort(w)
  PROVE  Inv'
  <1>0. job[w] \in Job /\ Knows(job[w])
    BY DEF Inv, TypeOK
  <1>1. ASSUME NEW o \in Order, BeginPay(w, o) PROVE Inv'
    <2>1. PICK c \in Claim \cup {None} :
            /\ c # None => claim[c].ord = o
            /\ Begin(w, [Idle EXCEPT !.step = "pay", !.user = order[o].by, !.ord = o,
                                     !.claim = IF c = None \/ claim[c].status = "redeemed"
                                               THEN None ELSE c])
      BY <1>1 DEF BeginPay
    <2>2. PICK j : j = [Idle EXCEPT !.step = "pay", !.user = order[o].by, !.ord = o,
                                      !.claim = IF c = None \/ claim[c].status = "redeemed"
                                                THEN None ELSE c]
      OBVIOUS
    <2>3. UNCHANGED tables /\ Continue(w, j)
      BY <1>1, <2>1, <2>2, BeginContinues DEF BeginPay
    <2>4. j \in Job
      BY <2>1, <2>2 DEF Idle, Job, Inv, TypeOK, OrderRow
    <2>5. Knows(j)
      <3>1. j.claim # None =>
              j.claim \in Claim /\ claim[j.claim].ord = o
        BY <2>1, <2>2 DEF Idle
      <3>2. j.claim # None =>
              /\ order[o].by \in User
              /\ WasFor(j.claim, order[o].by)
              /\ order[o].off
        BY <3>1 DEF Inv, ClaimStaysWithOwner
      <3>3. QED
        BY <2>2, <3>2, NoneAssumption DEF Knows, Idle
    <2>6. Knows(j)'
      BY <2>3, <2>4, <2>5, RowsUnchanged, KnowsKept
    <2>7. QED
      BY <2>3, <2>4, <2>6, RowsUnchanged, StepKeeps
  <1>2. ASSUME FinishPay(w) PROVE Inv'
    <2> DEFINE c == job[w].claim
               o == job[w].ord
    <2>0. /\ o \in Order /\ job[w].step = "pay" /\ c \in Claim \cup {None}
          /\ c # None => /\ order[o].by \in User /\ claim[c].mail \in had[order[o].by]
                         /\ order[o].off /\ claim[c].mail \notin used
      BY <1>0, <1>2 DEF FinishPay, Job, Knows, WasFor
    <2>1. /\ order' = [order EXCEPT ![o].pay = "paid"]
          /\ claim' = IF c = None THEN claim ELSE [claim EXCEPT ![c].status = "redeemed"]
          /\ used' = IF c = None THEN used ELSE used \cup {claim[c].mail}
          /\ cart' = [cart EXCEPT ![job[w].user] = None]
          /\ UNCHANGED <<mail, had, moves, lapsed>> /\ End(w)
      BY <1>2 DEF FinishPay, accounts
    <2>2. /\ order' \in [Order -> OrderRow]
          /\ order'[o].pay = "paid"
          /\ \A p \in Order : /\ order'[p].by = order[p].by /\ order'[p].off = order[p].off
                              /\ order[p].pay = "paid" => order'[p].pay = "paid"
      BY <2>0, <2>1 DEF Inv, TypeOK, OrderRow
    <2>3. /\ claim' \in [Claim -> ClaimRow]
          /\ \A d \in Claim : /\ claim'[d].mail = claim[d].mail
                              /\ claim'[d].ord = claim[d].ord
                              /\ d # c => claim'[d].status = claim[d].status
      BY <2>0, <2>1 DEF Inv, TypeOK, ClaimRow
    <2>4. /\ cart' \in [User -> Claim \cup {None}]
          /\ \A u \in User : cart'[u] # None => cart'[u] = cart[u]
      BY <2>1 DEF Inv, TypeOK
    <2>5. Kept
      BY <2>1, <2>2, <2>3 DEF Kept
    <2>6. Referred' /\ ClaimStaysWithOwner'
      BY <2>1, <2>2, <2>3, <2>4, NoneAssumption
      DEF Inv, TypeOK, Referred, ClaimStaysWithOwner, WasFor
    <2> HIDE DEF c, o
    <2>7. used' \subseteq Email
      BY <2>0, <2>1 DEF Inv, TypeOK
    <2>8. RedeemedIsUsed'
      BY <2>0, <2>1, <2>3 DEF Inv, RedeemedIsUsed
    <2>9. OneRedemption'
      <3>1. ASSUME NEW d \in Claim, d # c, claim[d].status = "redeemed", c # None
            PROVE  claim[d].mail # claim[c].mail
        BY <2>0, <3>1 DEF Inv, RedeemedIsUsed
      <3>2. QED
        BY <2>0, <2>1, <2>3, <3>1 DEF Inv, OneRedemption
    <2>10. UsedMeansPaid'
      BY <2>0, <2>1, <2>2 DEF Inv, UsedMeansPaid
    <2>11. RowsOK'
      BY <2>1, <2>2, <2>3, <2>4, <2>6, <2>7, <2>8, <2>9, <2>10 DEF RowsOK, Inv, TypeOK
    <2>12. QED
      BY <2>1, <2>5, <2>11, EndKeeps
  <1>3. ASSUME PoisonedPay(w) PROVE Inv'
    BY <1>3, RowsUnchanged, EndKeeps DEF PoisonedPay
  <1>4. ASSUME Abort(w) PROVE Inv'
    BY <1>4, RowsUnchanged, EndKeeps DEF Abort
  <1>5. QED
    BY <1>1, <1>2, <1>3, <1>4

LEMMA OthersKeep ==
  ASSUME Inv, job' = job,
         \/ \E c \in Claim : Lapse(c)
         \/ \E u \in User : RemoveFromCart(u) \/ \E e \in Email : ChangeEmail(u, e)
         \/ \E o \in Order : CloseOrder(o)
  PROVE  Inv'
  <1>1. RowsOK' /\ Kept
    <2>1. ASSUME NEW c \in Claim, Lapse(c) PROVE RowsOK' /\ Kept
      BY <2>1 DEF Lapse, Inv, TypeOK, RowsOK, Kept, accounts, Referred, RedeemedIsUsed, OneRedemption,
                  UsedMeansPaid, ClaimStaysWithOwner, WasFor
    <2>2. ASSUME NEW u \in User, RemoveFromCart(u) PROVE RowsOK' /\ Kept
      BY <2>2 DEF RemoveFromCart, Inv, TypeOK, RowsOK, Kept, accounts, Referred, RedeemedIsUsed,
                  OneRedemption, UsedMeansPaid, ClaimStaysWithOwner, WasFor
    <2>3. ASSUME NEW o \in Order, CloseOrder(o) PROVE RowsOK' /\ Kept
      <3>1. /\ order' \in [Order -> OrderRow]
            /\ \A p \in Order : /\ order'[p].by = order[p].by /\ order'[p].off = order[p].off
                                /\ order[p].pay = "paid" => order'[p].pay = "paid"
        BY <2>3 DEF CloseOrder, Inv, TypeOK, OrderRow
      <3>2. QED
        BY <2>3, <3>1 DEF CloseOrder, Inv, TypeOK, RowsOK, Kept, accounts, Referred, RedeemedIsUsed,
                          OneRedemption, UsedMeansPaid, ClaimStaysWithOwner, WasFor
    <2>4. ASSUME NEW u \in User, NEW e \in Email, ChangeEmail(u, e) PROVE RowsOK' /\ Kept
      <3>1. /\ mail' \in [User -> Email] /\ had' \in [User -> SUBSET Email]
            /\ moves' \in 0 .. MaxMoves
            /\ \A v \in User : mail'[v] \in had'[v] /\ had[v] \subseteq had'[v]
        BY <2>4, EmailAssumption DEF ChangeEmail, Inv, TypeOK, Referred
      <3>2. UNCHANGED <<claim, lapsed, cart, order, used>>
        BY <2>4 DEF ChangeEmail
      <3>3. Kept
        BY <3>1, <3>2 DEF Kept
      <3>4. UsedMeansPaid' /\ ClaimStaysWithOwner'
        BY <3>1, <3>2 DEF Inv, UsedMeansPaid, ClaimStaysWithOwner, WasFor
      <3>5. Referred' /\ RedeemedIsUsed' /\ OneRedemption'
        BY <3>1, <3>2 DEF Inv, Referred, RedeemedIsUsed, OneRedemption
      <3>6. QED
        BY <3>1, <3>2, <3>3, <3>4, <3>5 DEF Inv, TypeOK, RowsOK
    <2>5. QED
      BY <2>1, <2>2, <2>3, <2>4
  <1>2. ASSUME NEW x \in Web PROVE Knows(job[x])'
    <2>1. job'[x] = job[x] /\ job[x] \in Job /\ Knows(job[x])
      BY DEF Inv, TypeOK
    <2>2. QED
      BY <1>1, <2>1, KnowsKept DEF Knows, Kept, WasFor
  <1>3. QED
    BY <1>1, <1>2 DEF Inv, RowsOK, TypeOK

-----------------------------------------------------------------------------

LEMMA InvInit == Init => Inv
  <1> SUFFICES ASSUME Init PROVE Inv
    OBVIOUS
  <1>1. RowsOK
    BY NoneAssumption, EmailAssumption DEF Init, RowsOK, NoClaim, NoOrder, ClaimRow, OrderRow, Referred,
         RedeemedIsUsed, OneRedemption, UsedMeansPaid, ClaimStaysWithOwner, WasFor
  <1>2. job \in [Web -> Job] /\ \A w \in Web : Knows(job[w])
    BY IdleKnows DEF Init
  <1>3. QED
    BY <1>1, <1>2, InvParts

LEMMA InvStep == Inv /\ [Next]_vars => Inv'
  <1> SUFFICES ASSUME Inv, [Next]_vars PROVE Inv'
    OBVIOUS
  <1>1. CASE UNCHANGED vars
    BY <1>1 DEF vars, Inv, TypeOK, Referred, RedeemedIsUsed, OneRedemption, UsedMeansPaid,
                ClaimStaysWithOwner, Knows, WasFor
  <1>2. ASSUME NEW w \in Web,
               \/ ClaimRequest(w) \/ ApplyRequest(w)
               \/ \E u \in User : BeginCheckout(w, u)
               \/ FinishCheckout(w)
               \/ \E o \in Order : BeginPay(w, o)
               \/ FinishPay(w) \/ PoisonedPay(w)
               \/ Abort(w)
        PROVE  Inv'
    <2>1. CASE ClaimRequest(w)
      BY <2>1, ClaimingKeeps DEF ClaimRequest
    <2>2. CASE ApplyRequest(w)
      BY <2>2, ApplyingKeeps DEF ApplyRequest
    <2>3. QED
      BY <1>2, <2>1, <2>2, CheckoutKeeps, PayingKeeps
  <1>3. CASE \/ \E c \in Claim : Lapse(c)
             \/ \E u \in User : RemoveFromCart(u) \/ \E e \in Email : ChangeEmail(u, e)
             \/ \E o \in Order : CloseOrder(o)
    BY <1>3, OthersKeep DEF Lapse, RemoveFromCart, ChangeEmail, CloseOrder
  <1>4. QED
    BY <1>1, <1>2, <1>3 DEF Next

\* Claims, carts, orders and usage rows keep the invariant, whatever requests
\* and payments overlap (discount_service.py).
THEOREM InvCorrect == Spec => []Inv
  BY InvInit, InvStep, PTL DEF Spec

\* Type correctness, for any number of accounts, claims, orders and sessions.
THEOREM TypeCorrect == Spec => []TypeOK
  <1>1. Inv => TypeOK
    BY DEF Inv
  <1>2. QED
    BY <1>1, InvCorrect, PTL

\* An email redeems at most one claim: redeem_discount_claim_for_order writes
\* the usage row with the redemption or rolls both back.
THEOREM RedeemedOnce == Spec => []OneRedemption
  <1>1. Inv => OneRedemption
    BY DEF Inv
  <1>2. QED
    BY <1>1, InvCorrect, PTL

\* No email is locked out of the discount unless an account of it has paid for an order that
\* had it (apply_first_order_discount).
THEOREM OnlyBuyersAreUsed == Spec => []UsedMeansPaid
  <1>1. Inv => UsedMeansPaid
    BY DEF Inv
  <1>2. QED
    BY <1>1, InvCorrect, PTL

\* Though accounts change their emails in the middle of it, and share them: no
\* claim ends up in the cart or on an order of an account that never had its email
\* (validate_discount_claim_for_user).
THEOREM ClaimIsPersonal == Spec => []ClaimStaysWithOwner
  <1>1. Inv => ClaimStaysWithOwner
    BY DEF Inv
  <1>2. QED
    BY <1>1, InvCorrect, PTL

-------------------------------------------------------------------------------
(* Prices, offers and totals.                                              *)


PricingTypeOK ==
  /\ qty \in [Line -> 0 .. MaxQty] /\ price \in [Line -> Price] /\ active \subseteq Offer
  /\ coupon \in Coupon \cup {Nothing} /\ method \in Method \cup {Nothing}
  /\ ups \in Quote \cup {Nothing}

-----------------------------------------------------------------------------
(* Numbers. *)

LEMMA MinOfTwo ==
  ASSUME NEW a \in Int, NEW b \in Int
  PROVE  Min({a, b}) = IF a <= b THEN a ELSE b
  <1> DEFINE m == IF a <= b THEN a ELSE b
  <1>1. m \in {a, b} /\ \A y \in {a, b} : m <= y
    OBVIOUS
  <1>2. \A x \in {a, b} : (\A y \in {a, b} : x <= y) => x = m
    OBVIOUS
  <1> HIDE DEF m
  <1>3. Min({a, b}) = m
    BY <1>1, <1>2 DEF Min
  <1>4. QED
    BY <1>3 DEF m

LEMMA MaxOfTwo ==
  ASSUME NEW a \in Int, NEW b \in Int
  PROVE  Max({a, b}) = IF a >= b THEN a ELSE b
  <1> DEFINE m == IF a >= b THEN a ELSE b
  <1>1. m \in {a, b} /\ \A y \in {a, b} : m >= y
    OBVIOUS
  <1>2. \A x \in {a, b} : (\A y \in {a, b} : x >= y) => x = m
    OBVIOUS
  <1> HIDE DEF m
  <1>3. Max({a, b}) = m
    BY <1>1, <1>2 DEF Max
  <1>4. QED
    BY <1>3 DEF m

LEMMA TimesGrows ==
  ASSUME NEW a \in Nat, NEW b \in Nat, NEW p \in Nat, a <= b
  PROVE  a * p \in Nat /\ b * p \in Nat /\ a * p <= b * p
  OBVIOUS

LEMMA PercentIs ==
  ASSUME NEW a \in Nat, NEW p \in Nat
  PROVE  /\ Percent(a, p) \in Nat
         /\ \A b \in Nat : a <= b => Percent(a, p) <= Percent(b, p)
         /\ p <= 100 => Percent(a, p) <= a
  <1>1. \A b \in Nat : b * p \in Nat /\ Percent(b, p) = (b * p + 50) \div 100
    BY TimesGrows DEF Percent
  <1>2. \A x \in Nat : (x + 50) \div 100 \in Nat
    OBVIOUS
  <1>3. \A x \in Nat, y \in Nat : x <= y => (x + 50) \div 100 <= (y + 50) \div 100
    OBVIOUS
  <1>4. ASSUME NEW b \in Nat, a <= b PROVE Percent(a, p) <= Percent(b, p)
    BY <1>1, <1>3, <1>4, TimesGrows
  <1>5. ASSUME p <= 100 PROVE Percent(a, p) <= a
    <2>1. a * p <= a * 100
      BY <1>5, TimesGrows
    <2>2. (a * 100 + 50) \div 100 = a
      OBVIOUS
    <2>3. a * p \in Nat /\ a * 100 \in Nat
      BY <1>1
    <2>4. QED
      BY <1>1, <1>3, <2>1, <2>2, <2>3
  <1>6. QED
    BY <1>1, <1>2, <1>4, <1>5

LEMMA QuotientIs ==
  ASSUME NEW a \in Nat, NEW g \in Nat \ {0}
  PROVE  a \div g \in Nat /\ (a \div g) * g <= a
  OBVIOUS

LEMMA PercentInt ==
  ASSUME NEW a \in Int, NEW p \in Int
  PROVE  Percent(a, p) \in Int
  BY DEF Percent

-----------------------------------------------------------------------------
(* Units. *)

LEMMA OfferIs ==
  ASSUME NEW o \in Offer
  PROVE  /\ o.buy \in Nat \ {0} /\ o.get \in Nat \ {0} /\ o.max \in Nat
         /\ o.percent \in Nat /\ 0 < o.percent /\ o.percent <= 100
  BY DiscountAssumption, NumbersAssumption DEF ValidDiscount

LEMMA LineIs ==
  ASSUME PricingTypeOK, NEW l \in Line
  PROVE  price[l] \in Nat /\ qty[l] \in Nat /\ price[l] * qty[l] \in Nat
  <1>1. price[l] \in Price /\ qty[l] \in 0 .. MaxQty
    BY DEF PricingTypeOK
  <1>2. \A p \in Price : p \in Nat
    BY LineAssumption
  <1>3. \A n \in 0 .. MaxQty : n \in Nat
    OBVIOUS
  <1>4. \A a, b \in Nat : a * b \in Nat
    OBVIOUS
  <1>5. QED
    BY <1>1, <1>2, <1>3, <1>4

UnitSpace == Line \X (1 .. MaxQty)

LEMMA UnitSpaceFinite == IsFiniteSet(UnitSpace)
  <1>1. MaxQty \in Int /\ 1 \in Int
    BY LineAssumption
  <1>2. IsFiniteSet(1 .. MaxQty)
    BY <1>1, FS_Interval
  <1>3. QED
    BY <1>2, LineAssumption, FS_Product DEF UnitSpace

LEMMA UnitsAre ==
  ASSUME PricingTypeOK, NEW scope
  PROVE  /\ Units(scope) \in SUBSET UnitSpace /\ IsFiniteSet(Units(scope))
         /\ \A u \in Units(scope) : u[2] <= qty[u[1]]
  <1>1. Units(scope) \in SUBSET UnitSpace
    BY DEF Units, UnitSpace
  <1>2. QED
    BY <1>1, UnitSpaceFinite, FS_Subset DEF Units

LEMMA PoolIs ==
  ASSUME PricingTypeOK, NEW o
  PROVE  /\ RewardPool(o) \in SUBSET UnitSpace /\ IsFiniteSet(RewardPool(o))
         /\ \A u \in RewardPool(o) : u[2] <= qty[u[1]]
  BY UnitsAre DEF RewardPool

LEMMA CheapestIs ==
  ASSUME PricingTypeOK, NEW pool \in SUBSET UnitSpace, NEW n \in Nat, n <= Cardinality(pool)
  PROVE  /\ Cheapest(pool, n) \in SUBSET pool /\ Cardinality(Cheapest(pool, n)) = n
         /\ \A u \in Cheapest(pool, n), x \in pool \ Cheapest(pool, n) :
              price[u[1]] <= price[x[1]]
  <1> DEFINE f == [u \in pool |-> price[u[1]]]
             Good(s) == \A u \in s, x \in pool \ s : price[u[1]] <= price[x[1]]
  <1>1. IsFiniteSet(pool)
    BY UnitSpaceFinite, FS_Subset
  <1>2. \A u \in pool : f[u] = price[u[1]] /\ f[u] \in Int
    <2> TAKE u \in pool
    <2>1. u[1] \in Line
      BY DEF UnitSpace
    <2>2. price[u[1]] \in Nat
      BY <2>1, LineIs
    <2>3. QED
      BY <2>2
  <1> HIDE DEF f
  <1>3. PICK s \in SUBSET pool : Cardinality(s) = n /\ \A u \in s, x \in pool \ s : f[u] <= f[x]
    BY <1>1, <1>2, LeastSome
  <1>4. s \in kSubset(n, pool) /\ Good(s)
    BY <1>2, <1>3 DEF kSubset
  <1>5. Cheapest(pool, n) = CHOOSE t \in kSubset(n, pool) : Good(t)
    BY DEF Cheapest
  <1> HIDE DEF Good
  <1>6. Cheapest(pool, n) \in kSubset(n, pool) /\ Good(Cheapest(pool, n))
    BY <1>4, <1>5
  <1>7. QED
    BY <1>6 DEF kSubset, Good

\* What an offer takes off a unit.
UnitValue(o) == [u \in UnitSpace |-> Percent(price[u[1]], o.percent)]

LEMMA UnitValueIs ==
  ASSUME PricingTypeOK, NEW o \in Offer, NEW u \in UnitSpace
  PROVE  /\ u[1] \in Line /\ price[u[1]] \in Nat
         /\ UnitValue(o)[u] = Percent(price[u[1]], o.percent)
         /\ UnitValue(o)[u] \in Nat /\ UnitValue(o)[u] <= price[u[1]]
  <1>1. u[1] \in Line /\ price[u[1]] \in Nat
    BY LineIs DEF UnitSpace
  <1>2. UnitValue(o)[u] = Percent(price[u[1]], o.percent)
    BY DEF UnitValue
  <1>3. QED
    BY <1>1, <1>2, OfferIs, PercentIs

LEMMA ValueIs ==
  ASSUME PricingTypeOK, NEW o \in Offer, NEW A \in SUBSET UnitSpace
  PROVE  Value(o, A) = SumFunctionOnSet(UnitValue(o), A) /\ Value(o, A) \in Int
  <1> DEFINE f == [u \in A |-> Percent(price[u[1]], o.percent)]
  <1>1. IsFiniteSet(A)
    BY UnitSpaceFinite, FS_Subset
  <1>2. \A u \in A : UnitValue(o)[u] \in Int /\ f[u] = UnitValue(o)[u]
    BY UnitValueIs
  <1>3. Value(o, A) = SumFunctionOnSet(f, A)
    BY DEF Value
  <1> HIDE DEF f
  <1>4. SumFunctionOnSet(f, A) = SumFunctionOnSet(UnitValue(o), A)
    BY <1>1, <1>2, SumSame
  <1>5. SumFunctionOnSet(UnitValue(o), A) \in Int
    BY <1>1, <1>2, SumInt
  <1>6. QED
    BY <1>3, <1>4, <1>5

-----------------------------------------------------------------------------
(* What an offer gives. *)

LEMMA EarnedIs ==
  ASSUME PricingTypeOK, NEW o \in Offer
  PROVE  LET group == IF IsWhole(RewardScope(o)) THEN o.buy + o.get ELSE o.buy
         IN  Earned(o) \in Nat /\ Earned(o) * group <= Cardinality(Units(EligibleScope(o)))
  <1> DEFINE group == IF IsWhole(RewardScope(o)) THEN o.buy + o.get ELSE o.buy
             units == Cardinality(Units(EligibleScope(o)))
             earned == units \div group
  <1>1. group \in Nat \ {0} /\ o.max \in Nat
    BY OfferIs
  <1>2. units \in Nat
    BY UnitsAre, FS_CardinalityType
  <1>3. Earned(o) = IF o.max = 0 THEN earned ELSE Min({earned, o.max})
    BY DEF Earned
  <1> HIDE DEF group, units
  <1>4. earned \in Nat /\ earned * group <= units
    BY <1>1, <1>2, QuotientIs
  <1> HIDE DEF earned
  <1>5. Earned(o) \in Nat /\ Earned(o) <= earned
    BY <1>1, <1>3, <1>4, MinOfTwo
  <1>6. Earned(o) * group <= earned * group /\ Earned(o) * group \in Nat /\ earned * group \in Nat
    BY <1>1, <1>4, <1>5, TimesGrows
  <1>7. Earned(o) * group <= units
    BY <1>2, <1>4, <1>6
  <1>8. QED
    BY <1>5, <1>7 DEF group, units

\* Nothing, or the cheapest n units of the pool.
LEMMA BogoIs ==
  ASSUME PricingTypeOK, NEW o \in Offer
  PROVE  \/ Bogo(o) = NoReward
         \/ \E n \in Nat :
              /\ n >= 1 /\ n <= Cardinality(RewardPool(o))
              /\ n = Min({Earned(o) * o.get, Cardinality(RewardPool(o))})
              /\ Bogo(o) = Reward(o, Cheapest(RewardPool(o), n))
  <1> DEFINE pool == RewardPool(o)
             n == Min({Earned(o) * o.get, Cardinality(pool)})
  <1>1. Bogo(o) = NoReward \/ (~(n < 1) /\ Bogo(o) = Reward(o, Cheapest(pool, n)))
    BY DEF Bogo
  <1>2. Earned(o) \in Nat /\ o.get \in Nat /\ Cardinality(pool) \in Nat
    BY EarnedIs, OfferIs, PoolIs, FS_CardinalityType
  <1>3. Earned(o) * o.get \in Nat
    BY <1>2
  <1> HIDE DEF pool
  <1>4. n \in Nat /\ n <= Cardinality(pool)
    BY <1>2, <1>3, MinOfTwo
  <1>5. QED
    BY <1>1, <1>4 DEF pool

-----------------------------------------------------------------------------
(* The types. *)

\* A cart, a price list and offers stay what they are, whatever is edited.
THEOREM PricingTypeCorrect == PricingSpec => []PricingTypeOK
  <1>1. PricingInit => PricingTypeOK
    <2> SUFFICES ASSUME PricingInit PROVE PricingTypeOK
      OBVIOUS
    <2>1. 0 \in 0 .. MaxQty
      BY LineAssumption
    <2>2. QED
      BY <2>1 DEF PricingInit, PricingTypeOK
  <1>2. PricingTypeOK /\ [PricingNext]_pricingVars => PricingTypeOK'
    <2> SUFFICES ASSUME PricingTypeOK, [PricingNext]_pricingVars PROVE PricingTypeOK'
      OBVIOUS
    <2>1. ASSUME NEW l \in Line, ChangeQuantity(l) PROVE PricingTypeOK'
      BY <2>1 DEF PricingTypeOK, ChangeQuantity
    <2>2. ASSUME NEW l \in Line, ChangePrice(l) PROVE PricingTypeOK'
      BY <2>2 DEF PricingTypeOK, ChangePrice
    <2>3. ASSUME NEW o \in Offer, ChangeOffer(o) PROVE PricingTypeOK'
      BY <2>3 DEF PricingTypeOK, ChangeOffer
    <2>4. ASSUME NEW c \in Coupon \cup {Nothing}, ChangeCoupon(c) PROVE PricingTypeOK'
      BY <2>4 DEF PricingTypeOK, ChangeCoupon
    <2>5. ASSUME NEW m \in Method \cup {Nothing}, NEW a \in Quote \cup {Nothing},
                 ChangeShipping(m, a)
          PROVE PricingTypeOK'
      BY <2>5 DEF PricingTypeOK, ChangeShipping
    <2>6. CASE UNCHANGED pricingVars
      BY <2>6 DEF PricingTypeOK, pricingVars
    <2>7. QED
      BY <2>1, <2>2, <2>3, <2>4, <2>5, <2>6 DEF PricingNext
  <1>3. QED
    BY <1>1, <1>2, PTL DEF PricingSpec

-----------------------------------------------------------------------------
(* The cheapest units. *)

\* Exchange: what the cheapest n units do not share with another n units is no
\* dearer than what those do not share with them.
LEMMA CheapestCosts ==
  ASSUME PricingTypeOK, NEW o \in Offer, NEW pool \in SUBSET UnitSpace,
         NEW n \in Nat, n <= Cardinality(pool), NEW s \in SUBSET pool, Cardinality(s) = n
  PROVE  Value(o, Cheapest(pool, n)) <= Value(o, s)
  <1> DEFINE C == Cheapest(pool, n)
             V(A) == SumFunctionOnSet(UnitValue(o), A)
  <1>1. C \in SUBSET pool /\ Cardinality(C) = n
        /\ \A u \in C, x \in pool \ C : price[u[1]] <= price[x[1]]
    BY CheapestIs
  <1> HIDE DEF C
  <1>2. IsFiniteSet(pool)
    BY UnitSpaceFinite, FS_Subset
  <1>3. IsFiniteSet(C) /\ IsFiniteSet(s)
    BY <1>1, <1>2, FS_Subset
  <1>4. IsFiniteSet(C \ s) /\ Cardinality(C \ s) = Cardinality(C) - Cardinality(C \cap s)
    BY <1>3, FS_Difference
  <1>5. IsFiniteSet(s \ C) /\ Cardinality(s \ C) = Cardinality(s) - Cardinality(s \cap C)
    BY <1>3, FS_Difference
  <1>6. s \cap C = C \cap s /\ IsFiniteSet(C \cap s)
    BY <1>3, FS_Intersection
  <1>7. Cardinality(C \ s) = Cardinality(s \ C)
    BY <1>1, <1>4, <1>5, <1>6
  <1>8. \A u \in UnitSpace : UnitValue(o)[u] \in Int
    BY UnitValueIs
  <1>9. ASSUME NEW a \in C \ s, NEW b \in s \ C PROVE UnitValue(o)[a] <= UnitValue(o)[b]
    <2>1. a \in UnitSpace /\ b \in UnitSpace /\ price[a[1]] <= price[b[1]]
      BY <1>1
    <2>2. price[a[1]] \in Nat /\ price[b[1]] \in Nat /\ o.percent \in Nat
      BY <2>1, UnitValueIs, OfferIs
    <2>3. Percent(price[a[1]], o.percent) <= Percent(price[b[1]], o.percent)
      BY <2>1, <2>2, PercentIs
    <2>4. QED
      BY <2>1, <2>3, UnitValueIs
  <1>10. \A u \in (C \ s) \cup (s \ C) : UnitValue(o)[u] \in Int
    BY <1>1, <1>8
  <1>11. V(C \ s) <= V(s \ C)
    BY <1>4, <1>5, <1>7, <1>9, <1>10, SumDominated
  <1>12. \A u \in (C \ s) \cup (C \cap s) : UnitValue(o)[u] \in Int
    BY <1>1, <1>8
  <1>13. \A u \in (s \ C) \cup (C \cap s) : UnitValue(o)[u] \in Int
    BY <1>1, <1>8
  <1>14. (C \ s) \cup (C \cap s) = C /\ (s \ C) \cup (C \cap s) = s
    OBVIOUS
  <1>15. V(C) = V(C \ s) + V(C \cap s)
    <2>1. V((C \ s) \cup (C \cap s)) = V(C \ s) + V(C \cap s)
      BY <1>4, <1>6, <1>12, SumUnion
    <2>2. QED
      BY <1>14, <2>1
  <1>16. V(s) = V(s \ C) + V(C \cap s)
    <2>1. V((s \ C) \cup (C \cap s)) = V(s \ C) + V(C \cap s)
      BY <1>5, <1>6, <1>13, SumUnion
    <2>2. QED
      BY <1>14, <2>1
  <1>17. V(C \ s) \in Int /\ V(s \ C) \in Int /\ V(C \cap s) \in Int
    BY <1>4, <1>5, <1>6, <1>12, <1>13, SumInt
  <1> HIDE DEF V
  <1>18. V(C) <= V(s)
    BY <1>11, <1>15, <1>16, <1>17
  <1>19. Value(o, C) = V(C) /\ Value(o, s) = V(s)
    BY <1>1, ValueIs DEF V
  <1>20. QED
    BY <1>18, <1>19 DEF C

LEMMA CheapestInAnyState == PricingTypeOK => RewardIsCheapest
  <1> SUFFICES ASSUME PricingTypeOK, NEW o \in active, Bogo(o).units > 0,
                      NEW s \in kSubset(Bogo(o).units, RewardPool(o))
               PROVE  Bogo(o).amount <= Value(o, s)
    BY DEF RewardIsCheapest
  <1>1. o \in Offer
    BY DEF PricingTypeOK
  <1>2. Bogo(o) # NoReward
    BY DEF NoReward
  <1>3. PICK n \in Nat : /\ n >= 1 /\ n <= Cardinality(RewardPool(o))
                         /\ Bogo(o) = Reward(o, Cheapest(RewardPool(o), n))
    BY <1>1, <1>2, BogoIs
  <1>4. RewardPool(o) \in SUBSET UnitSpace
    BY PoolIs
  <1>5. Cardinality(Cheapest(RewardPool(o), n)) = n
    BY <1>3, <1>4, CheapestIs
  <1>6. Bogo(o).units = n /\ Bogo(o).amount = Value(o, Cheapest(RewardPool(o), n))
    BY <1>3, <1>5 DEF Reward
  <1>7. s \in SUBSET RewardPool(o) /\ Cardinality(s) = n
    BY <1>6 DEF kSubset
  <1>8. QED
    BY <1>1, <1>3, <1>4, <1>6, <1>7, CheapestCosts

\* An offer never costs the shop more than it could: whatever the cart, the
\* prices and the rules, no other choice of that many units is worth less.
THEOREM RewardAlwaysCheapest == PricingSpec => []RewardIsCheapest
  BY PricingTypeCorrect, CheapestInAnyState, PTL

-----------------------------------------------------------------------------
(* The lines' shares. *)

\* No line is given more than its units cost.
LEMMA ShareBounded ==
  ASSUME PricingTypeOK, NEW o \in Offer, NEW given \in SUBSET UnitSpace,
         \A u \in given : u[2] <= qty[u[1]], NEW l \in Line
  PROVE  /\ Value(o, {u \in given : u[1] = l}) \in Int
         /\ Value(o, {u \in given : u[1] = l}) <= price[l] * qty[l]
  <1> DEFINE A == {u \in given : u[1] = l}
             f == [u \in A |-> u[2]]
  <1>1. A \in SUBSET UnitSpace /\ \A u \in A : u[1] = l /\ u[2] <= qty[l]
    OBVIOUS
  <1>2. qty[l] \in Nat /\ price[l] \in Nat
    BY LineIs
  <1>3. \A u \in A : u[2] \in Nat /\ u[2] >= 1 /\ u = <<l, u[2]>>
    <2> TAKE u \in A
    <2>1. PICK k \in Line, i \in 1 .. MaxQty : u = <<k, i>>
      BY <1>1 DEF UnitSpace
    <2>2. i \in Nat /\ i >= 1
      BY LineAssumption
    <2>3. QED
      BY <1>1, <2>1, <2>2
  <1> HIDE DEF A
  <1>4. \A u \in A : f[u] \in 1 .. qty[l]
    BY <1>1, <1>2, <1>3
  <1>5. \A u, v \in A : f[u] = f[v] => u = v
    BY <1>3
  <1>6. f \in Injection(A, 1 .. qty[l])
    BY <1>4, <1>5 DEF Injection, IsInjective
  <1> HIDE DEF f
  <1>7. IsFiniteSet(1 .. qty[l]) /\ Cardinality(1 .. qty[l]) = qty[l]
    <2>1. \A n \in Nat : IsFiniteSet(1 .. n) /\ Cardinality(1 .. n) = n
      <3> TAKE n \in Nat
      <3>1. 1 \in Int /\ n \in Int /\ (IF 1 > n THEN 0 ELSE n - 1 + 1) = n
        OBVIOUS
      <3>2. QED
        BY <3>1, FS_Interval
    <2>2. QED
      BY <1>2, <2>1
  <1>8. IsFiniteSet(A) /\ Cardinality(A) <= qty[l]
    BY <1>6, <1>7, FS_Injection
  <1>9. Cardinality(A) \in Nat
    BY <1>8, FS_CardinalityType
  <1>10. \A u \in A : UnitValue(o)[u] \in Int /\ UnitValue(o)[u] <= price[l]
    BY <1>1, UnitValueIs
  <1>11. SumFunctionOnSet(UnitValue(o), A) <= price[l] * Cardinality(A)
    <2>1. price[l] \in Int
      BY <1>2
    <2>2. QED
      BY <2>1, <1>8, <1>10, SumBounded
  <1>12. price[l] * Cardinality(A) <= price[l] * qty[l]
         /\ price[l] * Cardinality(A) \in Nat /\ price[l] * qty[l] \in Nat
    <2>1. \A a, b, c \in Nat : b <= c => a * b <= a * c /\ a * b \in Nat /\ a * c \in Nat
      OBVIOUS
    <2>2. QED
      BY <2>1, <1>2, <1>8, <1>9
  <1>13. Value(o, A) = SumFunctionOnSet(UnitValue(o), A) /\ Value(o, A) \in Int
    BY <1>1, ValueIs
  <1>14. Value(o, A) <= price[l] * qty[l]
    BY <1>11, <1>12, <1>13
  <1>15. QED
    BY <1>13, <1>14 DEF A

LEMMA SharesAddUp ==
  ASSUME PricingTypeOK, NEW o \in Offer, NEW given \in SUBSET UnitSpace
  PROVE  SumFunctionOnSet([l \in Line |-> Value(o, {u \in given : u[1] = l})], Line)
           = Value(o, given)
  <1> DEFINE key == [u \in UnitSpace |-> u[1]]
             f == UnitValue(o)
             F == [l \in Line |-> SumFunctionOnSet(f, {u \in given : key[u] = l})]
             G == [l \in Line |-> Value(o, {u \in given : u[1] = l})]
  <1>1. IsFiniteSet(given) /\ IsFiniteSet(Line)
    BY UnitSpaceFinite, FS_Subset, LineAssumption
  <1>2. \A u \in given : key[u] = u[1] /\ key[u] \in Line
    BY DEF UnitSpace
  <1>3. \A u \in given : f[u] \in Int
    BY UnitValueIs
  <1> HIDE DEF key, f
  <1>4. SumFunctionOnSet(F, Line) = SumFunctionOnSet(f, given)
    BY <1>1, <1>2, <1>3, SumByKey
  <1>5. ASSUME NEW l \in Line PROVE G[l] = F[l]
    <2>1. {u \in given : key[u] = l} = {u \in given : u[1] = l}
      BY <1>2
    <2>2. {u \in given : u[1] = l} \in SUBSET UnitSpace
      OBVIOUS
    <2>3. Value(o, {u \in given : u[1] = l}) = SumFunctionOnSet(f, {u \in given : u[1] = l})
      BY <2>2, ValueIs DEF f
    <2>4. QED
      BY <2>1, <2>3
  <1>6. F = G
    BY <1>5
  <1>7. Value(o, given) = SumFunctionOnSet(f, given)
    BY ValueIs DEF f
  <1> HIDE DEF F, G
  <1>8. SumFunctionOnSet(G, Line) = Value(o, given)
    BY <1>4, <1>6, <1>7
  <1>9. QED
    BY <1>8 DEF G

\* What an offer gives is units of its pool, none or the cheapest.
LEMMA Given ==
  ASSUME PricingTypeOK, NEW o \in Offer
  PROVE  /\ SumFunctionOnSet(Bogo(o).allocation, Line) = Bogo(o).amount
         /\ Bogo(o).amount \in Int
         /\ \A l \in Line : /\ Bogo(o).allocation[l] \in Int
                            /\ Bogo(o).allocation[l] <= price[l] * qty[l]
  <1>1. CASE Bogo(o) = NoReward
    <2>1. Bogo(o).amount = 0 /\ Bogo(o).allocation = [l \in Line |-> 0]
      BY <1>1 DEF NoReward
    <2>2. SumFunctionOnSet([l \in Line |-> 0], Line) = 0
      BY LineAssumption, SumZero
    <2>3. ASSUME NEW l \in Line PROVE 0 <= price[l] * qty[l]
      BY LineIs
    <2>4. QED
      BY <2>1, <2>2, <2>3
  <1>2. CASE Bogo(o) # NoReward
    <2>1. PICK n \in Nat : /\ n <= Cardinality(RewardPool(o))
                           /\ Bogo(o) = Reward(o, Cheapest(RewardPool(o), n))
      BY <1>2, BogoIs
    <2> DEFINE given == Cheapest(RewardPool(o), n)
    <2>2. RewardPool(o) \in SUBSET UnitSpace
      BY PoolIs
    <2>3. given \in SUBSET RewardPool(o)
      BY <2>1, <2>2, CheapestIs
    <2>4. given \in SUBSET UnitSpace /\ \A u \in given : u[2] <= qty[u[1]]
      BY <2>3, PoolIs
    <2> HIDE DEF given
    <2>5. Bogo(o) = Reward(o, given)
      BY <2>1 DEF given
    <2>6. /\ Bogo(o).amount = Value(o, given)
          /\ Bogo(o).allocation = [l \in Line |-> Value(o, {u \in given : u[1] = l})]
      BY <2>5 DEF Reward
    <2>7. SumFunctionOnSet(Bogo(o).allocation, Line) = Bogo(o).amount
      BY <2>4, <2>6, SharesAddUp
    <2>8. Bogo(o).amount \in Int
      BY <2>4, <2>6, ValueIs
    <2>9. ASSUME NEW l \in Line
          PROVE  Bogo(o).allocation[l] \in Int /\ Bogo(o).allocation[l] <= price[l] * qty[l]
      <3>1. Bogo(o).allocation[l] = Value(o, {u \in given : u[1] = l})
        BY <2>6
      <3>2. QED
        BY <2>4, <3>1, ShareBounded
    <2>10. QED
      BY <2>7, <2>8, <2>9
  <1>3. QED
    BY <1>1, <1>2

LEMMA SharesInAnyState == PricingTypeOK => AllocationsAddUp
  <1> SUFFICES ASSUME PricingTypeOK, NEW o \in active
               PROVE  /\ SumFunctionOnSet(Bogo(o).allocation, Line) = Bogo(o).amount
                      /\ \A l \in Line : Bogo(o).allocation[l] <= price[l] * qty[l]
    BY DEF AllocationsAddUp
  <1>1. o \in Offer
    BY DEF PricingTypeOK
  <1>2. QED
    BY <1>1, Given

\* To the cent, for every offer and cart: the lines' shares are the discount,
\* and no line is given more than it costs.
THEOREM AllocationsAlwaysAddUp == PricingSpec => []AllocationsAddUp
  BY PricingTypeCorrect, SharesInAnyState, PTL

-----------------------------------------------------------------------------
(* Paid before free. *)

LEMMA GroupsAre ==
  ASSUME NEW k \in Nat, NEW g \in Nat \ {0}, NEW e \in Nat, k <= e * g
  PROVE  (k + g - 1) \div g \in Nat /\ (k + g - 1) \div g <= e
  <1> DEFINE q == (k + g - 1) \div g
  <1>1. k + g - 1 \in Nat
    OBVIOUS
  <1>2. q \in Nat /\ q * g <= k + g - 1
    BY <1>1, QuotientIs
  <1>3. e * g \in Nat /\ (e + 1) * g = e * g + g
    OBVIOUS
  <1> HIDE DEF q
  <1>4. ASSUME ~(q <= e) PROVE FALSE
    <2>1. e + 1 <= q /\ e + 1 \in Nat
      BY <1>2, <1>4
    <2>2. (e + 1) * g <= q * g /\ q * g \in Nat
      BY <1>2, <2>1, TimesGrows
    <2>3. QED
      BY <1>2, <1>3, <2>2
  <1>5. QED
    BY <1>2, <1>4 DEF q

\* With one pool the free units and the units that earn them come from the same
\* ones, and the groups are counted over both.
LEMMA PaidInAnyState == PricingTypeOK => PaidBeforeFree
  <1> SUFFICES ASSUME PricingTypeOK, NEW o \in active, IsWhole(RewardScope(o)), o.get > 0
               PROVE  Bought(o) >= o.buy * Groups(o)
    BY DEF PaidBeforeFree
  <1> DEFINE E == Units(EligibleScope(o))
             k == Bogo(o).units
             C == Cheapest(RewardPool(o), k)
             M == {u \in C : Matches(EligibleScope(o), u[1])}
             e == Earned(o)
  <1>1. o \in Offer /\ o.buy \in Nat /\ o.get \in Nat \ {0}
    BY OfferIs DEF PricingTypeOK
  <1>2. RewardPool(o) = E
    BY DEF RewardPool
  <1>3. E \in SUBSET UnitSpace /\ IsFiniteSet(E) /\ Cardinality(E) \in Nat
    BY UnitsAre, FS_CardinalityType
  <1>4. e \in Nat /\ e * (o.buy + o.get) <= Cardinality(E)
    BY <1>1, EarnedIs
  <1>5. e * (o.buy + o.get) = e * o.buy + e * o.get /\ e * o.buy \in Nat /\ e * o.get \in Nat
    BY <1>1, <1>4
  <1>6. k \in Nat /\ k <= e * o.get /\ k <= Cardinality(E)
    <2>1. CASE Bogo(o) = NoReward
      <3>1. k = 0
        BY <2>1 DEF NoReward
      <3>2. QED
        BY <3>1, <1>3, <1>5
    <2>2. CASE Bogo(o) # NoReward
      <3>1. PICK n \in Nat : /\ n <= Cardinality(E)
                             /\ n = Min({e * o.get, Cardinality(E)})
                             /\ Bogo(o) = Reward(o, Cheapest(E, n))
        BY <1>1, <1>2, <2>2, BogoIs
      <3>2. Cardinality(Cheapest(E, n)) = n
        BY <1>3, <3>1, CheapestIs
      <3>3. k = n
        BY <3>1, <3>2 DEF Reward
      <3>4. n <= e * o.get
        BY <1>3, <1>5, <3>1, MinOfTwo
      <3>5. QED
        BY <3>1, <3>3, <3>4
    <2>3. QED
      BY <2>1, <2>2
  <1>7. Cardinality(M) \in Nat /\ Cardinality(M) <= k
    <2> HIDE DEF k
    <2>1. C \in SUBSET E /\ Cardinality(C) = k
      BY <1>2, <1>3, <1>6, CheapestIs
    <2>2. IsFiniteSet(C)
      BY <1>3, <2>1, FS_Subset
    <2> HIDE DEF C
    <2>3. M \in SUBSET C
      OBVIOUS
    <2> HIDE DEF M
    <2>4. IsFiniteSet(M) /\ Cardinality(M) <= Cardinality(C)
      BY <2>2, <2>3, FS_Subset
    <2>5. QED
      BY <2>1, <2>4, FS_CardinalityType
  <1>8. Bought(o) = Cardinality(E) - Cardinality(M)
    BY DEF Bought
  <1>9. Groups(o) = (k + o.get - 1) \div o.get
    BY DEF Groups
  <1> HIDE DEF E, k, C, M, e
  <1>10. Groups(o) \in Nat /\ Groups(o) <= e
    BY <1>1, <1>4, <1>6, <1>9, GroupsAre
  <1>11. Groups(o) * o.buy <= e * o.buy /\ Groups(o) * o.buy \in Nat
    BY <1>1, <1>4, <1>10, TimesGrows
  <1>12. o.buy * Groups(o) = Groups(o) * o.buy
    BY <1>1, <1>10
  <1>13. QED
    BY <1>3, <1>4, <1>5, <1>6, <1>7, <1>8, <1>11, <1>12

\* For every offer with one pool: whatever is free, the customer pays for the
\* units that earn it.
THEOREM AlwaysPaidForFirst == PricingSpec => []PaidBeforeFree
  BY PricingTypeCorrect, PaidInAnyState, PTL

\* Nor is a unit that is given away one of those that earn it if the offer's two
\* pools have no line in common.
LEMMA PaidWithTwoPools ==
  ASSUME PricingTypeOK, NEW o \in active, o.get > 0, ~IsWhole(RewardScope(o)),
         \A l \in Line : ~(Matches(EligibleScope(o), l) /\ Matches(RewardScope(o), l))
  PROVE  Bought(o) >= o.buy * Groups(o)
  <1> DEFINE E == Units(EligibleScope(o))
             k == Bogo(o).units
             C == Cheapest(RewardPool(o), k)
             M == {u \in C : Matches(EligibleScope(o), u[1])}
             e == Earned(o)
  <1>1. o \in Offer /\ o.buy \in Nat /\ o.get \in Nat \ {0}
    BY OfferIs DEF PricingTypeOK
  <1>2. RewardPool(o) = Units(RewardScope(o))
    BY DEF RewardPool
  <1>3. IsFiniteSet(E) /\ Cardinality(E) \in Nat
    BY UnitsAre, FS_CardinalityType
  <1>4. RewardPool(o) \in SUBSET UnitSpace /\ IsFiniteSet(RewardPool(o))
        /\ Cardinality(RewardPool(o)) \in Nat
    BY PoolIs, FS_CardinalityType
  <1>5. e \in Nat /\ e * o.buy <= Cardinality(E)
    BY <1>1, EarnedIs
  <1>6. e * o.get \in Nat /\ e * o.buy \in Nat
    BY <1>1, <1>5
  <1>7. k \in Nat /\ k <= e * o.get /\ k <= Cardinality(RewardPool(o))
    <2>1. CASE Bogo(o) = NoReward
      <3>1. k = 0
        BY <2>1 DEF NoReward
      <3>2. QED
        BY <3>1, <1>4, <1>6
    <2>2. CASE Bogo(o) # NoReward
      <3>1. PICK n \in Nat : /\ n <= Cardinality(RewardPool(o))
                             /\ n = Min({e * o.get, Cardinality(RewardPool(o))})
                             /\ Bogo(o) = Reward(o, Cheapest(RewardPool(o), n))
        BY <1>1, <2>2, BogoIs
      <3>2. Cardinality(Cheapest(RewardPool(o), n)) = n
        BY <1>4, <3>1, CheapestIs
      <3>3. k = n
        BY <3>1, <3>2 DEF Reward
      <3>4. n <= e * o.get
        BY <1>4, <1>6, <3>1, MinOfTwo
      <3>5. QED
        BY <3>1, <3>3, <3>4
    <2>3. QED
      BY <2>1, <2>2
  <1>8. M = {}
    <2> HIDE DEF k
    <2>1. C \in SUBSET RewardPool(o)
      BY <1>4, <1>7, CheapestIs
    <2>2. \A u \in RewardPool(o) : u[1] \in Line /\ Matches(RewardScope(o), u[1])
      BY <1>2 DEF Units
    <2> HIDE DEF C
    <2>3. QED
      BY <2>1, <2>2
  <1>9. Bought(o) = Cardinality(E) - Cardinality(M)
    BY DEF Bought
  <1>10. Groups(o) = (k + o.get - 1) \div o.get
    BY DEF Groups
  <1> HIDE DEF E, k, C, M, e
  <1>11. Cardinality(M) = 0
    BY <1>8, FS_EmptySet
  <1>12. Groups(o) \in Nat /\ Groups(o) <= e
    BY <1>1, <1>5, <1>7, <1>10, GroupsAre
  <1>13. Groups(o) * o.buy <= e * o.buy /\ Groups(o) * o.buy \in Nat
    BY <1>1, <1>5, <1>12, TimesGrows
  <1>14. o.buy * Groups(o) = Groups(o) * o.buy
    BY <1>1, <1>12
  <1>15. QED
    BY <1>3, <1>5, <1>6, <1>9, <1>11, <1>13, <1>14

\* What models.py says of every offer holds in every shop in which no line is in
\* both pools of an offer; where one is, it may fail (AlwaysPaidBeforeFree).
THEOREM PaidForUnlessPoolsOverlap ==
  ASSUME \A o \in Offer, l \in Line :
           Matches(EligibleScope(o), l) /\ Matches(RewardScope(o), l) => IsWhole(RewardScope(o))
  PROVE  PricingSpec => []AlwaysPaidBeforeFree
  <1>1. PricingTypeOK => AlwaysPaidBeforeFree
    <2> SUFFICES ASSUME PricingTypeOK, NEW o \in active, o.get > 0
                 PROVE  Bought(o) >= o.buy * Groups(o)
      BY DEF AlwaysPaidBeforeFree
    <2>1. CASE IsWhole(RewardScope(o))
      BY <2>1, PaidInAnyState DEF PaidBeforeFree
    <2>2. CASE ~IsWhole(RewardScope(o))
      <3>1. o \in Offer
        BY DEF PricingTypeOK
      <3>2. \A l \in Line : ~(Matches(EligibleScope(o), l) /\ Matches(RewardScope(o), l))
        BY <2>2, <3>1
      <3>3. QED
        BY <2>2, <3>2, PaidWithTwoPools
    <2>3. QED
      BY <2>1, <2>2
  <1>2. QED
    BY <1>1, PricingTypeCorrect, PTL

-----------------------------------------------------------------------------
(* The offer a cart names. *)

LEMMA SubtotalIs ==
  ASSUME PricingTypeOK
  PROVE  /\ Subtotal \in Int /\ 0 <= Subtotal
         /\ \A o \in Offer : Bogo(o).amount \in Int /\ Bogo(o).amount <= Subtotal
  <1> DEFINE cost == [l \in Line |-> price[l] * qty[l]]
             zero == [l \in Line |-> 0]
  <1>1. \A l \in Line : cost[l] \in Int /\ cost[l] >= 0 /\ cost[l] = price[l] * qty[l]
    BY LineIs
  <1>2. Subtotal = SumFunctionOnSet(cost, Line)
    BY DEF Subtotal
  <1>3. \A l \in Line : zero[l] = 0
    OBVIOUS
  <1> HIDE DEF cost, zero
  <1>4. IsFiniteSet(Line)
    BY LineAssumption
  <1>5. Subtotal \in Int
    BY <1>1, <1>2, <1>4, SumInt
  <1>6. 0 <= Subtotal
    <2>1. SumFunctionOnSet(zero, Line) = 0
      BY <1>3, <1>4, SumZero
    <2>2. \A l \in Line : zero[l] \in Int /\ cost[l] \in Int /\ zero[l] <= cost[l]
      BY <1>1, <1>3
    <2>3. SumFunctionOnSet(zero, Line) <= SumFunctionOnSet(cost, Line)
      BY <1>4, <2>2, SumMonotone
    <2>4. QED
      BY <1>2, <2>1, <2>3
  <1>7. ASSUME NEW o \in Offer PROVE Bogo(o).amount \in Int /\ Bogo(o).amount <= Subtotal
    <2> DEFINE share == Bogo(o).allocation
    <2>1. Bogo(o).amount \in Int /\ SumFunctionOnSet(share, Line) = Bogo(o).amount
      BY Given
    <2>2. \A l \in Line : share[l] \in Int /\ cost[l] \in Int /\ share[l] <= cost[l]
      BY <1>1, Given
    <2> HIDE DEF share
    <2>3. SumFunctionOnSet(share, Line) <= SumFunctionOnSet(cost, Line)
      BY <1>4, <2>2, SumMonotone
    <2>4. QED
      BY <1>2, <2>1, <2>3
  <1>8. QED
    BY <1>5, <1>6, <1>7

LEMMA BogoDiscountIs ==
  ASSUME PricingTypeOK
  PROVE  BogoDiscount \in Int /\ BogoDiscount <= Subtotal
  <1>1. BestOffer = Nothing \/ BestOffer \in Offer
    <2> DEFINE best == {o \in Offer : Worth[o] > 0 /\ \A x \in Offer : Worth[o] >= Worth[x]}
    <2>1. BestOffer = IF best = {} THEN Nothing ELSE CHOOSE o \in best : TRUE
      BY DEF BestOffer
    <2>2. best \subseteq Offer
      OBVIOUS
    <2> HIDE DEF best
    <2>3. best # {} => (CHOOSE o \in best : TRUE) \in best
      OBVIOUS
    <2>4. QED
      BY <2>1, <2>2, <2>3
  <1>2. BogoDiscount = IF BestOffer = Nothing THEN 0 ELSE Bogo(BestOffer).amount
    BY DEF BogoDiscount
  <1>3. QED
    BY <1>1, <1>2, SubtotalIs

LEMMA CouponDiscountIs ==
  ASSUME PricingTypeOK
  PROVE  CouponDiscount \in Int
  <1>1. CASE coupon = Nothing
    BY <1>1 DEF CouponDiscount
  <1>2. CASE coupon # Nothing
    <2>1. coupon \in Coupon
      BY <1>2 DEF PricingTypeOK
    <2>2. CASE coupon.type = "bogo"
      BY <1>2, <2>2 DEF CouponDiscount
    <2>3. CASE coupon.type = "flat"
      <3>1. CouponDiscount = Min({coupon.value, Subtotal})
        BY <1>2, <2>3 DEF CouponDiscount
      <3>2. coupon.value \in Int
        BY <2>1, <2>3, NumbersAssumption
      <3>3. QED
        BY <3>1, <3>2, SubtotalIs, MinOfTwo
    <2>4. CASE coupon.type = "percent"
      <3>1. CouponDiscount = Percent(Subtotal, coupon.value)
        BY <1>2, <2>4 DEF CouponDiscount
      <3>2. coupon.value \in Int
        BY <2>1, <2>4, NumbersAssumption
      <3>3. QED
        BY <3>1, <3>2, SubtotalIs, PercentInt
    <2>5. QED
      BY <2>1, <2>2, <2>3, <2>4, NumbersAssumption
  <1>3. QED
    BY <1>1, <1>2

\* An offer that wins alone is worth no more than the cart, so that the cap
\* does not cut it.
LEMMA ExplainedInAnyState == PricingTypeOK => ShownOfferExplains
  <1> SUFFICES ASSUME PricingTypeOK PROVE ShownOfferExplains
    OBVIOUS
  <1> DEFINE shown == IF ShownOffer = Nothing THEN 0 ELSE Bogo(ShownOffer).amount
             c == CouponDiscount
             b == BogoDiscount
  <1>1. b = IF BestOffer = Nothing THEN 0 ELSE Bogo(BestOffer).amount
    BY DEF BogoDiscount
  <1>2. Discount = Min({Subtotal, IF Stack THEN c + b ELSE Max({c, b})})
    BY DEF Discount
  <1>3. ShownOffer = IF ~Stack /\ b < c THEN Nothing ELSE BestOffer
    BY DEF ShownOffer
  <1>4. SUFFICES Discount \in {shown, Min({Subtotal, c + shown})}
    BY DEF ShownOfferExplains
  <1>5. c \in Int /\ b \in Int /\ b <= Subtotal /\ Subtotal \in Int
    BY CouponDiscountIs, BogoDiscountIs, SubtotalIs
  <1>6. shown = IF ~Stack /\ b < c THEN 0 ELSE b
    BY <1>1, <1>3
  <1> HIDE DEF shown, c, b
  <1>7. CASE Stack
    BY <1>2, <1>6, <1>7
  <1>8. CASE ~Stack /\ b < c
    <2>1. Max({c, b}) = c /\ shown = 0 /\ c + shown = c
      BY <1>5, <1>6, <1>8, MaxOfTwo
    <2>2. QED
      BY <1>2, <1>8, <2>1
  <1>9. CASE ~Stack /\ ~(b < c)
    <2>1. Max({c, b}) = b /\ shown = b
      BY <1>5, <1>6, <1>9, MaxOfTwo
    <2>2. Min({Subtotal, b}) = b
      BY <1>5, MinOfTwo
    <2>3. QED
      BY <1>2, <1>9, <2>1, <2>2
  <1>10. QED
    BY <1>7, <1>8, <1>9

\* Whatever coupon and offers a cart has: the ones it names account for what it
\* is given, and an offer that lost to the coupon is not named.
THEOREM ShownOfferAlwaysExplains == PricingSpec => []ShownOfferExplains
  BY PricingTypeCorrect, ExplainedInAnyState, PTL

-----------------------------------------------------------------------------
(* The bounds of a discount. *)

LEMMA CouponGivesNothingBack ==
  ASSUME PricingTypeOK, \A c \in Coupon : c.type # "bogo" => c.value >= 0
  PROVE  CouponDiscount >= 0
  <1>1. CASE coupon = Nothing
    BY <1>1 DEF CouponDiscount
  <1>2. CASE coupon # Nothing
    <2>1. coupon \in Coupon
      BY <1>2 DEF PricingTypeOK
    <2>2. CASE coupon.type = "bogo"
      BY <1>2, <2>2 DEF CouponDiscount
    <2>3. CASE coupon.type = "flat"
      <3>1. CouponDiscount = Min({coupon.value, Subtotal})
        BY <1>2, <2>3 DEF CouponDiscount
      <3>2. coupon.value \in Int /\ coupon.value >= 0
        BY <2>1, <2>3, NumbersAssumption
      <3>3. QED
        BY <3>1, <3>2, SubtotalIs, MinOfTwo
    <2>4. CASE coupon.type = "percent"
      <3>1. CouponDiscount = Percent(Subtotal, coupon.value)
        BY <1>2, <2>4 DEF CouponDiscount
      <3>2. coupon.value \in Int /\ coupon.value >= 0
        BY <2>1, <2>4, NumbersAssumption
      <3>3. coupon.value \in Nat /\ Subtotal \in Nat
        BY <3>2, SubtotalIs
      <3>4. Percent(Subtotal, coupon.value) \in Nat
        BY <3>3, PercentIs
      <3>5. QED
        BY <3>1, <3>4
    <2>5. QED
      BY <2>1, <2>2, <2>3, <2>4, NumbersAssumption
  <1>3. QED
    BY <1>1, <1>2

\* The offer that is taken is worth something.
LEMMA BogoGivesNothingBack ==
  ASSUME PricingTypeOK
  PROVE  BogoDiscount >= 0
  <1> DEFINE best == {o \in Offer : Worth[o] > 0 /\ \A x \in Offer : Worth[o] >= Worth[x]}
  <1>1. BogoDiscount = IF BestOffer = Nothing THEN 0 ELSE Bogo(BestOffer).amount
    BY DEF BogoDiscount
  <1>2. BestOffer = IF best = {} THEN Nothing ELSE CHOOSE o \in best : TRUE
    BY DEF BestOffer
  <1>3. \A o \in best : Bogo(o).amount > 0
    <2> SUFFICES ASSUME NEW o \in Offer, Worth[o] > 0 PROVE Bogo(o).amount > 0
      OBVIOUS
    <2>1. Worth[o] = IF Eligible(o) THEN Bogo(o).amount ELSE 0
      BY DEF Worth
    <2>2. QED
      BY <2>1
  <1>4. \A o \in best : Bogo(o).amount \in Int
    BY SubtotalIs
  <1> HIDE DEF best
  <1>5. CASE best = {}
    BY <1>1, <1>2, <1>5
  <1>6. CASE best # {}
    <2>1. BestOffer \in best
      BY <1>2, <1>6
    <2>2. QED
      BY <1>1, <1>3, <1>4, <2>1
  <1>7. QED
    BY <1>5, <1>6

\* If no coupon has a negative amount, which Discount.clean accepts, the customer
\* never pays more with the discount than without, and never less than nothing
\* for the goods (calculate_cart_totals).
THEOREM DiscountStaysInBounds ==
  ASSUME \A c \in Coupon : c.type # "bogo" => c.value >= 0
  PROVE  PricingSpec => [](0 <= Discount /\ Discount <= Subtotal)
  <1>1. PricingTypeOK => 0 <= Discount /\ Discount <= Subtotal
    <2> SUFFICES ASSUME PricingTypeOK PROVE 0 <= Discount /\ Discount <= Subtotal
      OBVIOUS
    <2> DEFINE c == CouponDiscount
               b == BogoDiscount
               x == IF Stack THEN c + b ELSE Max({c, b})
    <2>1. Discount = Min({Subtotal, x})
      BY DEF Discount
    <2>2. c \in Int /\ b \in Int /\ c >= 0 /\ b >= 0
      BY CouponDiscountIs, BogoDiscountIs, CouponGivesNothingBack, BogoGivesNothingBack
    <2>3. Subtotal \in Int /\ 0 <= Subtotal
      BY SubtotalIs
    <2> HIDE DEF c, b
    <2>4. x \in Int /\ x >= 0
      BY <2>2, MaxOfTwo
    <2> HIDE DEF x
    <2>5. QED
      BY <2>1, <2>3, <2>4, MinOfTwo
  <1>2. QED
    BY <1>1, PricingTypeCorrect, PTL
===============================================================================
