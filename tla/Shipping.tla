------------------------------ MODULE Shipping ------------------------------
(***************************************************************************)
(* UPS: apps/shipping/services (ups_client.py, ups_service.py), the cart   *)
(* totals and views that call them, and the cache they share.  Workers     *)
(* keep one OAuth token and one charge per parcel in the cache; UPS may    *)
(* fail, be slow, refuse or revoke a token, and the cache may lose a key.  *)
(*                                                                         *)
(* Time runs down in the rows: a token at UPS, and its copy.  A call is    *)
(* answered or given up within Timeout, which is the unit other spans are  *)
(* multiples of: 30 s against 300 s of skew.  A charge is the parcel UPS   *)
(* quoted it for, never an amount; the cache may lose one at any time, be  *)
(* it for UPS_RATE_CACHE_SECONDS or for want of memory.                    *)
(***************************************************************************)
EXTENDS Integers

CONSTANTS
  Parcel,    \* records [service, address, weight] that carts ask about
  Area,      \* country and postal code of an address
  Token,     \* access tokens; one that nobody holds any more stands for a new one
  Web,       \* sessions of the web workers, and the ups_check command
  None,      \* no parcel, no token
  Spans,     \* expires_in of the tokens UPS issues
  Skew,      \* TOKEN_EXPIRY_SKEW_SECONDS
  Floor,     \* the least time a copy is kept: 60 s
  Timeout    \* REQUEST_TIMEOUT

ASSUME NoneAssumption == None \notin Parcel \cup Token
ASSUME NumberAssumption ==
  /\ Spans \subseteq Nat /\ Skew \in Nat /\ Floor \in Nat \ {0}
  /\ Timeout \in Nat \ {0}
ASSUME SkewAssumption == 2 * Timeout <= Skew

VARIABLES
  life,        \* tokens at UPS: expires_in, time left, revoked
  copy,        \* the cached token and the time left to it
  rate,        \* cached charges by key: the parcels they were quoted for
  shaken,      \* history: sessions in whose request UPS revoked a token
  job          \* what each session is in the middle of

vars == <<life, copy, rate, shaken, job>>

-----------------------------------------------------------------------------

NoLife == [span |-> 0, left |-> 0, revoked |-> FALSE]
NoCopy == [token |-> None, left |-> 0]
Idle == [step |-> "idle", goal |-> "none", parcel |-> None, attempt |-> 1,
         token |-> None, charge |-> None, why |-> "none", wait |-> 0]

Larger(m, n) == IF m > n THEN m ELSE n
Less(n) == IF n = 0 THEN 0 ELSE n - 1

\* Faulty variant: the weight is left out of the key.
RateKey_NoWeight(p) == <<p.service, Area[p.address], 0>>

\* The rest of the address is left out of the key.
RateKey(p) == <<p.service, Area[p.address], p.weight>>

Keys == {RateKey(p) : p \in Parcel}

Honoured(t) == life[t].left > 0

Held(t) == copy.token = t \/ \E w \in Web : job[w].token = t

Busy(w) == job[w].step \notin {"idle", "done"}

\* Each step starts a wait of its own.
Go(w, j) == job' = [job EXCEPT ![w] = [j EXCEPT !.wait = 0]]

Begin(w, j) == job[w] = Idle /\ Go(w, j)

\* UPSError: a total falls back to base_rate, any other request answers 502.
Fail(w, why) ==
  Go(w, [job[w] EXCEPT !.step = "done", !.why = why,
                       !.token = IF why = "refused" THEN @ ELSE None])

-----------------------------------------------------------------------------
(* Requests that need UPS.                                                 *)

\* resolve_shipping_amount for a cart that is below the free threshold of a UPS
\* method and goes to a country UPS rates; get_rate_for_service looks first.
Total(w, p) ==
  /\ LET hit == rate[RateKey(p)]
         j == [Idle EXCEPT !.goal = "total", !.parcel = p]
     IN  Begin(w, IF hit # None THEN [j EXCEPT !.step = "done", !.charge = hit]
                               ELSE [j EXCEPT !.step = "token"])
  /\ UNCHANGED <<life, copy, rate, shaken>>

\* A request that neither looks for a charge nor keeps one, and has no base_rate
\* to fall back to: it shows what UPS answers, or 502.
Ask(w) == Begin(w, [Idle EXCEPT !.step = "token", !.goal = "ask"])

\* One "Shop" call prices every method for a parcel, past the charges kept: the
\* total that follows may be another.
QuoteCart(w) ==
  /\ \E p \in Parcel : p.weight > 0
  /\ Ask(w)
  /\ UNCHANGED <<life, copy, rate, shaken>>

\* The UPS endpoints: rates, tracking, addresses.
AskRates(w) == Ask(w) /\ UNCHANGED <<life, copy, rate, shaken>>
TrackShipment(w) == Ask(w) /\ UNCHANGED <<life, copy, rate, shaken>>
ValidateAddress(w) == Ask(w) /\ UNCHANGED <<life, copy, rate, shaken>>

\* ups_check forces a token before it asks.
Check(w) ==
  /\ Begin(w, [Idle EXCEPT !.step = "fetch", !.goal = "ask", !.attempt = 0])
  /\ UNCHANGED <<life, copy, rate, shaken>>

-----------------------------------------------------------------------------
(* get_access_token.                                                       *)

\* Faulty variant: the second attempt looks into the cache as well.
GetToken_Unforced(w) ==
  /\ job[w].step = "token"
  /\ IF copy.left > 0 THEN Go(w, [job[w] EXCEPT !.step = "call", !.token = copy.token])
     ELSE Go(w, [job[w] EXCEPT !.step = "fetch"])
  /\ UNCHANGED <<life, copy, rate, shaken>>

\* The copy serves a first attempt only.
GetToken(w) ==
  /\ job[w].step = "token"
  /\ IF job[w].attempt = 1 /\ copy.left > 0
     THEN Go(w, [job[w] EXCEPT !.step = "call", !.token = copy.token])
     ELSE Go(w, [job[w] EXCEPT !.step = "fetch"])
  /\ UNCHANGED <<life, copy, rate, shaken>>

\* UPS issues a token, or not, or there are no credentials to ask with; an answer
\* that is no JSON, or has no number in expires_in, raises an exception that
\* nobody turns into a UPSError.
Fetch(w) ==
  /\ job[w].step = "fetch"
  /\ \/ \E t \in Token, s \in Spans :
          /\ ~Held(t)
          /\ life' = [life EXCEPT ![t] = [span |-> s, left |-> s, revoked |-> FALSE]]
          /\ Go(w, [job[w] EXCEPT !.step = "store", !.token = t])
     \/ \E why \in {"failed", "broken"} :
          Fail(w, why) /\ UNCHANGED life
  /\ UNCHANGED <<copy, rate, shaken>>

\* Faulty variant: no floor under the time a copy is kept.
Store_NoFloor(w) ==
  /\ job[w].step = "store"
  /\ copy' = [token |-> job[w].token, left |-> life[job[w].token].span - Skew]
  /\ IF job[w].attempt = 0
     THEN Go(w, [job[w] EXCEPT !.step = "token", !.attempt = 1, !.token = None])
     ELSE Go(w, [job[w] EXCEPT !.step = "call"])
  /\ UNCHANGED <<life, rate, shaken>>

\* Faulty variant: the copy is kept as long as UPS said.
Store_NoSkew(w) ==
  /\ job[w].step = "store"
  /\ copy' = [token |-> job[w].token, left |-> life[job[w].token].span]
  /\ IF job[w].attempt = 0
     THEN Go(w, [job[w] EXCEPT !.step = "token", !.attempt = 1, !.token = None])
     ELSE Go(w, [job[w] EXCEPT !.step = "call"])
  /\ UNCHANGED <<life, rate, shaken>>

\* The copy expires ahead of the token, over whatever copy is there by now.
Store(w) ==
  /\ job[w].step = "store"
  /\ copy' = [token |-> job[w].token, left |-> Larger(life[job[w].token].span - Skew, Floor)]
  /\ IF job[w].attempt = 0
     THEN Go(w, [job[w] EXCEPT !.step = "token", !.attempt = 1, !.token = None])
     ELSE Go(w, [job[w] EXCEPT !.step = "call"])
  /\ UNCHANGED <<life, rate, shaken>>

-----------------------------------------------------------------------------
(* ups_request and what is done with its answer.                           *)

\* UPS answers, fails, sends JSON nobody expects, or answers 401: for a token that
\* it does not honour any more, and for one that it does, if the account may not
\* use the endpoint (test_persistent_401_raises_rather_than_looping, ups_check).
Call(w) ==
  /\ job[w].step = "call"
  /\ \/ /\ Honoured(job[w].token)
        /\ IF job[w].goal = "total"
           THEN Go(w, [job[w] EXCEPT !.step = "keep", !.token = None, !.charge = job[w].parcel])
           ELSE Go(w, [job[w] EXCEPT !.step = "done", !.token = None])
     \/ \E why \in {"failed", "broken"} : Fail(w, why)
     \/ IF job[w].attempt = 1 THEN Go(w, [job[w] EXCEPT !.step = "drop"])
        ELSE Fail(w, IF Honoured(job[w].token) THEN "denied" ELSE "refused")
  /\ UNCHANGED <<life, copy, rate, shaken>>

\* cache.delete takes whatever copy is there by now, and a second attempt follows.
Drop(w) ==
  /\ job[w].step = "drop"
  /\ copy' = NoCopy
  /\ Go(w, [job[w] EXCEPT !.step = "token", !.attempt = 2, !.token = None])
  /\ UNCHANGED <<life, rate, shaken>>

\* get_rate_for_service keeps the charge; UPS may have none for the service.
Keep(w) ==
  /\ job[w].step = "keep"
  /\ \/ /\ rate' = [rate EXCEPT ![RateKey(job[w].parcel)] = job[w].charge]
        /\ Go(w, [job[w] EXCEPT !.step = "done"])
     \/ /\ Go(w, [job[w] EXCEPT !.step = "done", !.why = "failed", !.charge = None])
        /\ UNCHANGED rate
  /\ UNCHANGED <<life, copy, shaken>>

\* The answer of the request.
Finish(w) ==
  /\ job[w].step = "done"
  /\ Go(w, Idle)
  /\ shaken' = shaken \ {w}
  /\ UNCHANGED <<life, copy, rate>>

-----------------------------------------------------------------------------
(* UPS, the cache and time.                                                *)

\* "A cached token can be revoked server-side before it expires."
Revoke(t) ==
  /\ Honoured(t) /\ Held(t)
  /\ life' = [life EXCEPT ![t].revoked = TRUE, ![t].left = 0]
  /\ shaken' = shaken \cup {w \in Web : Busy(w)}
  /\ UNCHANGED <<copy, rate, job>>

\* The cache loses keys.
Evict ==
  /\ \/ copy' = NoCopy /\ UNCHANGED rate
     \/ \E k \in Keys : rate' = [rate EXCEPT ![k] = None] /\ UNCHANGED copy
  /\ UNCHANGED <<life, shaken, job>>

Tick ==
  /\ \A w \in Web : Busy(w) => job[w].wait < Timeout
  /\ life' = [t \in Token |-> IF Held(t) THEN [life[t] EXCEPT !.left = Less(@)] ELSE NoLife]
  /\ copy' = IF copy.left <= 1 THEN NoCopy ELSE [copy EXCEPT !.left = @ - 1]
  /\ job' = [w \in Web |-> IF Busy(w) THEN [job[w] EXCEPT !.wait = @ + 1] ELSE job[w]]
  /\ UNCHANGED <<rate, shaken>>

-----------------------------------------------------------------------------

Init ==
  /\ life = [t \in Token |-> NoLife]
  /\ copy = NoCopy
  /\ rate = [k \in Keys |-> None]
  /\ shaken = {}
  /\ job = [w \in Web |-> Idle]

\* What a session does once it has begun.
Step(w) ==
  \/ GetToken(w) \/ Fetch(w) \/ Store(w) \/ Call(w) \/ Drop(w) \/ Keep(w) \/ Finish(w)

Next ==
  \/ \E w \in Web :
       \/ \E p \in Parcel : Total(w, p)
       \/ QuoteCart(w) \/ AskRates(w) \/ TrackShipment(w) \/ ValidateAddress(w)
       \/ Check(w) \/ Step(w)
  \/ \E t \in Token : Revoke(t)
  \/ Evict
  \/ Tick

Spec == Init /\ [][Next]_vars

-----------------------------------------------------------------------------
(* Properties.                                                             *)

Lives == [span : Nat, left : Nat, revoked : BOOLEAN]

Jobs ==
  [step : {"idle", "token", "fetch", "store", "call", "drop", "keep", "done"},
   goal : {"none", "total", "ask"}, parcel : Parcel \cup {None}, attempt : 0 .. 2,
   token : Token \cup {None}, charge : Parcel \cup {None},
   why : {"none", "failed", "broken", "denied", "refused"}, wait : 0 .. Timeout]

\* Tokens, copies, charges and sessions have the shape the code gives them.
TypeOK ==
  /\ life \in [Token -> Lives]
  /\ copy \in [token : Token \cup {None}, left : Nat]
  /\ rate \in [Keys -> Parcel \cup {None}]
  /\ shaken \subseteq Web
  /\ job \in [Web -> Jobs]

\* Longer than the skew and the floor together, as UPS's four hours are.
Long(t) == life[t].span >= Skew + Floor

\* "so a token cannot die mid-request": however slow the worker that fetched a
\* token and the one that uses its copy, UPS never refuses the token for its age.
NeverTooOld ==
  \A w \in Web : job[w].step = "call" /\ Long(job[w].token) /\ ~life[job[w].token].revoked =>
    life[job[w].token].left > 0

\* A request that ends with a 401 got it for a token in force, for which UPS may
\* deny it ("denied"), or UPS revoked a token while it ran: what was revoked before,
\* and what slower workers put back into the cache, costs it one more attempt.
OneRefusalIsRepaired ==
  \A w \in Web : job[w].why = "refused" /\ Long(job[w].token) => w \in shaken

\* A total charges what UPS quoted for the same service, area and weight.
ChargeFits ==
  \A w \in Web : job[w].step = "done" /\ job[w].charge # None =>
    LET q == job[w].charge
        p == job[w].parcel
    IN  q.service = p.service /\ Area[q.address] = Area[p.address] /\ q.weight = p.weight

-----------------------------------------------------------------------------
(* What the code's comments say and the code does not keep: see README.    *)

\* A total falls back to base_rate on "any UPS failure" (resolve_shipping_amount).
AnyFailureFallsBack == \A w \in Web : job[w].goal = "total" => job[w].why # "broken"
=============================================================================
