---------------------------- MODULE ShippingProofs ----------------------------
(***************************************************************************)
(* Proofs about Shipping, for any parcels, areas, tokens and sessions.     *)
(* The span of a token is followed from UPS through the worker that        *)
(* fetched it and the cache to the worker that uses the copy: each may     *)
(* wait for Timeout, and the skew pays for both.                           *)
(***************************************************************************)
EXTENDS Shipping, TLAPS

Fits(p, q) == p \in Parcel /\ q \in Parcel /\ RateKey(p) = RateKey(q)

\* A token whose age matters.
Sound(t) == t \in Token /\ Long(t) /\ ~life[t].revoked

\* A session is what its step says.
Formed(j) ==
  /\ j.goal = "total" => j.parcel \in Parcel
  /\ j.charge # None => Fits(j.charge, j.parcel)
  /\ j.step = "keep" => j.goal = "total"
  /\ j.step = "call" => j.attempt # 0
  /\ j.step \in {"store", "call", "drop"} \/ j.why = "refused" => j.token \in Token
  /\ j.why # "none" => j.step = "done"

\* How long the token of a session still lives: in the hands of the worker that
\* fetched it, and in a call.
InTime(j) ==
  Sound(j.token) =>
    /\ j.step = "store" => life[j.token].left + j.wait >= life[j.token].span
    /\ j.step = "call" => life[j.token].left + j.wait >= Timeout + 1

\* The token of a second attempt was UPS's own answer to it: if it is revoked, it
\* was revoked since.
Shaken(w) ==
  LET j == job[w]
  IN  /\ j.step = "store" \/ (j.step = "call" /\ j.attempt = 2) =>
           (life[j.token].revoked => w \in shaken)
      /\ j.why = "refused" /\ Long(j.token) => w \in shaken

CopyOK ==
  /\ copy.left > 0 => copy.token \in Token
  /\ Sound(copy.token) => life[copy.token].left >= copy.left + Timeout

RatesFit == \A k \in Keys : rate[k] # None => RateKey(rate[k]) = k

SessionOK(w) == Formed(job[w]) /\ InTime(job[w]) /\ Shaken(w)

Inv == TypeOK /\ CopyOK /\ RatesFit /\ \A w \in Web : SessionOK(w)

LEMMA InvInit == Init => Inv
  <1> SUFFICES ASSUME Init PROVE Inv
    OBVIOUS
  <1>1. TypeOK
    BY NumberAssumption DEF Init, TypeOK, NoLife, NoCopy, Idle, Lives, Jobs
  <1>2. CopyOK /\ RatesFit
    BY NoneAssumption DEF Init, CopyOK, RatesFit, NoCopy, Sound
  <1>3. \A w \in Web : SessionOK(w)
    BY NoneAssumption DEF Init, SessionOK, Formed, InTime, Shaken, Sound, Idle
  <1>4. QED
    BY <1>1, <1>2, <1>3 DEF Inv

\* A session that does not move keeps what it knows, as long as its token does.
LEMMA StillKnows ==
  ASSUME Inv, NEW w \in Web, job'[w] = job[w], w \in shaken => w \in shaken',
         job[w].token \in Token => life'[job[w].token] = life[job[w].token]
  PROVE  SessionOK(w)'
  <1> PICK j \in Jobs : j = job[w] /\ j = job'[w]
    BY DEF Inv, TypeOK
  <1>1. Formed(job[w])'
    BY DEF Inv, SessionOK, Formed, Fits
  <1>2. InTime(job[w])'
    BY DEF Inv, SessionOK, InTime, Sound, Long
  <1>3. Shaken(w)'
    BY DEF Inv, SessionOK, Shaken, Formed, Long
  <1>4. QED
    BY <1>1, <1>2, <1>3 DEF SessionOK

\* A step of one session that leaves the tokens alone.
LEMMA StepKeeps ==
  ASSUME Inv, TypeOK', CopyOK', RatesFit', NEW w \in Web, NEW j, j \in Jobs, Go(w, j),
         UNCHANGED life, shaken \ {w} \subseteq shaken', SessionOK(w)'
  PROVE  Inv'
  <1>1. ASSUME NEW x \in Web, x # w PROVE SessionOK(x)'
    <2>1. job'[x] = job[x]
      BY <1>1 DEF Go, Inv, TypeOK
    <2>2. QED
      BY <1>1, <2>1, StillKnows
  <1>2. QED
    BY <1>1 DEF Inv

\* Where a session goes, with a wait of its own.
LEMMA GoesTo ==
  ASSUME TypeOK, NEW w \in Web, NEW j \in Jobs, Go(w, j)
  PROVE  /\ job' \in [Web -> Jobs]
         /\ job'[w] = [j EXCEPT !.wait = 0]
         /\ job'[w] \in Jobs
         /\ \A x \in Web \ {w} : job'[x] = job[x]
  BY NumberAssumption DEF Go, TypeOK, Jobs

\* A step that only moves a session.
LEMMA MoveKeeps ==
  ASSUME Inv, NEW w \in Web, NEW j \in Jobs, Go(w, j), UNCHANGED <<life, copy, rate, shaken>>,
         SessionOK(w)'
  PROVE  Inv'
  <1>1. TypeOK'
    BY GoesTo DEF Inv, TypeOK
  <1>2. CopyOK' /\ RatesFit'
    BY DEF Inv, CopyOK, RatesFit, Sound, Long
  <1>3. QED
    BY <1>1, <1>2, StepKeeps

LEMMA BeginKeeps ==
  ASSUME Inv, NEW w \in Web, NEW j \in Jobs, Begin(w, j), UNCHANGED <<life, copy, rate, shaken>>,
         Formed(j), j.step \notin {"store", "call"}, j.why = "none"
  PROVE  Inv'
  <1>1. job'[w] = [j EXCEPT !.wait = 0] /\ job'[w] \in Jobs
    BY GoesTo DEF Begin, Inv
  <1>2. SessionOK(w)'
    BY <1>1 DEF SessionOK, Formed, InTime, Shaken, Jobs, Fits
  <1>3. QED
    BY <1>2, MoveKeeps DEF Begin

LEMMA IdleJob ==
  \E i \in Jobs : i = Idle /\ i.goal = "none" /\ i.parcel = None /\ i.attempt = 1
                  /\ i.token = None /\ i.charge = None /\ i.why = "none"
  <1>1. 1 \in 0 .. 2 /\ 0 \in 0 .. Timeout
    BY NumberAssumption
  <1>2. Idle \in Jobs
    BY <1>1 DEF Idle, Jobs
  <1>3. /\ Idle.goal = "none" /\ Idle.parcel = None /\ Idle.attempt = 1
        /\ Idle.token = None /\ Idle.charge = None /\ Idle.why = "none"
    BY DEF Idle
  <1>4. QED
    BY <1>2, <1>3

LEMMA TotalKeeps ==
  ASSUME Inv, NEW w \in Web, NEW p \in Parcel, Total(w, p) PROVE Inv'
  <1> PICK i \in Jobs : i = Idle /\ i.goal = "none" /\ i.parcel = None /\ i.attempt = 1
                        /\ i.token = None /\ i.charge = None /\ i.why = "none"
    BY IdleJob
  <1> DEFINE hit == rate[RateKey(p)]
             j == [i EXCEPT !.goal = "total", !.parcel = p]
  <1>0. RateKey(p) \in Keys
    BY DEF Keys
  <1>1. CASE hit # None
    <2> DEFINE k == [j EXCEPT !.step = "done", !.charge = hit]
    <2>1. hit \in Parcel /\ RateKey(hit) = RateKey(p)
      BY <1>0, <1>1 DEF Inv, TypeOK, RatesFit
    <2>2. k \in Jobs
      BY <2>1 DEF Jobs
    <2>3. Formed(k) /\ k.step = "done" /\ k.why = "none"
      BY <2>1 DEF Jobs, Formed, Fits
    <2>4. QED
      BY <1>1, <2>2, <2>3, BeginKeeps DEF Total
  <1>2. CASE hit = None
    <2> DEFINE k == [j EXCEPT !.step = "token"]
    <2>1. k \in Jobs
      BY DEF Jobs
    <2>2. Formed(k) /\ k.step = "token" /\ k.why = "none"
      BY DEF Jobs, Formed
    <2>3. QED
      BY <1>2, <2>1, <2>2, BeginKeeps DEF Total
  <1>3. QED
    BY <1>1, <1>2

\* The requests that have nothing to do with charges kept.
LEMMA AskKeeps ==
  ASSUME Inv, NEW w \in Web, Ask(w), UNCHANGED <<life, copy, rate, shaken>> PROVE Inv'
  <1> PICK i \in Jobs : i = Idle /\ i.goal = "none" /\ i.parcel = None /\ i.attempt = 1
                        /\ i.token = None /\ i.charge = None /\ i.why = "none"
    BY IdleJob
  <1> DEFINE k == [i EXCEPT !.step = "token", !.goal = "ask"]
  <1>1. k \in Jobs
    BY DEF Jobs
  <1>2. Formed(k) /\ k.step = "token" /\ k.why = "none"
    BY DEF Jobs, Formed
  <1>3. QED
    BY <1>1, <1>2, BeginKeeps DEF Ask

LEMMA CheckKeeps ==
  ASSUME Inv, NEW w \in Web, Check(w) PROVE Inv'
  <1> PICK i \in Jobs : i = Idle /\ i.goal = "none" /\ i.parcel = None /\ i.attempt = 1
                        /\ i.token = None /\ i.charge = None /\ i.why = "none"
    BY IdleJob
  <1> DEFINE k == [i EXCEPT !.step = "fetch", !.goal = "ask", !.attempt = 0]
  <1>0. 0 \in 0 .. 2
    OBVIOUS
  <1>1. k \in Jobs
    BY <1>0 DEF Jobs
  <1>2. Formed(k) /\ k.step = "fetch" /\ k.why = "none"
    BY DEF Jobs, Formed
  <1>3. QED
    BY <1>1, <1>2, BeginKeeps DEF Check

LEMMA GetTokenKeeps ==
  ASSUME Inv, NEW w \in Web, GetToken(w) PROVE Inv'
  <1> PICK j \in Jobs : j = job[w]
    BY DEF Inv, TypeOK
  <1>0. Formed(j)
    BY DEF Inv, SessionOK, Formed, Fits
  <1>1. CASE job[w].attempt = 1 /\ copy.left > 0
    <2> DEFINE k == [j EXCEPT !.step = "call", !.token = copy.token]
    <2>1. copy.token \in Token /\ copy.left \in Nat /\ copy.left > 0
      BY <1>1 DEF Inv, TypeOK, CopyOK
    <2>2. k \in Jobs /\ Go(w, k)
      BY <1>1, <2>1 DEF GetToken, Jobs
    <2>3. job'[w] = [k EXCEPT !.wait = 0] /\ job'[w] \in Jobs
      BY <2>2, GoesTo DEF Inv
    <2>4. Formed(job[w])'
      BY <1>0, <1>1, <2>1, <2>3 DEF GetToken, Formed, Jobs, Fits
    <2>5. Sound(copy.token) => life[copy.token].left >= Timeout + 1
      BY <2>1, NumberAssumption DEF Inv, TypeOK, CopyOK, Lives, Sound
    <2>6. InTime(job[w])'
      BY <2>1, <2>3, <2>5, NumberAssumption DEF GetToken, InTime, Sound, Long, Jobs, Inv, TypeOK, Lives
    <2>7. Shaken(w)'
      BY <1>0, <1>1, <2>3 DEF GetToken, Shaken, Formed, Jobs
    <2>8. QED
      BY <2>2, <2>4, <2>6, <2>7, MoveKeeps DEF GetToken, SessionOK
  <1>2. CASE ~(job[w].attempt = 1 /\ copy.left > 0)
    <2> DEFINE k == [j EXCEPT !.step = "fetch"]
    <2>1. k \in Jobs /\ Go(w, k)
      BY <1>2 DEF GetToken, Jobs
    <2>2. job'[w] = [k EXCEPT !.wait = 0] /\ job'[w] \in Jobs
      BY <2>1, GoesTo DEF Inv
    <2>3. SessionOK(w)'
      BY <1>0, <2>2 DEF GetToken, SessionOK, Formed, InTime, Shaken, Jobs, Fits
    <2>4. QED
      BY <2>1, <2>3, MoveKeeps DEF GetToken
  <1>3. QED
    BY <1>1, <1>2

\* A request gives up for another reason than a refusal.
LEMMA FailKeeps ==
  ASSUME Inv, NEW w \in Web, job[w].step \in {"fetch", "call"},
         NEW why \in {"failed", "broken", "denied"}, Fail(w, why), UNCHANGED <<life, copy, rate, shaken>>
  PROVE  Inv'
  <1> PICK j \in Jobs : j = job[w]
    BY DEF Inv, TypeOK
  <1> DEFINE k == [j EXCEPT !.step = "done", !.why = why, !.token = None]
  <1>1. k \in Jobs /\ Go(w, k)
    BY DEF Fail, Jobs
  <1>2. job'[w] = [k EXCEPT !.wait = 0] /\ job'[w] \in Jobs
    BY <1>1, GoesTo DEF Inv
  <1>3. SessionOK(w)'
    BY <1>2 DEF Inv, SessionOK, Formed, InTime, Shaken, Jobs, Fits
  <1>4. QED
    BY <1>1, <1>3, MoveKeeps

\* UPS answers, fails, or refuses: a second refusal is of a token in force, or of
\* one that was revoked while the request held it.
LEMMA CallKeeps ==
  ASSUME Inv, NEW w \in Web, Call(w) PROVE Inv'
  <1> PICK j \in Jobs : j = job[w]
    BY DEF Inv, TypeOK
  <1>0. Formed(j) /\ j.token \in Token /\ j.step = "call"
    BY DEF Inv, SessionOK, Formed, Fits, Call
  <1>1. CASE /\ Honoured(j.token) /\ j.goal = "total"
             /\ Go(w, [j EXCEPT !.step = "keep", !.token = None, !.charge = j.parcel])
    <2> DEFINE k == [j EXCEPT !.step = "keep", !.token = None, !.charge = j.parcel]
    <2>1. k \in Jobs
      BY DEF Jobs
    <2>2. job'[w] = [k EXCEPT !.wait = 0] /\ job'[w] \in Jobs
      BY <1>1, <2>1, GoesTo DEF Inv
    <2>3. SessionOK(w)'
      BY <1>0, <1>1, <2>2 DEF SessionOK, Formed, InTime, Shaken, Jobs, Fits
    <2>4. QED
      BY <1>1, <2>1, <2>3, MoveKeeps DEF Call
  <1>2. CASE Honoured(j.token) /\ j.goal # "total" /\ Go(w, [j EXCEPT !.step = "done", !.token = None])
    <2> DEFINE k == [j EXCEPT !.step = "done", !.token = None]
    <2>1. k \in Jobs
      BY DEF Jobs
    <2>2. job'[w] = [k EXCEPT !.wait = 0] /\ job'[w] \in Jobs
      BY <1>2, <2>1, GoesTo DEF Inv
    <2>3. SessionOK(w)'
      BY <1>0, <1>2, <2>2 DEF SessionOK, Formed, InTime, Shaken, Jobs, Fits
    <2>4. QED
      BY <1>2, <2>1, <2>3, MoveKeeps DEF Call
  <1>3. ASSUME NEW why \in {"failed", "broken"}, Fail(w, why) PROVE Inv'
    BY <1>0, <1>3, FailKeeps DEF Call
  <1>4. CASE j.attempt = 1 /\ Go(w, [j EXCEPT !.step = "drop"])
    <2> DEFINE k == [j EXCEPT !.step = "drop"]
    <2>1. k \in Jobs
      BY DEF Jobs
    <2>2. job'[w] = [k EXCEPT !.wait = 0] /\ job'[w] \in Jobs
      BY <1>4, <2>1, GoesTo DEF Inv
    <2>3. SessionOK(w)'
      BY <1>0, <1>4, <2>2 DEF SessionOK, Formed, InTime, Shaken, Jobs, Fits
    <2>4. QED
      BY <1>4, <2>1, <2>3, MoveKeeps DEF Call
  <1>5. CASE ~Honoured(j.token) /\ j.attempt # 1 /\ Fail(w, "refused")
    <2> DEFINE k == [j EXCEPT !.step = "done", !.why = "refused"]
    <2>1. k \in Jobs
      BY DEF Jobs
    <2>2. Go(w, k)
      BY <1>5 DEF Fail, Jobs
    <2>3. job'[w] = [k EXCEPT !.wait = 0] /\ job'[w] \in Jobs
      BY <2>1, <2>2, GoesTo DEF Inv
    <2>4. j.attempt = 2
      BY <1>0, <1>5 DEF Formed, Jobs
    <2>5. Long(j.token) => life[j.token].revoked
      BY <1>0, <1>5, NumberAssumption
      DEF Inv, SessionOK, InTime, Sound, Honoured, TypeOK, Lives, Jobs
    <2>6. Shaken(w)'
      BY <1>0, <2>3, <2>4, <2>5 DEF Inv, SessionOK, Shaken, Long, Jobs, Call
    <2>7. Formed(job[w])' /\ InTime(job[w])'
      BY <1>0, <2>3 DEF Formed, InTime, Jobs, Fits
    <2>8. QED
      BY <2>1, <2>2, <2>6, <2>7, MoveKeeps DEF Call, SessionOK
  <1>6. CASE Fail(w, "denied")
    BY <1>0, <1>6, FailKeeps DEF Call
  <1>7. QED
    BY <1>0, <1>1, <1>2, <1>3, <1>4, <1>5, <1>6 DEF Call

\* Nobody holds the token that UPS issues.
LEMMA FetchKeeps ==
  ASSUME Inv, NEW w \in Web, Fetch(w) PROVE Inv'
  <1> PICK j \in Jobs : j = job[w]
    BY DEF Inv, TypeOK
  <1>0. Formed(j) /\ j.step = "fetch"
    BY DEF Inv, SessionOK, Formed, Fits, Fetch
  <1>1. ASSUME NEW t \in Token, NEW s \in Spans, ~Held(t),
               life' = [life EXCEPT ![t] = [span |-> s, left |-> s, revoked |-> FALSE]],
               Go(w, [j EXCEPT !.step = "store", !.token = t])
        PROVE  Inv'
    <2> DEFINE k == [j EXCEPT !.step = "store", !.token = t]
    <2>1. k \in Jobs
      BY DEF Jobs
    <2>2. /\ job' \in [Web -> Jobs]
          /\ job'[w] = [k EXCEPT !.wait = 0] /\ job'[w] \in Jobs
          /\ \A x \in Web \ {w} : job'[x] = job[x]
      BY <1>1, <2>1, GoesTo DEF Inv
    <2>3. life' \in [Token -> Lives] /\ life'[t] = [span |-> s, left |-> s, revoked |-> FALSE]
      BY <1>1, NumberAssumption DEF Inv, TypeOK, Lives
    <2>4. TypeOK'
      BY <2>2, <2>3 DEF Inv, TypeOK, Fetch
    <2>5. \A u \in Token \ {t} : life'[u] = life[u]
      BY <1>1 DEF Inv, TypeOK
    <2>6. CopyOK'
      <3>1. copy.token # t
        BY <1>1 DEF Held
      <3>2. QED
        BY <2>5, <3>1 DEF Inv, CopyOK, Sound, Long, Fetch
    <2>7. RatesFit'
      BY DEF Inv, RatesFit, Fetch
    <2>8. ASSUME NEW x \in Web, x # w PROVE SessionOK(x)'
      <3>1. job[x].token # t
        BY <1>1 DEF Held
      <3>2. QED
        BY <2>2, <2>5, <2>8, <3>1, StillKnows DEF Fetch
    <2>9. SessionOK(w)'
      <3>1. /\ job'[w].step = "store" /\ job'[w].token = t /\ job'[w].wait = 0
            /\ job'[w].why = j.why /\ job'[w].goal = j.goal /\ job'[w].charge = j.charge
            /\ job'[w].parcel = j.parcel
        BY <2>2 DEF Jobs
      <3>2. Formed(job[w])'
        BY <1>0, <3>1 DEF Formed, Fits
      <3>3. InTime(job[w])'
        BY <2>3, <3>1, NumberAssumption DEF InTime
      <3>4. Shaken(w)'
        BY <1>0, <2>3, <3>1 DEF Shaken, Formed
      <3>5. QED
        BY <3>2, <3>3, <3>4 DEF SessionOK
    <2>10. QED
      BY <2>4, <2>6, <2>7, <2>8, <2>9 DEF Inv
  <1>2. ASSUME NEW why \in {"failed", "broken"}, Fail(w, why), UNCHANGED life PROVE Inv'
    BY <1>0, <1>2, FailKeeps DEF Fetch
  <1>3. QED
    BY <1>1, <1>2 DEF Fetch

\* The copy gets what the skew leaves of the token's span.
LEMMA StoreKeeps ==
  ASSUME Inv, NEW w \in Web, Store(w) PROVE Inv'
  <1> PICK j \in Jobs : j = job[w]
    BY DEF Inv, TypeOK
  <1> DEFINE t == j.token
             k == IF j.attempt = 0
                  THEN [j EXCEPT !.step = "token", !.attempt = 1, !.token = None]
                  ELSE [j EXCEPT !.step = "call"]
  <1>0. Formed(j) /\ t \in Token /\ j.step = "store" /\ j.wait \in 0 .. Timeout
    BY DEF Inv, SessionOK, Formed, Fits, Store, Jobs
  <1>1. life[t] \in Lives
    BY <1>0 DEF Inv, TypeOK
  <1>2. Sound(t) => life[t].left + j.wait >= life[t].span
    BY <1>0 DEF Inv, SessionOK, InTime
  <1>3. 1 \in 0 .. 2
    OBVIOUS
  <1>4. k \in Jobs
    <2>1. [j EXCEPT !.step = "token", !.attempt = 1, !.token = None] \in Jobs
      BY <1>3 DEF Jobs
    <2>2. [j EXCEPT !.step = "call"] \in Jobs
      BY DEF Jobs
    <2>3. QED
      BY <2>1, <2>2
  <1>5. Go(w, k)
    BY DEF Store
  <1>6. /\ job' \in [Web -> Jobs]
        /\ job'[w] = [k EXCEPT !.wait = 0] /\ job'[w] \in Jobs
    BY <1>4, <1>5, GoesTo DEF Inv
  <1>7. copy' = [token |-> t, left |-> Larger(life[t].span - Skew, Floor)]
    BY DEF Store
  <1>8. TypeOK'
    <2>1. Larger(life[t].span - Skew, Floor) \in Nat
      BY <1>1, NumberAssumption DEF Lives, Larger
    <2>2. copy' \in [token : Token \cup {None}, left : Nat]
      BY <1>0, <1>7, <2>1
    <2>3. QED
      BY <1>6, <2>2 DEF Inv, TypeOK, Store
  <1>9. CopyOK'
    <2>1. copy'.token = t /\ copy'.left = Larger(life[t].span - Skew, Floor)
      BY <1>7
    <2>2. Sound(t) => life[t].left >= Larger(life[t].span - Skew, Floor) + Timeout
      BY <1>0, <1>1, <1>2, NumberAssumption, SkewAssumption DEF Lives, Larger, Sound, Long
    <2>3. QED
      BY <1>0, <2>1, <2>2 DEF CopyOK, Sound, Long, Store
  <1>10. RatesFit'
    BY DEF Inv, RatesFit, Store
  <1>11. SessionOK(w)'
    <2>1. CASE j.attempt = 0
      BY <1>0, <1>6, <2>1 DEF SessionOK, Formed, InTime, Shaken, Jobs, Fits
    <2>2. CASE j.attempt # 0
      <3>1. /\ job'[w].step = "call" /\ job'[w].token = t /\ job'[w].wait = 0
            /\ job'[w].why = j.why /\ job'[w].goal = j.goal /\ job'[w].charge = j.charge
            /\ job'[w].parcel = j.parcel /\ job'[w].attempt = j.attempt
        BY <1>6, <2>2 DEF Jobs
      <3>2. Formed(job[w])'
        BY <1>0, <2>2, <3>1 DEF Formed, Fits
      <3>3. Sound(t) => life[t].left >= Timeout + 1
        BY <1>0, <1>1, <1>2, NumberAssumption, SkewAssumption DEF Lives, Sound, Long
      <3>4. InTime(job[w])'
        BY <1>1, <3>1, <3>3, NumberAssumption DEF InTime, Sound, Long, Store, Lives
      <3>5. Shaken(w)'
        BY <1>0, <3>1 DEF Inv, SessionOK, Shaken, Formed, Store
      <3>6. QED
        BY <3>2, <3>4, <3>5 DEF SessionOK
    <2>3. QED
      BY <2>1, <2>2
  <1>12. QED
    BY <1>4, <1>5, <1>8, <1>9, <1>10, <1>11, StepKeeps DEF Store

LEMMA DropKeeps ==
  ASSUME Inv, NEW w \in Web, Drop(w) PROVE Inv'
  <1> PICK j \in Jobs : j = job[w]
    BY DEF Inv, TypeOK
  <1> DEFINE k == [j EXCEPT !.step = "token", !.attempt = 2, !.token = None]
  <1>0. Formed(j) /\ j.step = "drop"
    BY DEF Inv, SessionOK, Formed, Fits, Drop
  <1>1. 2 \in 0 .. 2
    OBVIOUS
  <1>2. k \in Jobs /\ Go(w, k)
    BY <1>1 DEF Jobs, Drop
  <1>3. /\ job' \in [Web -> Jobs]
        /\ job'[w] = [k EXCEPT !.wait = 0] /\ job'[w] \in Jobs
    BY <1>2, GoesTo DEF Inv
  <1>4. TypeOK'
    BY <1>3 DEF Inv, TypeOK, Drop, NoCopy
  <1>5. CopyOK' /\ RatesFit'
    BY NoneAssumption DEF Inv, CopyOK, RatesFit, Drop, NoCopy, Sound
  <1>6. SessionOK(w)'
    BY <1>0, <1>3 DEF SessionOK, Formed, InTime, Shaken, Jobs, Fits
  <1>7. QED
    BY <1>2, <1>4, <1>5, <1>6, StepKeeps DEF Drop

\* The charge goes under the key of the parcel it was asked for.
LEMMA KeepKeeps ==
  ASSUME Inv, NEW w \in Web, Keep(w) PROVE Inv'
  <1> PICK j \in Jobs : j = job[w]
    BY DEF Inv, TypeOK
  <1>0. /\ Formed(j) /\ j.step = "keep" /\ j.parcel \in Parcel
        /\ j.charge # None => RateKey(j.charge) = RateKey(j.parcel)
    BY DEF Inv, SessionOK, Formed, Fits, Keep
  <1>1. CASE /\ rate' = [rate EXCEPT ![RateKey(j.parcel)] = j.charge]
             /\ Go(w, [j EXCEPT !.step = "done"])
    <2> DEFINE k == [j EXCEPT !.step = "done"]
    <2>1. k \in Jobs
      BY DEF Jobs
    <2>2. /\ job' \in [Web -> Jobs]
          /\ job'[w] = [k EXCEPT !.wait = 0] /\ job'[w] \in Jobs
      BY <1>1, <2>1, GoesTo DEF Inv
    <2>3. j.charge \in Parcel \cup {None}
      BY DEF Jobs
    <2>4. rate' \in [Keys -> Parcel \cup {None}]
      BY <1>1, <2>3 DEF Inv, TypeOK
    <2>5. TypeOK'
      BY <2>2, <2>4 DEF Inv, TypeOK, Keep
    <2>6. RatesFit'
      BY <1>0, <1>1 DEF Inv, TypeOK, RatesFit
    <2>7. CopyOK'
      BY DEF Inv, CopyOK, Keep, Sound, Long
    <2>8. SessionOK(w)'
      BY <1>0, <2>2 DEF SessionOK, Formed, InTime, Shaken, Jobs, Fits
    <2>9. QED
      BY <1>1, <2>1, <2>5, <2>6, <2>7, <2>8, StepKeeps DEF Keep
  <1>2. CASE /\ Go(w, [j EXCEPT !.step = "done", !.why = "failed", !.charge = None])
             /\ UNCHANGED rate
    <2> DEFINE k == [j EXCEPT !.step = "done", !.why = "failed", !.charge = None]
    <2>1. k \in Jobs
      BY DEF Jobs
    <2>2. job'[w] = [k EXCEPT !.wait = 0] /\ job'[w] \in Jobs
      BY <1>2, <2>1, GoesTo DEF Inv
    <2>3. SessionOK(w)'
      BY <1>0, <2>2 DEF SessionOK, Formed, InTime, Shaken, Jobs, Fits
    <2>4. QED
      BY <1>2, <2>1, <2>3, MoveKeeps DEF Keep
  <1>3. QED
    BY <1>1, <1>2 DEF Keep

LEMMA FinishKeeps ==
  ASSUME Inv, NEW w \in Web, Finish(w) PROVE Inv'
  <1> PICK i \in Jobs : i = Idle /\ i.goal = "none" /\ i.parcel = None /\ i.attempt = 1
                        /\ i.token = None /\ i.charge = None /\ i.why = "none"
    BY IdleJob
  <1>0. i.step = "idle"
    BY DEF Idle
  <1>1. /\ job' \in [Web -> Jobs]
        /\ job'[w] = [i EXCEPT !.wait = 0] /\ job'[w] \in Jobs
    BY GoesTo DEF Finish, Inv
  <1>2. TypeOK'
    BY <1>1 DEF Inv, TypeOK, Finish
  <1>3. CopyOK' /\ RatesFit'
    BY DEF Inv, CopyOK, RatesFit, Finish, Sound, Long
  <1>4. SessionOK(w)'
    BY <1>0, <1>1 DEF SessionOK, Formed, InTime, Shaken, Jobs, Fits
  <1>5. QED
    BY <1>2, <1>3, <1>4, StepKeeps DEF Finish

-----------------------------------------------------------------------------

LEMMA RevokeKeeps ==
  ASSUME Inv, NEW t \in Token, Revoke(t) PROVE Inv'
  <1>1. /\ life' \in [Token -> Lives] /\ life'[t].revoked /\ life'[t].span = life[t].span
        /\ \A u \in Token \ {t} : life'[u] = life[u]
    BY DEF Revoke, Inv, TypeOK, Lives
  <1>2. TypeOK'
    BY <1>1 DEF Revoke, Inv, TypeOK
  <1>3. CopyOK' /\ RatesFit'
    BY <1>1 DEF Revoke, Inv, CopyOK, RatesFit, Sound, Long
  <1>4. ASSUME NEW w \in Web PROVE SessionOK(w)'
    <2> PICK j \in Jobs : j = job[w] /\ j = job'[w]
      BY DEF Inv, TypeOK, Revoke
    <2>1. Formed(job[w])'
      BY DEF Inv, SessionOK, Formed, Fits
    <2>2. InTime(job[w])'
      <3>1. Sound(j.token)' => Sound(j.token) /\ life'[j.token] = life[j.token]
        BY <1>1 DEF Sound, Long
      <3>2. QED
        BY <3>1 DEF Inv, SessionOK, InTime, Sound
    <2>3. Shaken(w)'
      <3>1. CASE Busy(w)
        BY <3>1 DEF Revoke, Shaken
      <3>2. CASE ~Busy(w)
        <4>1. j.step \notin {"store", "call"}
          BY <3>2 DEF Busy
        <4>2. j.why = "refused" => j.token \in Token
          BY DEF Inv, SessionOK, Formed
        <4>3. j.why = "refused" => Long(j.token)' = Long(j.token)
          BY <1>1, <4>2 DEF Long
        <4>4. QED
          BY <4>1, <4>3 DEF Inv, SessionOK, Shaken, Revoke
      <3>3. QED
        BY <3>1, <3>2
    <2>4. QED
      BY <2>1, <2>2, <2>3 DEF SessionOK
  <1>5. QED
    BY <1>2, <1>3, <1>4 DEF Inv

LEMMA EvictKeeps ==
  ASSUME Inv, Evict PROVE Inv'
  <1>1. TypeOK'
    BY DEF Evict, Inv, TypeOK, NoCopy
  <1>2. CopyOK'
    BY NoneAssumption DEF Evict, Inv, CopyOK, NoCopy, Sound, Long
  <1>3. RatesFit'
    BY DEF Evict, Inv, TypeOK, RatesFit
  <1>4. \A w \in Web : SessionOK(w)'
    BY StillKnows DEF Evict
  <1>5. QED
    BY <1>1, <1>2, <1>3, <1>4 DEF Inv

\* A unit of time costs a held token one unit, and its copy as well; a session
\* that holds one has waited one more.
LEMMA TickKeeps ==
  ASSUME Inv, Tick PROVE Inv'
  <1>1. \A t \in Token : Held(t) => /\ life'[t] \in Lives
                                    /\ life'[t].span = life[t].span
                                    /\ life'[t].revoked = life[t].revoked
                                    /\ life'[t].left = Less(life[t].left)
    BY DEF Tick, Inv, TypeOK, Lives, Less
  <1>2. \A t \in Token : ~Held(t) => life'[t] = NoLife
    BY DEF Tick
  <1>3. life' \in [Token -> Lives]
    <2>1. NoLife \in Lives
      BY DEF NoLife, Lives
    <2>2. \A t \in Token : life'[t] \in Lives
      BY <1>1, <1>2, <2>1
    <2>3. QED
      BY <2>2 DEF Tick
  <1>4. copy' \in [token : Token \cup {None}, left : Nat]
    BY DEF Tick, Inv, TypeOK, NoCopy
  <1>5. ASSUME NEW w \in Web PROVE job'[w] \in Jobs
    <2> PICK j \in Jobs : j = job[w]
      BY DEF Inv, TypeOK
    <2>1. CASE Busy(w)
      <3>1. j.wait + 1 \in 0 .. Timeout
        BY <2>1, NumberAssumption DEF Tick, Jobs
      <3>2. job'[w] = [j EXCEPT !.wait = j.wait + 1]
        BY <2>1 DEF Tick
      <3>3. QED
        BY <3>1, <3>2 DEF Jobs
    <2>2. CASE ~Busy(w)
      BY <2>2 DEF Tick
    <2>3. QED
      BY <2>1, <2>2
  <1>6. TypeOK'
    BY <1>3, <1>4, <1>5 DEF Tick, Inv, TypeOK
  <1>7. CopyOK'
    <2>1. CASE copy.left <= 1
      BY <2>1, NoneAssumption DEF Tick, CopyOK, NoCopy, Sound
    <2>2. CASE ~(copy.left <= 1)
      <3>1. copy.left \in Nat /\ copy.left > 1 /\ copy.token \in Token
        BY <2>2 DEF Inv, TypeOK, CopyOK
      <3>2. copy'.left = copy.left - 1 /\ copy'.token = copy.token
        BY <2>2 DEF Tick, Inv, TypeOK
      <3>3. Sound(copy.token) => life[copy.token].left >= copy.left + Timeout
        BY DEF Inv, CopyOK
      <3>4. life[copy.token] \in Lives /\ Held(copy.token)
        BY <3>1 DEF Inv, TypeOK, Held
      <3>5. QED
        BY <1>1, <3>1, <3>2, <3>3, <3>4, NumberAssumption
        DEF CopyOK, Sound, Long, Less, Lives
    <2>3. QED
      BY <2>1, <2>2
  <1>8. RatesFit'
    BY DEF Tick, Inv, RatesFit
  <1>9. ASSUME NEW w \in Web PROVE SessionOK(w)'
    <2> PICK j \in Jobs : j = job[w]
      BY DEF Inv, TypeOK
    <2>1. /\ job'[w].step = j.step /\ job'[w].goal = j.goal /\ job'[w].parcel = j.parcel
          /\ job'[w].charge = j.charge /\ job'[w].attempt = j.attempt
          /\ job'[w].token = j.token /\ job'[w].why = j.why
          /\ Busy(w) => job'[w].wait = j.wait + 1
      BY DEF Tick, Jobs
    <2>2. Formed(job[w])'
      BY <2>1 DEF Inv, SessionOK, Formed, Fits
    <2>3. j.token \in Token => Held(j.token) /\ life[j.token] \in Lives
      BY DEF Held, Inv, TypeOK
    <2>4. InTime(job[w])'
      <3>1. CASE ~(j.token \in Token /\ j.step \in {"store", "call"})
        BY <2>1, <3>1 DEF InTime, Sound
      <3>2. CASE j.token \in Token /\ j.step \in {"store", "call"}
        <4>1. job'[w].wait = j.wait + 1 /\ j.wait \in Nat
          BY <2>1, <3>2, NumberAssumption DEF Busy, Jobs
        <4>2. Sound(j.token) =>
                /\ j.step = "store" => life[j.token].left + j.wait >= life[j.token].span
                /\ j.step = "call" => life[j.token].left + j.wait >= Timeout + 1
          BY DEF Inv, SessionOK, InTime
        <4>3. Sound(j.token)' => Sound(j.token)
          BY <1>1, <2>3, <3>2 DEF Sound, Long
        <4>4. /\ life'[j.token].span = life[j.token].span
              /\ life'[j.token].left \in Nat
              /\ life'[j.token].left + 1 >= life[j.token].left
          BY <1>1, <2>3, <3>2 DEF Less, Lives
        <4>5. life[j.token].left \in Nat /\ life[j.token].span \in Nat
          BY <2>3, <3>2 DEF Lives
        <4>6. QED
          BY <2>1, <4>1, <4>2, <4>3, <4>4, <4>5, NumberAssumption DEF InTime, Sound
      <3>3. QED
        BY <3>1, <3>2
    <2>5. Shaken(w)'
      <3>1. j.step \in {"store", "call"} \/ j.why = "refused" => j.token \in Token
        BY DEF Inv, SessionOK, Formed
      <3>2. QED
        BY <1>1, <2>1, <2>3, <3>1 DEF Inv, SessionOK, Shaken, Long, Tick
    <2>6. QED
      BY <2>2, <2>4, <2>5 DEF SessionOK
  <1>10. QED
    BY <1>6, <1>7, <1>8, <1>9 DEF Inv

LEMMA InvStep == Inv /\ [Next]_vars => Inv'
  <1> SUFFICES ASSUME Inv, [Next]_vars PROVE Inv'
    OBVIOUS
  <1>1. ASSUME NEW w \in Web, QuoteCart(w) \/ AskRates(w) \/ TrackShipment(w) \/ ValidateAddress(w)
        PROVE  Inv'
    BY <1>1, AskKeeps DEF QuoteCart, AskRates, TrackShipment, ValidateAddress
  <1>2. ASSUME NEW w \in Web, Step(w) PROVE Inv'
    BY <1>2, GetTokenKeeps, FetchKeeps, StoreKeeps, CallKeeps, DropKeeps, KeepKeeps, FinishKeeps
    DEF Step
  <1>3. CASE UNCHANGED vars
    <2>1. TypeOK' /\ CopyOK' /\ RatesFit'
      BY <1>3 DEF vars, Inv, TypeOK, CopyOK, RatesFit, Sound, Long
    <2>2. \A w \in Web : SessionOK(w)'
      BY <1>3, StillKnows DEF vars
    <2>3. QED
      BY <2>1, <2>2 DEF Inv
  <1>4. QED
    BY <1>1, <1>2, <1>3, TotalKeeps, CheckKeeps, RevokeKeeps, EvictKeeps, TickKeeps DEF Next

LEMMA InvCorrect == Spec => []Inv
  BY InvInit, InvStep, PTL DEF Spec

-----------------------------------------------------------------------------

\* Type correctness, for any parcels, tokens and sessions.
THEOREM TypeCorrect == Spec => []TypeOK
  <1>1. Inv => TypeOK
    BY DEF Inv
  <1>2. QED
    BY <1>1, InvCorrect, PTL

\* TOKEN_EXPIRY_SKEW_SECONDS is enough as long as it is twice REQUEST_TIMEOUT: no
\* token is refused for its age, whoever fetched it and whoever uses its copy.
THEOREM SkewSuffices == Spec => []NeverTooOld
  <1>1. Inv => NeverTooOld
    <2> SUFFICES ASSUME Inv, NEW w \in Web, job[w].step = "call", Long(job[w].token),
                        ~life[job[w].token].revoked
                 PROVE  life[job[w].token].left > 0
      BY DEF NeverTooOld
    <2> PICK j \in Jobs : j = job[w]
      BY DEF Inv, TypeOK
    <2>1. j.token \in Token /\ Sound(j.token)
      BY DEF Inv, SessionOK, Formed, Sound
    <2>2. life[j.token].left + j.wait >= Timeout + 1
      BY <2>1 DEF Inv, SessionOK, InTime
    <2>3. life[j.token].left \in Nat /\ j.wait \in 0 .. Timeout
      BY <2>1 DEF Inv, TypeOK, Lives, Jobs
    <2>4. QED
      BY <2>2, <2>3, NumberAssumption
  <1>2. QED
    BY <1>1, InvCorrect, PTL

\* One retry is enough (ups_request): a request that ends with a 401 was refused
\* with a token in force, or a token was revoked while it ran.
THEOREM OneRetryIsEnough == Spec => []OneRefusalIsRepaired
  <1>1. Inv => OneRefusalIsRepaired
    BY DEF Inv, SessionOK, Shaken, OneRefusalIsRepaired
  <1>2. QED
    BY <1>1, InvCorrect, PTL

\* What the rate cache answers was quoted for this service, area and weight.
THEOREM ChargesFit == Spec => []ChargeFits
  <1>1. Inv => ChargeFits
    BY DEF Inv, SessionOK, Formed, Fits, RateKey, ChargeFits
  <1>2. QED
    BY <1>1, InvCorrect, PTL
=============================================================================
