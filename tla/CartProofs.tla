------------------------------- MODULE CartProofs -------------------------------
(***************************************************************************)
(* Theorems about Cart for any variants, rows, tabs and limits.  Which row *)
(* a tab writes was decided before, on a cart that others have changed     *)
(* since; what keeps the rows apart is what each write looks at itself.    *)
(***************************************************************************)
EXTENDS Cart, Sums

IsRow(r) == /\ DOMAIN r = {"v", "qty", "live"} /\ r = [f \in DOMAIN r |-> r[f]]
            /\ r.live \in BOOLEAN

\* The inductive invariant: rows have their fields, two live ones are of
\* different variants, and the claim goes with its coupon.
Shape == row = [i \in Item |-> row[i]] /\ \A i \in Item : IsRow(row[i])

Apart == \A i, k \in Item : row[i].live /\ row[k].live /\ row[i].v = row[k].v => i = k

RowsInv == Shape /\ Apart

LEMMA InitRows == Init => RowsInv
  <1> SUFFICES ASSUME Init PROVE RowsInv
    OBVIOUS
  <1>1. IsRow(NoRow) /\ NoRow.live = FALSE
    BY DEF IsRow, NoRow
  <1>2. row = [i \in Item |-> NoRow]
    BY DEF Init
  <1>3. QED
    BY <1>1, <1>2 DEF RowsInv, Shape, Apart

\* A write that makes row i a live one of variant v, which had no other.
LEMMA PutRow ==
  ASSUME RowsInv, NEW i, NEW v, NEW n, RowsOf(v) \subseteq {i},
         row' = [row EXCEPT ![i] = [v |-> v, qty |-> n, live |-> TRUE]]
  PROVE  RowsInv'
  <1>1. ASSUME NEW k \in Item
        PROVE  /\ k = i => row'[k] = [v |-> v, qty |-> n, live |-> TRUE]
               /\ k # i => row'[k] = row[k]
               /\ IsRow(row'[k])
    BY DEF RowsInv, Shape, IsRow
  <1>2. Shape'
    BY <1>1 DEF RowsInv, Shape
  <1>3. \A k \in Item : k # i /\ row[k].live => row[k].v # v
    BY DEF RowsOf
  <1>4. Apart'
    BY <1>1, <1>3 DEF RowsInv, Apart
  <1>5. QED
    BY <1>2, <1>4 DEF RowsInv

\* A write that changes no variant and brings no row back.
LEMMA KeepRow ==
  ASSUME RowsInv, row' = [i \in Item |-> row'[i]],
         \A i \in Item : /\ IsRow(row'[i])
                         /\ row'[i].live => row[i].live /\ row'[i].v = row[i].v
  PROVE  RowsInv'
  BY DEF RowsInv, Shape, Apart

LEMMA NextRows ==
  ASSUME RowsInv, [Next]_vars
  PROVE  RowsInv'
  <1>1. ASSUME NEW v, NEW n, RowsOf(v) = {}, Insert(v, n) PROVE RowsInv'
    BY <1>1, PutRow DEF Insert
  <1>2. ASSUME DeleteAll PROVE RowsInv'
    <2>1. row' = [i \in Item |-> row'[i]] /\ \A k \in Item : row'[k] = [row[k] EXCEPT !.live = FALSE]
      BY <1>2 DEF DeleteAll
    <2>2. \A k \in Item : IsRow(row'[k]) /\ ~row'[k].live
      BY <2>1 DEF RowsInv, Shape, IsRow
    <2>3. QED
      BY <2>1, <2>2, KeepRow
  <1>3. ASSUME NEW w \in Web, CreateAdd(w) \/ CreateMerge(w) PROVE RowsInv'
    <2>1. CASE UNCHANGED row
      BY <2>1, KeepRow DEF RowsInv, Shape
    <2>2. QED
      BY <1>1, <1>3, <2>1 DEF CreateAdd, CreateMerge
  <1>4. ASSUME NEW w \in Web, SaveAdd(w) PROVE RowsInv'
    <2>1. CASE UNCHANGED row
      BY <2>1, KeepRow DEF RowsInv, Shape
    <2>2. QED
      BY <1>4, <2>1, PutRow DEF SaveAdd
  <1>5. ASSUME NEW w \in Web, Update(w) PROVE RowsInv'
    <2>1. CASE UNCHANGED row
      BY <2>1, KeepRow DEF RowsInv, Shape
    <2>2. CASE row' = [row EXCEPT ![job[w].i].qty = job[w].n]
      <3>1. \A k \in Item : row'[k] = row[k] \/ row'[k] = [row[k] EXCEPT !.qty = job[w].n]
        BY <2>2 DEF RowsInv, Shape
      <3>2. row' = [k \in Item |-> row'[k]]
        BY <2>2 DEF RowsInv, Shape
      <3>3. ASSUME NEW k \in Item
            PROVE  IsRow(row'[k]) /\ row'[k].live = row[k].live /\ row'[k].v = row[k].v
        <4>1. IsRow(row[k])
          BY DEF RowsInv, Shape
        <4>2. CASE row'[k] = row[k]
          BY <4>1, <4>2
        <4>3. CASE row'[k] = [row[k] EXCEPT !.qty = job[w].n]
          BY <4>1, <4>3 DEF IsRow
        <4>4. QED
          BY <3>1, <4>2, <4>3
      <3>4. QED
        BY <3>2, <3>3, KeepRow
    <2>3. QED
      BY <1>5, <2>1, <2>2 DEF Update
  <1>6. ASSUME NEW i \in Item, Remove(i) PROVE RowsInv'
    <2>1. \A k \in Item : row'[k] = row[k] \/ row'[k] = [row[k] EXCEPT !.live = FALSE]
      BY <1>6 DEF Remove, RowsInv, Shape
    <2>2. row' = [k \in Item |-> row'[k]]
      BY <1>6 DEF Remove, RowsInv, Shape
    <2>3. ASSUME NEW k \in Item
          PROVE  /\ IsRow(row'[k])
                 /\ row'[k].live => row[k].live /\ row'[k].v = row[k].v
      <3>1. IsRow(row[k])
        BY DEF RowsInv, Shape
      <3>2. CASE row'[k] = row[k]
        BY <3>1, <3>2
      <3>3. CASE row'[k] = [row[k] EXCEPT !.live = FALSE]
        BY <3>1, <3>3 DEF IsRow
      <3>4. QED
        BY <2>1, <3>2, <3>3
    <2>4. QED
      BY <2>2, <2>3, KeepRow
  <1>7. CASE UNCHANGED row
    BY <1>7, KeepRow DEF RowsInv, Shape
  <1>8. ASSUME NEW w \in Web,
               \/ \E v \in Variant, n \in Quantities : LookAdd(w, v, n) \/ LookMerge(w, v, n)
               \/ \E i \in Item, n \in Quantities : LookPatch(w, i, n)
               \/ ClearCoupon(w) \/ LookCoupon(w) \/ SaveCoupon(w) \/ RemoveCoupon(w)
               \/ PriceOrder(w) \/ ReserveOrder(w) \/ PlaceOrder(w) \/ Abort(w)
        PROVE  RowsInv'
    BY <1>7, <1>8 DEF LookAdd, LookMerge, LookPatch, ClearCoupon, LookCoupon, SaveCoupon,
                      RemoveCoupon, PriceOrder, ReserveOrder, PlaceOrder, Abort
  <1>9. QED
    BY <1>2, <1>3, <1>4, <1>5, <1>6, <1>7, <1>8
    DEF Next, vars, ClearItems, SaveClaim, EmptyPaidCart, StockMoves

\* Whatever tabs add, merge, change, remove and bring back, a variant has one
\* line in the cart.
THEOREM OneLineEach == Spec => []OneLinePerVariant
  <1>1. RowsInv => OneLinePerVariant
    <2> SUFFICES ASSUME RowsInv, NEW v \in Variant PROVE Cardinality(RowsOf(v)) <= 1
      BY DEF OneLinePerVariant
    <2>1. CASE RowsOf(v) = {}
      BY <2>1, FS_EmptySet
    <2>2. CASE RowsOf(v) # {}
      <3>1. PICK i \in RowsOf(v) : TRUE
        BY <2>2
      <3>2. RowsOf(v) = {i}
        BY <3>1 DEF RowsOf, RowsInv, Apart
      <3>3. Cardinality({i}) = 1
        BY FS_Singleton
      <3>4. QED
        BY <3>2, <3>3
    <2>3. QED
      BY <2>1, <2>2
  <1>2. RowsInv /\ [Next]_vars => RowsInv'
    BY NextRows
  <1>3. QED
    BY <1>1, <1>2, InitRows, PTL DEF Spec

\* The claim and its coupon come and go in one statement everywhere.
THEOREM ClaimGoesWithCoupon == Spec => []CouponMatchesClaim
  <1>1. Init => CouponMatchesClaim
    BY DEF Init, CouponMatchesClaim
  <1>2. CouponMatchesClaim /\ [Next]_vars => CouponMatchesClaim'
    <2> SUFFICES ASSUME CouponMatchesClaim, [Next]_vars PROVE CouponMatchesClaim'
      OBVIOUS
    <2>1. CASE UNCHANGED <<coupon, claim>>
      BY <2>1 DEF CouponMatchesClaim
    <2>2. CASE claim' = FALSE /\ coupon' \in {"none", "promo"}
      BY <2>2 DEF CouponMatchesClaim
    <2>3. CASE SaveClaim
      BY <2>3 DEF SaveClaim, CouponMatchesClaim
    <2>4. QED
      BY <2>1, <2>2, <2>3
      DEF Next, vars, LookAdd, LookMerge, CreateAdd, SaveAdd, CreateMerge, Update, LookPatch,
          ClearItems, ClearCoupon, LookCoupon, SaveCoupon, RemoveCoupon, PriceOrder,
          ReserveOrder, PlaceOrder, Abort, Remove, EmptyPaidCart, StockMoves
  <1>3. QED
    BY <1>1, <1>2, PTL DEF Spec

-----------------------------------------------------------------------------
(* One tab alone, while nothing is taken from what is available.           *)

Fits(v, n) == v \in Variant /\ n \in Nat /\ n <= avail[v]

QtyOK == \A i \in Item : row[i].live => Fits(row[i].v, row[i].qty)

\* What a request with job j is about to write is available.
Modest(j) ==
  /\ j.step = "add" => \A i \in RowsOf(j.v) : Fits(j.v, row[i].qty + j.n)
  /\ j.step \in {"add", "save", "merge", "update"} => Fits(j.v, j.n)
  /\ j.step = "update" => j.i \in Item /\ row[j.i].v = j.v
  /\ j.step = "reserve" => j.reserved \in [Variant -> Nat]

\* The invariant of a cart with one tab.
AloneInv ==
  /\ RowsInv /\ avail \in [Variant -> Nat] /\ QtyOK
  /\ job = [w \in Web |-> job[w]] /\ \A w \in Web : Modest(job[w])

LEMMA LeastOfTwo ==
  ASSUME NEW a \in Nat, NEW b \in Nat
  PROVE  Min({a, b}) \in Nat /\ Min({a, b}) <= b
  <1> DEFINE m == IF a <= b THEN a ELSE b
  <1>1. m \in {a, b} /\ \A y \in {a, b} : m <= y
    OBVIOUS
  <1> HIDE DEF m
  <1>2. Min({a, b}) \in {a, b} /\ \A y \in {a, b} : Min({a, b}) <= y
    BY <1>1 DEF Min
  <1>3. QED
    BY <1>2

LEMMA MostOfTwo ==
  ASSUME NEW a \in Nat, NEW b \in Nat, NEW c \in Nat, a <= c, b <= c
  PROVE  Max({a, b}) \in Nat /\ Max({a, b}) <= c
  <1> DEFINE m == IF a >= b THEN a ELSE b
  <1>1. m \in {a, b} /\ \A y \in {a, b} : m >= y
    OBVIOUS
  <1> HIDE DEF m
  <1>2. Max({a, b}) \in {a, b}
    BY <1>1 DEF Max
  <1>3. QED
    BY <1>2

LEMMA ContentsAre ==
  ASSUME RowsInv, QtyOK, avail \in [Variant -> Nat], NEW v \in Variant
  PROVE  /\ Contents[v] \in Nat /\ Contents[v] <= avail[v]
         /\ \A i \in RowsOf(v) : Contents[v] = row[i].qty
  <1> DEFINE f == [i \in Item |-> row[i].qty]
  <1>1. Contents[v] = SumFunctionOnSet(f, RowsOf(v))
    BY DEF Contents
  <1>2. CASE RowsOf(v) = {}
    BY <1>1, <1>2, SumEmpty
  <1>3. CASE RowsOf(v) # {}
    <2>1. PICK i \in RowsOf(v) : TRUE
      BY <1>3
    <2>2. RowsOf(v) = {i}
      BY <2>1 DEF RowsOf, RowsInv, Apart
    <2>3. f[i] = row[i].qty /\ row[i].qty \in Nat /\ row[i].qty <= avail[v]
      BY <2>1 DEF RowsOf, QtyOK, Fits
    <2> HIDE DEF f
    <2>4. f[i] \in Int
      BY <2>3
    <2>5. SumFunctionOnSet(f, {i}) = f[i]
      BY <2>4, SumSingle
    <2>6. QED
      BY <1>1, <2>2, <2>3, <2>5
  <1>4. QED
    BY <1>2, <1>3

\* Nothing is taken from what is available.
Grows == avail \in [Variant -> Nat] /\ avail' \in [Variant -> Nat] /\ Rising

LEMMA FitsStill ==
  ASSUME Grows, NEW v, NEW n, Fits(v, n)
  PROVE  Fits(v, n)'
  BY DEF Grows, Rising, Fits

\* Rows go, or stay as they are.
Shrinks ==
  \A i \in Item : /\ row'[i].v = row[i].v
                  /\ row'[i].live => row[i].live /\ row'[i].qty = row[i].qty

LEMMA ModestWhenLess ==
  ASSUME QtyOK, Shrinks, Grows, NEW j, Modest(j)
  PROVE  QtyOK' /\ Modest(j)'
  <1>1. QtyOK'
    <2> SUFFICES ASSUME NEW i \in Item, row'[i].live PROVE Fits(row[i].v, row[i].qty)'
      BY DEF QtyOK
    <2>1. Fits(row[i].v, row[i].qty) /\ row'[i].v = row[i].v /\ row'[i].qty = row[i].qty
      BY DEF QtyOK, Shrinks
    <2>2. QED
      BY <2>1 DEF Fits, Grows, Rising
  <1>2. \A i \in RowsOf(j.v)' : i \in RowsOf(j.v) /\ row'[i].qty = row[i].qty
    BY DEF RowsOf, Shrinks
  <1>3. j.step = "add" => \A i \in RowsOf(j.v)' : Fits(j.v, row[i].qty + j.n)'
    BY <1>2 DEF Modest, Fits, Grows, Rising
  <1>4. j.step \in {"add", "save", "merge", "update"} => Fits(j.v, j.n)'
    BY DEF Modest, Fits, Grows, Rising
  <1>5. j.step = "update" => j.i \in Item /\ row'[j.i].v = j.v
    BY DEF Modest, Shrinks
  <1>6. QED
    BY <1>1, <1>3, <1>4, <1>5 DEF Modest

\* A row that is written gets a quantity that is available.
LEMMA WriteKeepsModest ==
  ASSUME QtyOK, RowsInv, Grows, NEW i, NEW r, row' = [row EXCEPT ![i] = r],
         r.live => Fits(r.v, r.qty)
  PROVE  QtyOK'
  <1>1. ASSUME NEW k \in Item PROVE row'[k] = row[k] \/ row'[k] = r
    BY DEF RowsInv, Shape
  <1>2. ASSUME NEW k \in Item, row'[k].live PROVE Fits(row[k].v, row[k].qty)'
    <2>1. Fits(row'[k].v, row'[k].qty)
      BY <1>1, <1>2 DEF QtyOK
    <2>2. QED
      BY <2>1 DEF Fits, Grows, Rising
  <1>3. QED
    BY <1>2 DEF QtyOK

LEMMA AloneInit == Init => AloneInv
  <1> SUFFICES ASSUME Init PROVE AloneInv
    OBVIOUS
  <1>1. \A i \in Item : row[i].live = FALSE
    BY DEF Init, NoRow
  <1>2. \A w \in Web : job[w].step = "idle"
    BY DEF Init, Idle
  <1>3. avail \in [Variant -> Nat]
    BY NumberAssumption DEF Init
  <1>4. QED
    BY <1>1, <1>2, <1>3, InitRows DEF AloneInv, QtyOK, Modest, Init

\* The only tab takes a step and comes to job j.
LEMMA OneTabMoves ==
  ASSUME AloneInv, \A a, b \in Web : a = b, RowsInv', QtyOK', Grows,
         NEW w \in Web, NEW j, job' = [job EXCEPT ![w] = j], Modest(j)'
  PROVE  AloneInv'
  <1>1. job' = [x \in Web |-> job'[x]]
    BY DEF AloneInv
  <1>2. \A x \in Web : job'[x] = j
    BY DEF AloneInv
  <1>3. ASSUME NEW x \in Web PROVE Modest(job[x])'
    BY <1>2 DEF Modest, RowsOf, Fits
  <1>4. QED
    BY <1>1, <1>3 DEF AloneInv, Grows

\* What is available in the next state is a function to numbers: an order that is
\* placed while nothing may fall reserves nothing.
LEMMA GrowsAlone ==
  ASSUME AloneInv, [Next]_vars, Rising
  PROVE  Grows
  <1>1. avail \in [Variant -> Nat]
    BY DEF AloneInv
  <1>2. CASE UNCHANGED avail
    BY <1>1, <1>2 DEF Grows, Rising
  <1>3. ASSUME NEW w \in Web, PlaceOrder(w) PROVE Grows
    <2>1. Modest(job[w]) /\ job[w].step = "reserve"
      BY <1>3 DEF AloneInv, PlaceOrder
    <2>2. job[w].reserved \in [Variant -> Nat]
      BY <2>1 DEF Modest
    <2>3. avail' = [v \in Variant |-> avail[v] - job[w].reserved[v]]
      BY <1>3 DEF PlaceOrder
    <2>4. ASSUME NEW v \in Variant PROVE avail'[v] \in Nat
      BY <1>1, <2>2, <2>3 DEF Rising
    <2>5. QED
      BY <1>1, <2>3, <2>4 DEF Grows
  <1>4. ASSUME NEW v \in Variant, NEW n \in 0 .. Stock, StockMoves(v, n) PROVE Grows
    BY <1>1, <1>4, NumberAssumption DEF StockMoves, Grows
  <1>5. QED
    BY <1>2, <1>3, <1>4
    DEF Next, vars, LookAdd, LookMerge, CreateAdd, SaveAdd, CreateMerge, Update, LookPatch,
        ClearItems, ClearCoupon, LookCoupon, SaveCoupon, RemoveCoupon, PriceOrder,
        ReserveOrder, Abort, Remove, SaveClaim, EmptyPaidCart

LEMMA AloneNext ==
  ASSUME AloneInv, [Next]_vars, Rising, \A a, b \in Web : a = b
  PROVE  AloneInv'
  <1>1. RowsInv' /\ Grows
    BY NextRows, GrowsAlone DEF AloneInv
  <1>2. UNCHANGED row => Shrinks
    BY DEF Shrinks
  <1>3. DeleteAll => Shrinks
    <2> SUFFICES ASSUME DeleteAll, NEW i \in Item PROVE ~row'[i].live /\ row'[i].v = row[i].v
      BY DEF Shrinks
    <2>1. IsRow(row[i]) /\ row'[i] = [row[i] EXCEPT !.live = FALSE]
      BY DEF DeleteAll, AloneInv, RowsInv, Shape
    <2>2. QED
      BY <2>1 DEF IsRow
  <1>4. ASSUME NEW w \in Web, NEW j, job' = [job EXCEPT ![w] = j], Shrinks, Modest(j)
        PROVE  AloneInv'
    <2>1. QtyOK' /\ Modest(j)'
      BY <1>1, <1>4, ModestWhenLess DEF AloneInv
    <2>2. QED
      BY <1>1, <1>4, <2>1, OneTabMoves
  <1>5. Idle.step = "idle"
    BY DEF Idle
  <1>6. Modest(Idle)
    BY <1>5 DEF Modest
  <1>7. ASSUME NEW w \in Web, End(w), QtyOK' PROVE AloneInv'
    <2>1. Modest(Idle)'
      BY <1>5 DEF Modest
    <2>2. QED
      BY <1>1, <1>7, <2>1, OneTabMoves DEF End, Continue
  <1>8. \A n \in Quantities : n \in Nat /\ n >= 1
    BY NumberAssumption DEF Quantities
  <1>9. ASSUME NEW w \in Web, NEW v \in Variant, NEW n \in Quantities, LookAdd(w, v, n)
        PROVE  AloneInv'
    <2> DEFINE j == [step |-> "add", v |-> v, i |-> None, n |-> n]
    <2>1. Contents[v] \in Nat /\ \A i \in RowsOf(v) : Contents[v] = row[i].qty
      BY ContentsAre DEF AloneInv
    <2>2. avail[v] \in Nat
      BY DEF AloneInv
    <2>3. n \in Nat /\ n <= avail[v] /\ \A i \in RowsOf(v) : row[i].qty + n \in Nat /\ row[i].qty + n <= avail[v]
      BY <1>8, <1>9, <2>1, <2>2 DEF LookAdd
    <2>4. Modest(j)
      BY <2>3 DEF Modest, Fits
    <2>5. QED
      BY <1>2, <1>4, <1>9, <2>4 DEF LookAdd, Begin
  <1>10. ASSUME NEW w \in Web, NEW v \in Variant, NEW n \in Quantities, LookMerge(w, v, n)
         PROVE  AloneInv'
    <2> DEFINE m == Min({Contents[v] + n, avail[v]})
               j == [step |-> "merge", v |-> v, i |-> None, n |-> m]
    <2>1. Contents[v] + n \in Nat /\ avail[v] \in Nat
      BY <1>8, ContentsAre DEF AloneInv
    <2>2. m \in Nat /\ m <= avail[v]
      BY <2>1, LeastOfTwo
    <2>3. Modest(j)
      BY <2>2 DEF Modest, Fits
    <2>4. QED
      BY <1>2, <1>4, <1>10, <2>3 DEF LookMerge, Begin
  <1>11. ASSUME NEW w \in Web, NEW i \in Item, NEW n \in Quantities, LookPatch(w, i, n)
         PROVE  AloneInv'
    <2> DEFINE j == [step |-> "update", v |-> row[i].v, i |-> i, n |-> n]
    <2>1. row[i].v \in Variant /\ n \in Nat /\ n <= avail[row[i].v]
      BY <1>8, <1>11 DEF LookPatch, AloneInv, QtyOK, Fits
    <2>2. Modest(j)
      BY <2>1 DEF Modest, Fits
    <2>3. QED
      BY <1>2, <1>4, <1>11, <2>2 DEF LookPatch, Begin
  <1>12. ASSUME NEW w \in Web, NEW v, NEW n, Insert(v, n), Fits(v, n), End(w)
         PROVE  AloneInv'
    <2>1. PICK i \in Item : row' = [row EXCEPT ![i] = [v |-> v, qty |-> n, live |-> TRUE]]
      BY <1>12 DEF Insert
    <2>2. QtyOK'
      BY <1>1, <1>12, <2>1, WriteKeepsModest DEF AloneInv
    <2>3. QED
      BY <1>7, <1>12, <2>2
  <1>13. ASSUME NEW w \in Web, CreateAdd(w) PROVE AloneInv'
    <2>1. job[w].step = "add" /\ Modest(job[w])
      BY <1>13 DEF CreateAdd, AloneInv
    <2>2. Fits(job[w].v, job[w].n)
      BY <2>1 DEF Modest
    <2>3. CASE Insert(job[w].v, job[w].n) /\ End(w)
      BY <1>12, <2>2, <2>3
    <2>4. ASSUME NEW i \in RowsOf(job[w].v), UNCHANGED row,
                 Continue(w, [step |-> "save", v |-> job[w].v, i |-> i, n |-> row[i].qty + job[w].n])
          PROVE  AloneInv'
      <3> DEFINE j == [step |-> "save", v |-> job[w].v, i |-> i, n |-> row[i].qty + job[w].n]
      <3>1. Fits(job[w].v, row[i].qty + job[w].n)
        BY <2>1 DEF Modest
      <3>2. Modest(j)
        BY <3>1 DEF Modest
      <3>3. QED
        BY <1>2, <1>4, <2>4, <3>2 DEF Continue
    <2>5. QED
      BY <1>13, <2>3, <2>4 DEF CreateAdd
  <1>14. ASSUME NEW w \in Web, CreateMerge(w) PROVE AloneInv'
    <2>1. job[w].step = "merge" /\ Modest(job[w])
      BY <1>14 DEF CreateMerge, AloneInv
    <2>2. Fits(job[w].v, job[w].n)
      BY <2>1 DEF Modest
    <2>3. CASE Insert(job[w].v, job[w].n) /\ End(w)
      BY <1>12, <2>2, <2>3
    <2>4. ASSUME NEW i \in RowsOf(job[w].v), UNCHANGED row,
                 Continue(w, [step |-> "update", v |-> job[w].v, i |-> i,
                              n |-> Max({row[i].qty, job[w].n})])
          PROVE  AloneInv'
      <3> DEFINE m == Max({row[i].qty, job[w].n})
                 j == [step |-> "update", v |-> job[w].v, i |-> i, n |-> m]
      <3>1. i \in Item /\ row[i].v = job[w].v /\ Fits(row[i].v, row[i].qty)
        BY DEF RowsOf, AloneInv, QtyOK
      <3>2. avail[job[w].v] \in Nat
        BY <2>2 DEF Fits, AloneInv
      <3>3. m \in Nat /\ m <= avail[job[w].v]
        BY <2>2, <3>1, <3>2, MostOfTwo DEF Fits
      <3>4. Fits(job[w].v, m)
        BY <2>2, <3>3 DEF Fits
      <3> HIDE DEF m
      <3>5. Modest(j)
        BY <3>1, <3>4 DEF Modest
      <3>6. QED
        BY <1>2, <1>4, <2>4, <3>5 DEF Continue, m
    <2>5. QED
      BY <1>14, <2>3, <2>4 DEF CreateMerge
  <1>15. ASSUME NEW w \in Web, SaveAdd(w) \/ Update(w) PROVE AloneInv'
    <2>1. job[w].step \in {"save", "update"} /\ Modest(job[w]) /\ End(w)
      BY <1>15 DEF SaveAdd, Update, AloneInv
    <2>2. Fits(job[w].v, job[w].n)
      BY <2>1 DEF Modest
    <2>3. CASE UNCHANGED row
      BY <2>1, <2>3, <1>2, <1>4, <1>6 DEF End, Continue
    <2>4. CASE row' = [row EXCEPT ![job[w].i] = [v |-> job[w].v, qty |-> job[w].n, live |-> TRUE]]
      <3>1. QtyOK'
        BY <1>1, <2>2, <2>4, WriteKeepsModest DEF AloneInv
      <3>2. QED
        BY <1>7, <2>1, <3>1
    <2>5. CASE job[w].step = "update" /\ row' = [row EXCEPT ![job[w].i].qty = job[w].n]
      <3>1. row[job[w].i].v = job[w].v
        BY <2>1, <2>5 DEF Modest
      <3>2. ASSUME NEW k \in Item
            PROVE  \/ row'[k] = row[k]
                   \/ row'[k] = [row[k] EXCEPT !.qty = job[w].n] /\ row[k].v = job[w].v
        BY <2>5, <3>1 DEF AloneInv, RowsInv, Shape
      <3>3. ASSUME NEW k \in Item, row'[k].live
            PROVE  Fits(row'[k].v, row'[k].qty)
        <4>1. IsRow(row[k])
          BY DEF AloneInv, RowsInv, Shape
        <4>2. CASE row'[k] = row[k]
          BY <3>3, <4>2 DEF AloneInv, QtyOK
        <4>3. CASE row'[k] = [row[k] EXCEPT !.qty = job[w].n] /\ row[k].v = job[w].v
          <5>1. row'[k].v = job[w].v /\ row'[k].qty = job[w].n
            BY <4>1, <4>3 DEF IsRow
          <5>2. QED
            BY <2>2, <5>1
        <4>4. QED
          BY <3>2, <4>2, <4>3
      <3>4. ASSUME NEW k \in Item, row'[k].live PROVE Fits(row[k].v, row[k].qty)'
        BY <1>1, <3>3, <3>4 DEF Fits, Grows, Rising
      <3>5. QtyOK'
        BY <3>4 DEF QtyOK
      <3>6. QED
        BY <1>7, <2>1, <3>5
    <2>6. QED
      BY <1>15, <2>3, <2>4, <2>5 DEF SaveAdd, Update
  <1>16. ASSUME NEW w \in Web, ClearItems(w) \/ RemoveCoupon(w) \/ LookCoupon(w) PROVE AloneInv'
    <2>1. PICK s \in {"clear", "coupon"} : job' = [job EXCEPT ![w] = [Idle EXCEPT !.step = s]]
      BY <1>16 DEF ClearItems, RemoveCoupon, LookCoupon, Begin
    <2>2. [Idle EXCEPT !.step = s].step = s
      BY DEF Idle
    <2>3. Shrinks
      BY <1>2, <1>3, <1>16 DEF ClearItems, RemoveCoupon, LookCoupon
    <2>4. Modest([Idle EXCEPT !.step = s])
      BY <2>2 DEF Modest
    <2>5. QED
      BY <1>4, <2>1, <2>3, <2>4
  <1>17. ASSUME NEW w \in Web, ClearCoupon(w) \/ SaveCoupon(w) \/ PlaceOrder(w) \/ Abort(w)
         PROVE  AloneInv'
    <2>1. job' = [job EXCEPT ![w] = Idle] /\ UNCHANGED row
      BY <1>17 DEF ClearCoupon, SaveCoupon, PlaceOrder, Abort, End, Continue
    <2>2. QED
      BY <1>2, <1>4, <1>6, <2>1
  <1>18. ASSUME NEW w \in Web, PriceOrder(w) PROVE AloneInv'
    <2>1. PICK j : j = [step |-> "price", priced |-> Contents, promo |-> coupon = "promo"]
      OBVIOUS
    <2>2. job' = [job EXCEPT ![w] = j] /\ UNCHANGED row
      BY <1>18, <2>1 DEF PriceOrder, Begin
    <2>3. Modest(j)
      BY <2>1 DEF Modest
    <2>4. QED
      BY <1>2, <1>4, <2>2, <2>3
  <1>19. ASSUME NEW w \in Web, ReserveOrder(w) PROVE AloneInv'
    <2>1. PICK j : j = [step |-> "reserve", priced |-> job[w].priced, promo |-> job[w].promo,
                        reserved |-> Contents]
      OBVIOUS
    <2>2. job' = [job EXCEPT ![w] = j] /\ UNCHANGED row
      BY <1>19, <2>1 DEF ReserveOrder, Continue
    <2>3. Contents = [v \in Variant |-> Contents[v]] /\ \A v \in Variant : Contents[v] \in Nat
      <3>1. \A v \in Variant : Contents[v] \in Nat
        BY ContentsAre DEF AloneInv
      <3>2. QED
        BY <3>1 DEF Contents
    <2>4. Modest(j)
      BY <2>1, <2>3 DEF Modest
    <2>5. QED
      BY <1>2, <1>4, <2>2, <2>4
  <1>20. CASE Shrinks /\ UNCHANGED job
    <2>1. ASSUME NEW x \in Web PROVE Modest(job[x])' /\ QtyOK'
      <3>1. Modest(job[x])
        BY DEF AloneInv
      <3>2. PICK j : j = job[x]
        OBVIOUS
      <3>3. QtyOK' /\ Modest(j)'
        BY <1>1, <1>20, <3>1, <3>2, ModestWhenLess DEF AloneInv
      <3>4. job'[x] = j
        BY <1>20, <3>2
      <3>5. QED
        BY <3>3, <3>4 DEF Modest, RowsOf, Fits
    <2>2. QtyOK'
      <3>1. Modest(Idle)
        BY <1>6
      <3>2. QED
        BY <1>1, <1>20, <3>1, ModestWhenLess DEF AloneInv
    <2>3. QED
      BY <1>1, <1>20, <2>1, <2>2 DEF AloneInv, Grows
  <1>21. (\E i \in Item : Remove(i)) => Shrinks /\ UNCHANGED job
    <2> SUFFICES ASSUME NEW i \in Item, Remove(i) PROVE Shrinks /\ UNCHANGED job
      OBVIOUS
    <2>1. \A k \in Item : row'[k] = row[k] \/ row'[k] = [row[k] EXCEPT !.live = FALSE]
      BY DEF Remove, AloneInv, RowsInv, Shape
    <2>2. ASSUME NEW k \in Item
          PROVE  /\ row'[k].v = row[k].v
                 /\ row'[k].live => row[k].live /\ row'[k].qty = row[k].qty
      <3>1. IsRow(row[k])
        BY DEF AloneInv, RowsInv, Shape
      <3>2. /\ ~[row[k] EXCEPT !.live = FALSE].live
            /\ [row[k] EXCEPT !.live = FALSE].v = row[k].v
        BY <3>1 DEF IsRow
      <3>3. QED
        BY <2>1, <3>2
    <2>3. QED
      BY <2>2 DEF Remove, Shrinks
  <1>22. \/ SaveClaim \/ EmptyPaidCart \/ UNCHANGED vars
         \/ \E v \in Variant, n \in 0 .. Stock : StockMoves(v, n)
         => Shrinks /\ UNCHANGED job
    BY <1>2, <1>3 DEF SaveClaim, EmptyPaidCart, StockMoves, vars
  <1>23. QED
    BY <1>9, <1>10, <1>11, <1>13, <1>14, <1>15, <1>16, <1>17, <1>18, <1>19, <1>20, <1>21, <1>22
    DEF Next

\* The check of an add, a merge and a change is right: in a behaviour in which what
\* is available never falls, a cart with one tab never has more than the shop can
\* deliver, whatever payments, releases and deletions run in between.  Two tabs that
\* check before either writes, and a fall in what is available (another customer's
\* order, the customer's own that is not paid yet, the staff) are the only ways.
THEOREM AloneWithinStock ==
  ASSUME \A a, b \in Web : a = b
  PROVE  Spec /\ [][Rising]_vars => []WithinStock
  <1>1. AloneInv => WithinStock
    <2> SUFFICES ASSUME AloneInv, NEW v \in Variant PROVE Contents[v] <= avail[v]
      BY DEF WithinStock
    <2>1. QED
      BY ContentsAre DEF AloneInv
  <1>2. AloneInv /\ [Next]_vars /\ [Rising]_vars => AloneInv'
    <2> SUFFICES ASSUME AloneInv, [Next]_vars, [Rising]_vars PROVE AloneInv'
      OBVIOUS
    <2>1. CASE UNCHANGED vars
      <3>1. avail' = avail /\ avail \in [Variant -> Nat]
        BY <2>1 DEF vars, AloneInv
      <3>2. Rising
        BY <3>1 DEF Rising
      <3>3. QED
        BY <3>2, AloneNext
    <2>2. QED
      BY <2>1, AloneNext
  <1>3. QED
    BY <1>1, <1>2, AloneInit, PTL DEF Spec
=============================================================================
