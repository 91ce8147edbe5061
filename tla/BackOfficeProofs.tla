--------------------------- MODULE BackOfficeProofs ---------------------------
(***************************************************************************)
(* Proofs about Stockroom, Gallery and Taxonomy, for any variants, desks,  *)
(* images, editors, slugs, products and bounds.                            *)
(*                                                                         *)
(* Stockroom: what makes the quantities inductive is that an adjustment    *)
(* saves a stock that was found to be in range with the row it was         *)
(* computed from.                                                          *)
(*                                                                         *)
(* Gallery: as long as a group has two primaries, a request that wrote one *)
(* of them is still about to clear it, or one that was has died.           *)
(*                                                                         *)
(* Taxonomy: every command has a condition of the tables under which it    *)
(* changes nothing, and makes that condition true of any tables that staff *)
(* and commands can leave.                                                 *)
(***************************************************************************)
EXTENDS Stockroom, Gallery, Taxonomy, TLAPS

-----------------------------------------------------------------------------
(* Stock of a variant.                                                     *)

\* What a desk with an adjustment is going to save is a quantity.
AdjustmentsFit ==
  \A w \in Desk : desk[w].step = "adjust" => desk[w].seen.stock + desk[w].delta \in 0 .. Most

StockInv == StockTypeOK /\ AdjustmentsFit /\ ReservedIsHolds

\* A desk is what its step says.
LEMMA DeskShapes ==
  ASSUME StockTypeOK, NEW w \in Desk
  PROVE  /\ desk[w].step = "adjust" =>
              desk[w] \in [step : {"adjust"}, item : Item, seen : Rows, delta : Change]
         /\ desk[w].step \in {"find", "create"} => desk[w] \in [step : {"find", "create"}, key : Alerts]
  BY DEF StockTypeOK, Desks, FreeDesk

LEMMA RowNumbers ==
  ASSUME NEW r \in Rows
  PROVE  r.stock \in Nat /\ r.reserved \in Nat /\ r.threshold \in Nat
  <1>1. r.stock \in 0 .. Most /\ r.reserved \in 0 .. Most /\ r.threshold \in Limit
    BY DEF Rows
  <1>2. \A n \in 0 .. Most : n \in Nat
    BY MostAssumption
  <1>3. QED
    BY <1>1, <1>2, LimitAssumption

LEMMA StockInvInit == StockInit => StockInv
  BY MostAssumption DEF StockInit, StockInv, StockTypeOK, AdjustmentsFit, ReservedIsHolds, Desks,
     FreeDesk, Rows

LEMMA StockInvStep == StockInv /\ [StockNext]_stockVars => StockInv'
  <1> SUFFICES ASSUME StockInv, [StockNext]_stockVars PROVE StockInv'
    OBVIOUS
  <1> USE MostAssumption, LimitAssumption, ChangeAssumption
  \* Orders and the form write one row, and no desk.
  <1>1. ASSUME NEW v \in Item,
               ReserveStock(v) \/ CommitStock(v) \/ ReleaseStock(v) \/ SaveForm(v)
        PROVE  StockInv'
    <2>1. row'[v] \in Rows /\ row' = [row EXCEPT ![v] = row'[v]]
      BY <1>1 DEF StockInv, StockTypeOK, Rows, Available, ReserveStock, CommitStock, ReleaseStock,
                  SaveForm
    <2>2. hold' \in [Item -> Nat] /\ overwritten' \subseteq Item
      BY <1>1 DEF StockInv, StockTypeOK, ReserveStock, CommitStock, ReleaseStock, SaveForm
    <2>3. ReservedIsHolds'
      BY <1>1 DEF StockInv, StockTypeOK, Rows, ReservedIsHolds, ReserveStock, CommitStock,
                  ReleaseStock, SaveForm
    <2>4. UNCHANGED <<alert, desk>>
      BY <1>1 DEF ReserveStock, CommitStock, ReleaseStock, SaveForm
    <2>5. QED
      BY <2>1, <2>2, <2>3, <2>4 DEF StockInv, StockTypeOK, AdjustmentsFit
  <1>2. ASSUME NEW w \in Desk, NEW v \in Item, NEW d \in Change, LookAdjust(w, v, d)
        PROVE  StockInv'
    <2>1. row[v] \in Rows
      BY DEF StockInv, StockTypeOK
    <2>2. row[v].stock + d \in 0 .. Most
      <3>1. row[v].stock + d >= row[v].reserved /\ row[v].stock + d <= Most
        BY <1>2 DEF LookAdjust
      <3>2. row[v].stock \in Nat /\ row[v].reserved \in Nat /\ d \in Int
        BY <2>1, RowNumbers
      <3>3. QED
        BY <3>1, <3>2
    <2>3. QED
      BY <1>2, <2>1, <2>2 DEF LookAdjust, Sit, StockInv, StockTypeOK, AdjustmentsFit, ReservedIsHolds,
                              Desks
  <1>3. ASSUME NEW w \in Desk, SaveAdjust(w) PROVE StockInv'
    <2>1. /\ desk[w] \in [step : {"adjust"}, item : Item, seen : Rows, delta : Change]
          /\ desk[w].seen.stock + desk[w].delta \in 0 .. Most
      BY <1>3, DeskShapes DEF SaveAdjust, StockInv, AdjustmentsFit
    <2>2. /\ row' \in [Item -> Rows]
          /\ \A v \in Item : row'[v].reserved = row[v].reserved
      BY <1>3, <2>1 DEF SaveAdjust, StockInv, StockTypeOK, Rows
    <2>3. QED
      BY <1>3, <2>2 DEF SaveAdjust, Leave, FreeDesk, StockInv, StockTypeOK, AdjustmentsFit,
                        ReservedIsHolds, Desks
  <1>4. ASSUME NEW w \in Desk, NEW v \in Item, ReadLow(w, v) PROVE StockInv'
    <2>1. row[v] \in Rows
      BY DEF StockInv, StockTypeOK
    <2>2. <<v, row[v].threshold, Available(row[v])>> \in Alerts
      BY <2>1 DEF Alerts, Rows, Available
    <2>3. QED
      BY <1>4, <2>2 DEF ReadLow, Sit, StockInv, StockTypeOK, AdjustmentsFit, ReservedIsHolds, Desks
  <1>5. ASSUME NEW w \in Desk, FindAlert(w) PROVE StockInv'
    <2>1. desk[w] \in [step : {"find", "create"}, key : Alerts]
      BY <1>5, DeskShapes DEF FindAlert, StockInv
    <2>2. desk' \in [Desk -> Desks] /\ AdjustmentsFit'
      BY <1>5, <2>1 DEF FindAlert, Leave, FreeDesk, StockInv, StockTypeOK, AdjustmentsFit, Desks
    <2>3. QED
      BY <1>5, <2>2 DEF FindAlert, StockInv, StockTypeOK, ReservedIsHolds
  <1>6. ASSUME NEW w \in Desk, CreateAlert(w) PROVE StockInv'
    <2>1. desk[w].key \in Alerts
      BY <1>6, DeskShapes DEF CreateAlert, StockInv
    <2>2. QED
      BY <1>6, <2>1 DEF CreateAlert, Leave, FreeDesk, StockInv, StockTypeOK, AdjustmentsFit,
                        ReservedIsHolds, Desks
  <1>7. ASSUME NEW k \in Alerts, ResolveAlert(k) PROVE StockInv'
    BY <1>7 DEF ResolveAlert, StockInv, StockTypeOK, AdjustmentsFit, ReservedIsHolds
  <1>8. CASE UNCHANGED stockVars
    BY <1>8 DEF stockVars, StockInv, StockTypeOK, AdjustmentsFit, ReservedIsHolds
  <1>9. QED
    BY <1>1, <1>2, <1>3, <1>4, <1>5, <1>6, <1>7, <1>8 DEF StockNext

LEMMA StockInvCorrect == StockSpec => []StockInv
  BY StockInvInit, StockInvStep, PTL DEF StockSpec

\* No quantity becomes negative or leaves its range, however late an adjustment
\* is saved (InventoryAdjustmentViewSet.perform_create).
THEOREM StockTypeCorrect == StockSpec => []StockTypeOK
  <1>1. StockInv => StockTypeOK
    BY DEF StockInv
  <1>2. QED
    BY <1>1, StockInvCorrect, PTL

\* Adjustments, alerts and the units of open orders leave each other's columns alone.
THEOREM ReservedMatchesHolds == StockSpec => []ReservedIsHolds
  <1>1. StockInv => ReservedIsHolds
    BY DEF StockInv
  <1>2. QED
    BY <1>1, StockInvCorrect, PTL

\* The low-stock task, the dashboard's list and its three numbers agree.
THEOREM ReportsAlwaysAgree == StockSpec => []ReportsAgree
  <1>1. StockTypeOK => ReportsAgree
    <2> SUFFICES ASSUME StockTypeOK PROVE ReportsAgree
      OBVIOUS
    <2>1. \A v \in Item : row[v].stock \in Nat /\ row[v].reserved \in Nat /\ row[v].threshold \in Nat
      BY RowNumbers DEF StockTypeOK
    <2>2. \A v \in Item : Available(row[v]) <= row[v].threshold <=> Left(v) <= row[v].threshold
      BY <2>1 DEF Available, Left
    <2>3. \A v \in Item : row[v].stock <= row[v].reserved => Left(v) <= row[v].threshold
      BY <2>1 DEF Left
    <2>4. \A v \in Item : Left(v) > row[v].threshold <=> ~(Left(v) <= row[v].threshold)
      BY <2>1 DEF Left
    <2>5. \A v \in Item : row[v].stock > row[v].reserved <=> ~(row[v].stock <= row[v].reserved)
      BY <2>1
    <2>6. QED
      BY <2>2, <2>3, <2>4, <2>5 DEF ReportsAgree, Active, LowStock, Healthy, Low, Out
  <1>2. QED
    BY <1>1, StockTypeCorrect, PTL

-----------------------------------------------------------------------------
(* Primary images.                                                         *)

Groups == Color \cup {None}

\* A save that is under way knows the group of its variant, unless the variant
\* has changed since.
GroupsKnown ==
  \A e \in Editor : editor[e].step = "save" =>
    LET g == Group(editor[e].row.variant)
    IN  editor[e].group = g \/ g \in mixed

\* Some request is about to clear group g for image i or image j.
Clearing(g, i, j) ==
  \E e \in Editor : /\ editor[e].step = "clear" /\ editor[e].group = g
                    /\ editor[e].image \in {i, j}

\* The groups in which a pair of primaries is somebody's to clear.
Watched == Groups \ (mixed \cup torn)

PairsAreCleared ==
  \A g \in Watched : \A i, j \in Primaries(g) : i # j => Clearing(g, i, j)

GalleryInv == GalleryTypeOK /\ GroupsKnown /\ PairsAreCleared

\* A session is what its step says.
LEMMA WorkShapes ==
  ASSUME GalleryTypeOK, NEW e \in Editor
  PROVE  /\ editor[e].step = "save" =>
              editor[e] \in [step : {"save"}, image : Image, group : Groups, row : Pictures]
         /\ editor[e].step = "clear" =>
              editor[e] \in [step : {"clear"}, image : Image, group : Groups]
  BY DEF GalleryTypeOK, Works, NoWork, Groups

LEMMA GroupsAreGroups ==
  ASSUME GalleryTypeOK, NEW v \in Variant \cup {None}
  PROVE  Group(v) \in Groups
  BY DEF GalleryTypeOK, Group, Groups

LEMMA GalleryInvInit == GalleryInit => GalleryInv
  <1> SUFFICES ASSUME GalleryInit PROVE GalleryInv
    OBVIOUS
  <1>1. GalleryTypeOK
    BY DEF GalleryInit, GalleryTypeOK, Works, NoWork
  <1>2. GroupsKnown
    BY DEF GalleryInit, GroupsKnown, NoWork
  <1>3. PairsAreCleared
    BY DEF GalleryInit, PairsAreCleared, Marked, Groups, Watched
  <1>4. QED
    BY <1>1, <1>2, <1>3 DEF GalleryInv

\* A session that was free starts a save; no image changes.
LEMMA LookKeeps ==
  ASSUME GalleryInv, NEW e \in Editor, NEW j, Open(e, j), UNCHANGED <<image, color, mixed, torn>>,
         j \in [step : {"save"}, image : Image, group : Groups, row : Pictures],
         j.group = Group(j.row.variant)
  PROVE  GalleryInv'
  <1>1. GalleryTypeOK'
    BY DEF GalleryInv, GalleryTypeOK, Open, Works, Groups
  <1>2. GroupsKnown'
    BY DEF GalleryInv, GalleryTypeOK, GroupsKnown, Open, Group
  <1>3. PairsAreCleared'
    <2> SUFFICES ASSUME NEW g \in Watched, NEW i \in Primaries(g), NEW k \in Primaries(g), i # k
                 PROVE  Clearing(g, i, k)'
      BY DEF PairsAreCleared, Primaries, Kept, Group, Watched
    <2>1. PICK f \in Editor : /\ editor[f].step = "clear" /\ editor[f].group = g
                              /\ editor[f].image \in {i, k}
      BY DEF GalleryInv, PairsAreCleared, Clearing
    <2>2. editor'[f] = editor[f]
      BY <2>1 DEF Open, NoWork, GalleryInv, GalleryTypeOK
    <2>3. QED
      BY <2>1, <2>2 DEF Clearing
  <1>4. QED
    BY <1>1, <1>2, <1>3 DEF GalleryInv

LEMMA SaveKeeps ==
  ASSUME GalleryInv, NEW e \in Editor, SaveImage(e)
  PROVE  GalleryInv'
  <1> DEFINE j == editor[e]
  <1>0. j \in [step : {"save"}, image : Image, group : Groups, row : Pictures]
    BY WorkShapes DEF SaveImage, GalleryInv
  <1>1. CASE Close(e) /\ UNCHANGED <<image, color, mixed, torn>>
    <2>1. GalleryTypeOK'
      BY <1>1 DEF GalleryInv, GalleryTypeOK, Close, Works
    <2>2. GroupsKnown'
      BY <1>1 DEF GalleryInv, GalleryTypeOK, GroupsKnown, Close, Group, NoWork
    <2>3. PairsAreCleared'
      <3> SUFFICES ASSUME NEW g \in Watched, NEW i \in Primaries(g), NEW k \in Primaries(g), i # k
                   PROVE  Clearing(g, i, k)'
        BY <1>1 DEF PairsAreCleared, Primaries, Kept, Group, Watched
      <3>1. PICK f \in Editor : /\ editor[f].step = "clear" /\ editor[f].group = g
                                /\ editor[f].image \in {i, k}
        BY DEF GalleryInv, PairsAreCleared, Clearing
      <3>2. editor'[f] = editor[f]
        BY <1>0, <1>1, <3>1 DEF Close, GalleryInv, GalleryTypeOK
      <3>3. QED
        BY <3>1, <3>2 DEF Clearing
    <2>4. QED
      BY <2>1, <2>2, <2>3 DEF GalleryInv
  <1>2. CASE /\ image' = [image EXCEPT ![j.image] = j.row]
             /\ IF j.row.primary
                THEN editor' = [editor EXCEPT ![e] = [step |-> "clear", image |-> j.image,
                                                      group |-> j.group]]
                ELSE Close(e)
             /\ UNCHANGED <<color, mixed, torn>>
    <2>1. \A f \in Editor \ {e} : editor'[f] = editor[f]
      BY <1>2 DEF Close, GalleryInv, GalleryTypeOK
    <2>2. editor'[e].step # "save"
      BY <1>2 DEF Close, NoWork, GalleryInv, GalleryTypeOK
    <2>3. GalleryTypeOK'
      <3>1. image' \in [Image -> Pictures \cup {None}]
        BY <1>0, <1>2 DEF GalleryInv, GalleryTypeOK
      <3>2. editor' \in [Editor -> Works]
        BY <1>0, <1>2 DEF GalleryInv, GalleryTypeOK, Works, Close, Groups
      <3>3. QED
        BY <1>2, <3>1, <3>2 DEF GalleryInv, GalleryTypeOK
    <2>4. GroupsKnown'
      BY <1>2, <2>1, <2>2 DEF GalleryInv, GroupsKnown, Group
    <2>5. PairsAreCleared'
      <3> SUFFICES ASSUME NEW g \in Watched,
                          NEW i \in Primaries(g)', NEW k \in Primaries(g)', i # k
                   PROVE  Clearing(g, i, k)'
        BY <1>2 DEF PairsAreCleared, Watched
      <3>1. CASE j.image \notin {i, k}
        <4>1. i \in Primaries(g) /\ k \in Primaries(g)
          BY <1>0, <1>2, <3>1 DEF Primaries, Kept, Group, GalleryInv, GalleryTypeOK
        <4>2. PICK f \in Editor : /\ editor[f].step = "clear" /\ editor[f].group = g
                                  /\ editor[f].image \in {i, k}
          BY <4>1 DEF GalleryInv, PairsAreCleared, Clearing
        <4>3. f # e
          BY <1>0, <4>2
        <4>4. QED
          BY <2>1, <4>2, <4>3 DEF Clearing
      <3>2. CASE j.image \in {i, k}
        <4>1. j.row.primary /\ Group(j.row.variant) = g
          BY <1>0, <1>2, <3>2 DEF Primaries, Kept, Group, GalleryInv, GalleryTypeOK
        <4>2. j.group = g
          BY <1>0, <4>1 DEF GalleryInv, GroupsKnown, Watched
        <4>3. /\ editor'[e].step = "clear" /\ editor'[e].group = g
              /\ editor'[e].image = j.image
          BY <1>2, <4>1, <4>2 DEF GalleryInv, GalleryTypeOK
        <4>4. QED
          BY <3>2, <4>3 DEF Clearing
      <3>3. QED
        BY <3>1, <3>2
    <2>6. QED
      BY <2>3, <2>4, <2>5 DEF GalleryInv
  <1>3. QED
    BY <1>1, <1>2 DEF SaveImage

LEMMA ClearKeeps ==
  ASSUME GalleryInv, NEW e \in Editor, ClearOthers(e)
  PROVE  GalleryInv'
  <1> DEFINE j == editor[e]
  <1>0. j \in [step : {"clear"}, image : Image, group : Groups]
    BY WorkShapes DEF ClearOthers, GalleryInv
  <1>1. \A f \in Editor \ {e} : editor'[f] = editor[f]
    BY DEF ClearOthers, Close, GalleryInv, GalleryTypeOK
  <1>2. editor'[e] = NoWork
    BY DEF ClearOthers, Close, GalleryInv, GalleryTypeOK
  <1>3. GalleryTypeOK'
    <2>1. image' \in [Image -> Pictures \cup {None}]
      BY DEF ClearOthers, GalleryInv, GalleryTypeOK, Primaries, Kept, Pictures
    <2>2. QED
      BY <2>1 DEF ClearOthers, Close, GalleryInv, GalleryTypeOK, Works
  <1>4. GroupsKnown'
    BY <1>1, <1>2 DEF ClearOthers, GalleryInv, GroupsKnown, Group, NoWork
  <1>5. \A g \in Groups : Primaries(g)' \subseteq Primaries(g)
    BY NothingAssumption
    DEF ClearOthers, GalleryInv, GalleryTypeOK, Primaries, Kept, Group, Pictures
  <1>6. \A g \in Groups : g = j.group => Primaries(g)' \subseteq {j.image}
    BY DEF ClearOthers, GalleryInv, GalleryTypeOK, Primaries, Kept, Group, Pictures
  <1>7. PairsAreCleared'
    <2> SUFFICES ASSUME NEW g \in Watched',
                        NEW i \in Primaries(g)', NEW k \in Primaries(g)', i # k
                 PROVE  Clearing(g, i, k)'
      BY DEF PairsAreCleared
    <2>0. g \in Watched
      BY <1>6 DEF Watched, ClearOthers
    <2>1. PICK f \in Editor : /\ editor[f].step = "clear" /\ editor[f].group = g
                              /\ editor[f].image \in {i, k}
      BY <1>5, <2>0 DEF GalleryInv, PairsAreCleared, Clearing, Watched
    <2>2. f # e
      BY <1>6, <2>0, <2>1 DEF Watched
    <2>3. QED
      BY <1>1, <2>1, <2>2 DEF Clearing
  <1>8. QED
    BY <1>3, <1>4, <1>7 DEF GalleryInv

\* A save that dies leaves its group to itself, and the others to those who clear them.
LEMMA AbandonKeeps ==
  ASSUME GalleryInv, NEW e \in Editor, Abandon(e)
  PROVE  GalleryInv'
  <1>1. \A f \in Editor \ {e} : editor'[f] = editor[f]
    BY DEF Abandon, Close, GalleryInv, GalleryTypeOK
  <1>2. editor'[e] = NoWork
    BY DEF Abandon, Close, GalleryInv, GalleryTypeOK
  <1>3. GalleryTypeOK'
    <2>1. editor[e].step = "clear" => editor[e].group \in Groups
      BY WorkShapes DEF GalleryInv
    <2>2. QED
      BY <2>1 DEF Abandon, Close, GalleryInv, GalleryTypeOK, Works, Groups
  <1>4. GroupsKnown'
    BY <1>1, <1>2 DEF Abandon, GalleryInv, GroupsKnown, Group, NoWork
  <1>5. PairsAreCleared'
    <2> SUFFICES ASSUME NEW g \in Watched', NEW i \in Primaries(g), NEW k \in Primaries(g), i # k
                 PROVE  Clearing(g, i, k)'
      BY DEF PairsAreCleared, Primaries, Kept, Group, Abandon
    <2>0. g \in Watched /\ ~(editor[e].step = "clear" /\ editor[e].group = g)
      BY DEF Watched, Abandon
    <2>1. PICK f \in Editor : /\ editor[f].step = "clear" /\ editor[f].group = g
                              /\ editor[f].image \in {i, k}
      BY <2>0 DEF GalleryInv, PairsAreCleared, Clearing
    <2>2. QED
      BY <1>1, <2>0, <2>1 DEF Clearing
  <1>6. QED
    BY <1>3, <1>4, <1>5 DEF GalleryInv

\* Images leave groups and join mixed ones; no session moves.
LEMMA OthersKeep ==
  ASSUME GalleryInv, GalleryTypeOK', UNCHANGED editor, mixed \subseteq mixed',
         Watched' \subseteq Watched, \A g \in Watched' : Primaries(g)' \subseteq Primaries(g),
         \A v \in Variant \cup {None} : Group(v)' = Group(v) \/ Group(v)' \in mixed'
  PROVE  GalleryInv'
  <1>1. GroupsKnown'
    <2> SUFFICES ASSUME NEW e \in Editor, editor[e].step = "save"
                 PROVE  LET v == editor[e].row.variant
                        IN  editor[e].group = Group(v)' \/ Group(v)' \in mixed'
      BY DEF GroupsKnown
    <2>1. editor[e].row.variant \in Variant \cup {None}
      BY WorkShapes DEF GalleryInv, Pictures
    <2>2. QED
      BY <2>1 DEF GalleryInv, GroupsKnown
  <1>2. PairsAreCleared'
    BY DEF GalleryInv, PairsAreCleared, Clearing
  <1>3. QED
    BY <1>1, <1>2 DEF GalleryInv

LEMMA GalleryInvStep == GalleryInv /\ [GalleryNext]_galleryVars => GalleryInv'
  <1> SUFFICES ASSUME GalleryInv, [GalleryNext]_galleryVars PROVE GalleryInv'
    OBVIOUS
  <1>1. ASSUME NEW e \in Editor, NEW i \in Image, LookUpload(e, i) PROVE GalleryInv'
    <2>1. PICK v \in Named, p \in BOOLEAN, a \in BOOLEAN :
            LET shown == \E k \in Primaries(Group(v)) : image[k].active
            IN  Open(e, [step |-> "save", image |-> i, group |-> Group(v),
                         row |-> [variant |-> v, primary |-> p \/ ~shown, active |-> a]])
      BY <1>1 DEF LookUpload
    <2>2. PICK q \in BOOLEAN :
            Open(e, [step |-> "save", image |-> i, group |-> Group(v),
                     row |-> [variant |-> v, primary |-> q, active |-> a]])
      BY <2>1
    <2>3. Group(v) \in Groups /\ v \in Variant \cup {None}
      BY GroupsAreGroups DEF Named, GalleryInv
    <2>4. QED
      BY <1>1, <2>2, <2>3, LookKeeps DEF LookUpload, Pictures
  <1>2. ASSUME NEW e \in Editor, NEW i \in Image, LookPatch(e, i) PROVE GalleryInv'
    <2>1. PICK v \in Named \cup {image[i].variant}, p \in BOOLEAN, a \in BOOLEAN :
            Open(e, [step |-> "save", image |-> i, group |-> Group(v),
                     row |-> [variant |-> v, primary |-> p, active |-> a]])
      BY <1>2 DEF LookPatch
    <2>2. v \in Variant \cup {None}
      BY <1>2 DEF LookPatch, Kept, Named, GalleryInv, GalleryTypeOK, Pictures
    <2>3. Group(v) \in Groups
      BY <2>2, GroupsAreGroups DEF GalleryInv
    <2>4. QED
      BY <1>2, <2>1, <2>2, <2>3, LookKeeps DEF LookPatch, Pictures
  <1>3. ASSUME NEW i \in Image, DeleteImage(i) PROVE GalleryInv'
    <2>1. GalleryTypeOK'
      BY <1>3 DEF DeleteImage, GalleryInv, GalleryTypeOK
    <2>2. \A g \in Groups : Primaries(g)' \subseteq Primaries(g)
      BY <1>3 DEF DeleteImage, GalleryInv, GalleryTypeOK, Primaries, Kept, Group
    <2>3. QED
      BY <1>3, <2>1, <2>2, OthersKeep DEF DeleteImage, Group, Watched
  <1>4. ASSUME NEW v \in Variant, NEW c \in Color, Recolor(v, c) PROVE GalleryInv'
    <2>1. GalleryTypeOK'
      BY <1>4 DEF Recolor, GalleryInv, GalleryTypeOK
    <2>2. \A x \in Variant \cup {None} : Group(x)' = Group(x) \/ Group(x)' \in mixed'
      BY <1>4 DEF Recolor, GalleryInv, GalleryTypeOK, Group
    <2>3. Watched' \subseteq Watched /\ \A g \in Watched' : Primaries(g)' \subseteq Primaries(g)
      BY <1>4, <2>2 DEF Recolor, GalleryInv, GalleryTypeOK, Primaries, Kept, Pictures, Watched
    <2>4. QED
      BY <1>4, <2>1, <2>2, <2>3, OthersKeep DEF Recolor
  <1>5. ASSUME NEW v \in Variant, DeleteVariant(v) PROVE GalleryInv'
    <2>1. GalleryTypeOK'
      <3>1. image' \in [Image -> Pictures \cup {None}]
        BY <1>5 DEF DeleteVariant, GalleryInv, GalleryTypeOK, Kept, Pictures
      <3>2. QED
        BY <1>5, <3>1 DEF DeleteVariant, GalleryInv, GalleryTypeOK
    <2>2. \A x \in Variant \cup {None} : Group(x)' = Group(x) \/ Group(x)' \in mixed'
      BY <1>5 DEF DeleteVariant, GalleryInv, GalleryTypeOK, Group
    <2>3. Watched' \subseteq Watched /\ \A g \in Watched' : Primaries(g)' \subseteq Primaries(g)
      BY <1>5, <2>2 DEF DeleteVariant, GalleryInv, GalleryTypeOK, Primaries, Kept, Pictures, Group,
                        Watched
    <2>4. QED
      BY <1>5, <2>1, <2>2, <2>3, OthersKeep DEF DeleteVariant
  <1>6. CASE UNCHANGED galleryVars
    BY <1>6 DEF galleryVars, GalleryInv, GalleryTypeOK, GroupsKnown, PairsAreCleared, Clearing,
                Primaries, Kept, Group, Watched
  <1>7. QED
    BY <1>1, <1>2, <1>3, <1>4, <1>5, <1>6, SaveKeeps, ClearKeeps, AbandonKeeps DEF GalleryNext

LEMMA GalleryInvCorrect == GallerySpec => []GalleryInv
  BY GalleryInvInit, GalleryInvStep, PTL DEF GallerySpec

\* Type correctness, for any number of images and editors.
THEOREM GalleryTypeCorrect == GallerySpec => []GalleryTypeOK
  <1>1. GalleryInv => GalleryTypeOK
    BY DEF GalleryInv
  <1>2. QED
    BY <1>1, GalleryInvCorrect, PTL

\* When the requests that saved a primary are through, their group has one
\* (ProductImage.save), unless a variant of it was edited, or one of them died before it
\* cleared the group and no other has since.
THEOREM OnePrimaryLeft == GallerySpec => []OnePrimary
  <1>1. GalleryInv => OnePrimary
    BY DEF GalleryInv, PairsAreCleared, Clearing, OnePrimary, Settled, Groups, Watched
  <1>2. QED
    BY <1>1, GalleryInvCorrect, PTL

-----------------------------------------------------------------------------
(* Tables.                                                                 *)

\* Rows of R under keys of K.
Tables(K, R) == UNION {[D -> R] : D \in SUBSET K}

LEMMA TableIs ==
  ASSUME NEW K, NEW R, NEW t
  PROVE  t \in Tables(K, R) <=> DOMAIN t \subseteq K /\ t \in [DOMAIN t -> R]
  BY DEF Tables

LEMMA TableMade ==
  ASSUME NEW K, NEW R, NEW D \in SUBSET K, NEW t \in [D -> R]
  PROVE  t \in Tables(K, R) /\ DOMAIN t = D
  BY DEF Tables

LEMMA Merged ==
  ASSUME NEW f, NEW g
  PROVE  /\ DOMAIN (f ++ g) = DOMAIN f \cup DOMAIN g
         /\ \A x \in DOMAIN f : (f ++ g)[x] = f[x]
         /\ \A x \in DOMAIN g \ DOMAIN f : (f ++ g)[x] = g[x]
  BY DEF ++

LEMMA MergedTables ==
  ASSUME NEW K, NEW R, NEW f \in Tables(K, R), NEW g \in Tables(K, R)
  PROVE  f ++ g \in Tables(K, R)
  <1>1. f \in [DOMAIN f -> R] /\ g \in [DOMAIN g -> R] /\ DOMAIN f \cup DOMAIN g \in SUBSET K
    BY TableIs
  <1>2. f ++ g \in [DOMAIN f \cup DOMAIN g -> R]
    BY <1>1 DEF ++
  <1>3. QED
    BY <1>1, <1>2, TableMade

\* A table that has the keys already stays as it is.
LEMMA MergedSame ==
  ASSUME NEW K, NEW R, NEW f \in Tables(K, R), NEW g, DOMAIN g \subseteq DOMAIN f
  PROVE  f ++ g = f
  <1>1. f \in [DOMAIN f -> R]
    BY TableIs
  <1>2. QED
    BY <1>1 DEF ++

LEMMA OnlyOne ==
  ASSUME NEW k, NEW r
  PROVE  DOMAIN Only(k, r) = {k} /\ Only(k, r)[k] = r
  BY DEF Only

-----------------------------------------------------------------------------
(* The tables of the commands.                                             *)

LEMMA CanonIs ==
  /\ DOMAIN SOCK_HEIGHTS = {"no-show", "ankle", "quarter", "half-calf", "calf", "knee-high"}
  /\ DOMAIN COLLECTIONS = {"casual", "sport", "compression", "grippers", "dressy", "cozy"}
  /\ Canon = DOMAIN SOCK_HEIGHTS \cup DOMAIN COLLECTIONS
  /\ \A c \in DOMAIN SOCK_HEIGHTS : ALIASES[c] = SOCK_HEIGHTS[c]
  /\ \A c \in DOMAIN COLLECTIONS : ALIASES[c] = COLLECTIONS[c]
  <1>1. /\ DOMAIN SOCK_HEIGHTS = {"no-show", "ankle", "quarter", "half-calf", "calf", "knee-high"}
        /\ DOMAIN COLLECTIONS = {"casual", "sport", "compression", "grippers", "dressy", "cozy"}
    BY DEF SOCK_HEIGHTS, COLLECTIONS
  <1>2. \A c \in DOMAIN COLLECTIONS : c \notin DOMAIN SOCK_HEIGHTS
    BY <1>1
  <1>3. /\ DOMAIN ALIASES = DOMAIN SOCK_HEIGHTS \cup DOMAIN COLLECTIONS
        /\ \A c \in DOMAIN SOCK_HEIGHTS : ALIASES[c] = SOCK_HEIGHTS[c]
        /\ \A c \in DOMAIN COLLECTIONS \ DOMAIN SOCK_HEIGHTS : ALIASES[c] = COLLECTIONS[c]
    BY Merged DEF ALIASES
  <1>4. \A c \in DOMAIN COLLECTIONS : ALIASES[c] = COLLECTIONS[c]
    BY <1>2, <1>3
  <1>5. Canon = DOMAIN SOCK_HEIGHTS \cup DOMAIN COLLECTIONS
    BY <1>3 DEF Canon
  <1>6. QED
    BY <1>1, <1>3, <1>4, <1>5

LEMMA RootsAre ==
  DOMAIN ROOT_CATEGORIES = {"socks", "women", "men", "kids", "teens", "unisex"}
  BY DEF ROOT_CATEGORIES

LEMMA AliasesAre ==
  /\ Aliases \cap Canon = {} /\ Aliases \cap DOMAIN ROOT_CATEGORIES = {}
  /\ Top \notin Aliases /\ Canon \cap DOMAIN ROOT_CATEGORIES = {}
  /\ \A a \in Aliases : Owner[a] \in Canon
  <1>1. Aliases \cap (Canon \cup DOMAIN ROOT_CATEGORIES) = {}
    BY TablesAreDisjoint
  <1>2. ASSUME NEW a \in Aliases PROVE a # "none"
    <2>1. PICK c \in Canon : a \in ALIASES[c]
      BY DEF Aliases
    <2>2. CASE c \in DOMAIN SOCK_HEIGHTS
      <3>1. ALIASES[c] = SOCK_HEIGHTS[c]
        BY <2>2, CanonIs
      <3>2. "none" \notin SOCK_HEIGHTS[c]
        BY <2>2 DEF SOCK_HEIGHTS
      <3>3. QED
        BY <2>1, <3>1, <3>2
    <2>3. CASE c \in DOMAIN COLLECTIONS
      <3>1. ALIASES[c] = COLLECTIONS[c]
        BY <2>3, CanonIs
      <3>2. "none" \notin COLLECTIONS[c]
        BY <2>3 DEF COLLECTIONS
      <3>3. QED
        BY <2>1, <3>1, <3>2
    <2>4. QED
      BY <2>2, <2>3, CanonIs
  <1>3. Canon \cap DOMAIN ROOT_CATEGORIES = {}
    BY CanonIs, RootsAre
  <1>4. ASSUME NEW a \in Aliases PROVE Owner[a] \in Canon
    BY DEF Owner, Aliases
  <1>5. QED
    BY <1>1, <1>2, <1>3, <1>4 DEF Top

-----------------------------------------------------------------------------
(* The shape of the tables.                                                *)

Slugs ==
  Canon \cup Aliases \cup DOMAIN ROOT_CATEGORIES \cup AUDIENCES \cup HEIGHT_CATEGORIES
  \cup PURPOSE_CATEGORIES \cup CAP_STYLES \cup {"caps"} \cup EditSlugs

Names == COLLAB_PRODUCTS \cup {"PremiumCrew"} \cup EditProducts

Words == {"none", "seed", "staff", "sync"}

CatRow == [parent : Slugs \cup {Top},
           group : {"", "product_family", "audience", "height", "purpose", "style"},
           active : BOOLEAN, words : Words, art : Words]

ProductRow == [tags : SUBSET Slugs, words : Words, pictures : Words]

VariantRow == [product : Names, words : Words]

RowKeys == PeopleRows \cup OfferRows \cup OrderRows \cup RecordRows

Shops == [cat : Tables(Slugs, CatRow), product : Tables(Names, ProductRow),
          variant : Tables(Names, VariantRow),
          rows : Tables(RowKeys, Words), passwords : Words \cup {"own"},
          collab : [words : Words, art : Words, products : SUBSET Names]]

\* The command that ran last would leave the tables as they are.
Rested ==
  /\ last = "seed_data" => SeedData(shop) = shop
  /\ last = "seed_socks" => SeedSocks(shop) = shop
  /\ last = "seed_caps" => SeedCaps(shop) = shop
  /\ last = "seed_collab" => SeedCollab(shop) = shop
  /\ last = "sync" => SyncSockTaxonomy(shop) = shop

\* Types, and what the last command left behind.
TaxInv ==
  /\ shop \in Shops
  /\ last \in {"none", "seed_data", "seed_socks", "seed_caps", "seed_collab", "sync"}
  /\ edits \in Nat
  /\ Rested /\ SyncRepairs

LEMMA ShopIs ==
  ASSUME NEW s \in Shops
  PROVE  /\ s.cat \in Tables(Slugs, CatRow) /\ s.product \in Tables(Names, ProductRow)
         /\ s.rows \in Tables(RowKeys, Words) /\ s.variant \in Tables(Names, VariantRow)
         /\ DOMAIN s.cat \subseteq Slugs /\ DOMAIN s.product \subseteq Names
         /\ DOMAIN s.rows \subseteq RowKeys
         /\ \A c \in DOMAIN s.cat : s.cat[c] \in CatRow
         /\ \A p \in DOMAIN s.product : s.product[p] \in ProductRow
         /\ \A r \in DOMAIN s.rows : s.rows[r] \in Words
  <1>1. /\ s.cat \in Tables(Slugs, CatRow) /\ s.product \in Tables(Names, ProductRow)
        /\ s.rows \in Tables(RowKeys, Words) /\ s.variant \in Tables(Names, VariantRow)
    BY DEF Shops
  <1>2. QED
    BY <1>1, TableIs

-----------------------------------------------------------------------------
(* The seeds.                                                              *)

LEMMA FilledIs ==
  ASSUME NEW a \in Words
  PROVE  Filled(a) \in Words /\ Filled(a) # "none" /\ (a # "none" => Filled(a) = a)
  BY DEF Filled, Words

\* What a seed does to the products: all it names are there, with their tags and
\* pictures, and what was there is kept.
LEMMA ProductsSeeded ==
  ASSUME NEW t \in Tables(Names, ProductRow), NEW spec, DOMAIN spec \subseteq Names,
         \A p \in DOMAIN spec : spec[p] \subseteq Slugs
  PROVE  LET new == SeedProducts(t, spec)
         IN  /\ new \in Tables(Names, ProductRow)
             /\ DOMAIN new = DOMAIN t \cup DOMAIN spec
             /\ \A p \in DOMAIN spec : /\ spec[p] \subseteq new[p].tags
                                       /\ new[p].pictures # "none"
             /\ \A p \in DOMAIN t : /\ t[p].tags \subseteq new[p].tags
                                    /\ new[p].words = t[p].words
                                    /\ t[p].pictures # "none" => new[p].pictures = t[p].pictures
  <1> DEFINE fresh == [p \in DOMAIN spec |-> Product("seed")]
             u == GetOrCreate(t, fresh)
             new == SeedProducts(t, spec)
  <1>1. fresh \in Tables(Names, ProductRow) /\ DOMAIN fresh = DOMAIN spec
    <2>1. Product("seed") \in ProductRow
      BY DEF Product, ProductRow, Words
    <2>2. fresh \in [DOMAIN spec -> ProductRow]
      BY <2>1
    <2> HIDE DEF fresh
    <2>3. QED
      BY <2>2, TableMade
  <1> HIDE DEF fresh
  <1>2. /\ u \in Tables(Names, ProductRow) /\ DOMAIN u = DOMAIN t \cup DOMAIN spec
        /\ \A p \in DOMAIN t : u[p] = t[p]
    BY <1>1, MergedTables, Merged DEF GetOrCreate
  <1>3. u \in [DOMAIN u -> ProductRow] /\ DOMAIN u \subseteq Names
    BY <1>2, TableIs
  <1>4. new = [p \in DOMAIN u |->
                IF p \in DOMAIN spec
                THEN [u[p] EXCEPT !.tags = @ \cup spec[p], !.pictures = Filled(@)]
                ELSE u[p]]
    BY DEF SeedProducts, fresh
  <1> HIDE DEF u, new
  <1>5. ASSUME NEW p \in DOMAIN u
        PROVE  /\ new[p] \in ProductRow
               /\ p \in DOMAIN spec => /\ new[p].tags = u[p].tags \cup spec[p]
                                       /\ new[p].pictures = Filled(u[p].pictures)
               /\ p \notin DOMAIN spec => new[p] = u[p]
               /\ new[p].words = u[p].words
    <2>1. u[p] \in ProductRow
      BY <1>3
    <2>2. Filled(u[p].pictures) \in Words
      BY <2>1, FilledIs DEF ProductRow
    <2>3. CASE p \in DOMAIN spec
      <3>1. new[p] = [u[p] EXCEPT !.tags = @ \cup spec[p], !.pictures = Filled(@)]
        BY <1>4, <2>3
      <3>2. u[p].tags \cup spec[p] \in SUBSET Slugs
        BY <2>1, <2>3 DEF ProductRow
      <3>3. QED
        BY <2>1, <2>2, <2>3, <3>1, <3>2 DEF ProductRow
    <2>4. CASE p \notin DOMAIN spec
      BY <1>4, <2>1, <2>4
    <2>5. QED
      BY <2>3, <2>4
  <1>6. new \in Tables(Names, ProductRow) /\ DOMAIN new = DOMAIN t \cup DOMAIN spec
    <2>1. new \in [DOMAIN u -> ProductRow]
      BY <1>4, <1>5
    <2>2. QED
      BY <1>2, <1>3, <2>1, TableMade
  <1>7. ASSUME NEW p \in DOMAIN spec
        PROVE  spec[p] \subseteq new[p].tags /\ new[p].pictures # "none"
    <2>1. u[p] \in ProductRow /\ p \in DOMAIN u
      BY <1>2, <1>3
    <2>2. Filled(u[p].pictures) # "none"
      BY <2>1, FilledIs DEF ProductRow
    <2>3. QED
      BY <1>5, <2>1, <2>2
  <1>8. ASSUME NEW p \in DOMAIN t
        PROVE  /\ t[p].tags \subseteq new[p].tags /\ new[p].words = t[p].words
               /\ t[p].pictures # "none" => new[p].pictures = t[p].pictures
    <2>1. u[p] = t[p] /\ u[p] \in ProductRow /\ p \in DOMAIN u
      BY <1>2, <1>3
    <2>2. u[p].pictures # "none" => Filled(u[p].pictures) = u[p].pictures
      BY <2>1, FilledIs DEF ProductRow
    <2>3. QED
      BY <1>5, <2>1, <2>2
  <1>9. QED
    BY <1>6, <1>7, <1>8 DEF new

\* Products that a seed has seeded stay as they are.
LEMMA ProductsSettled ==
  ASSUME NEW t \in Tables(Names, ProductRow), NEW spec, DOMAIN spec \subseteq DOMAIN t,
         \A p \in DOMAIN spec : /\ spec[p] \subseteq t[p].tags
                                /\ t[p].pictures # "none"
  PROVE  SeedProducts(t, spec) = t
  <1>1. t \in [DOMAIN t -> ProductRow]
    BY TableIs
  <1>2. GetOrCreate(t, [p \in DOMAIN spec |-> Product("seed")]) = t
    BY MergedSame DEF GetOrCreate
  <1>3. SeedProducts(t, spec) =
          [p \in DOMAIN t |->
            IF p \in DOMAIN spec
            THEN [t[p] EXCEPT !.tags = @ \cup spec[p], !.pictures = Filled(@)]
            ELSE t[p]]
    BY <1>2 DEF SeedProducts
  <1>4. ASSUME NEW p \in DOMAIN spec
        PROVE  [t[p] EXCEPT !.tags = @ \cup spec[p], !.pictures = Filled(@)] = t[p]
    <2>1. t[p] \in ProductRow
      BY <1>1
    <2>2. Filled(t[p].pictures) = t[p].pictures
      BY <2>1, FilledIs DEF ProductRow
    <2>3. t[p].tags \cup spec[p] = t[p].tags
      OBVIOUS
    <2>4. QED
      BY <2>1, <2>2, <2>3 DEF ProductRow
  <1>5. QED
    BY <1>1, <1>3, <1>4

LEMMA RowsSeeded ==
  ASSUME NEW t \in Tables(RowKeys, Words), NEW keys \in SUBSET RowKeys
  PROVE  /\ Seeded(t, keys) \in Tables(RowKeys, Words)
         /\ DOMAIN Seeded(t, keys) = DOMAIN t \cup keys
         /\ \A r \in DOMAIN t : Seeded(t, keys)[r] = t[r]
         /\ keys \subseteq DOMAIN t => Seeded(t, keys) = t
  <1> DEFINE new == [k \in keys |-> "seed"]
  <1>1. new \in Tables(RowKeys, Words) /\ DOMAIN new = keys
    <2>1. new \in [keys -> Words]
      BY DEF Words
    <2> HIDE DEF new
    <2>2. QED
      BY <2>1, TableMade
  <1>2. Seeded(t, keys) = t ++ new
    BY DEF Seeded, GetOrCreate
  <1> HIDE DEF new
  <1>3. t ++ new \in Tables(RowKeys, Words)
    BY <1>1, MergedTables
  <1>4. DOMAIN (t ++ new) = DOMAIN t \cup keys /\ \A r \in DOMAIN t : (t ++ new)[r] = t[r]
    BY <1>1, Merged
  <1>5. keys \subseteq DOMAIN t => t ++ new = t
    BY <1>1, MergedSame
  <1>6. QED
    BY <1>2, <1>3, <1>4, <1>5

\* Categories under slugs, a parent and a group of the code.
LEMMA CategoryIs ==
  ASSUME NEW parent \in Slugs \cup {Top}, NEW group \in {"product_family", "audience", "height",
                                                        "purpose", "style"},
         NEW words \in Words
  PROVE  Category(parent, group, words) \in CatRow
  BY DEF Category, CatRow, Words

LEMMA CategoriesAre ==
  ASSUME NEW slugs \in SUBSET Slugs, NEW parent \in Slugs \cup {Top},
         NEW group \in {"product_family", "audience", "height", "purpose", "style"}
  PROVE  /\ Categories(slugs, parent, group) \in Tables(Slugs, CatRow)
         /\ DOMAIN Categories(slugs, parent, group) = slugs
  <1>1. Category(parent, group, "seed") \in CatRow
    BY CategoryIs DEF Words
  <1>2. Categories(slugs, parent, group) \in [slugs -> CatRow]
    BY <1>1 DEF Categories
  <1>3. QED
    BY <1>2, TableMade

\* What a seed keeps of what was there: passwords are not spoken of.
Keeps(s, n) ==
  /\ \A c \in DOMAIN s.cat : Completes(n.cat[c], s.cat[c])
  /\ \A p \in DOMAIN s.product :
       /\ n.product[p].words = s.product[p].words
       /\ s.product[p].pictures # "none" => n.product[p].pictures = s.product[p].pictures
       /\ s.product[p].tags \subseteq n.product[p].tags
  /\ \A k \in DOMAIN s.variant : n.variant[k] = s.variant[k]
  /\ \A r \in DOMAIN s.rows : n.rows[r] = s.rows[r]
  /\ n.collab = s.collab

\* A category that is left alone has its blanks left alone.
LEMMA CompletesItself ==
  ASSUME NEW r \in CatRow
  PROVE  Completes(r, r)
  BY DEF Completes, CatRow

LEMMA CompletesTwice ==
  ASSUME NEW a \in CatRow, NEW b, NEW c, Completes(b, a), Completes(c, b)
  PROVE  Completes(c, a)
  BY DEF Completes, CatRow

\* A shop with other tables of the same kind.
With(s, cat, product) == [s EXCEPT !.cat = cat, !.product = product]

WithRows(s, rows, word) == [s EXCEPT !.rows = rows, !.passwords = word]

LEMMA WithIs ==
  ASSUME NEW s \in Shops, NEW cat \in Tables(Slugs, CatRow),
         NEW product \in Tables(Names, ProductRow)
  PROVE  LET n == With(s, cat, product)
         IN  /\ n \in Shops /\ n.cat = cat /\ n.product = product
             /\ n.rows = s.rows /\ n.passwords = s.passwords /\ n.collab = s.collab
             /\ n.variant = s.variant
             /\ (cat = s.cat /\ product = s.product) => n = s
  BY DEF Shops, With

LEMMA WithRowsIs ==
  ASSUME NEW s \in Shops, NEW rows \in Tables(RowKeys, Words), NEW word \in Words \cup {"own"}
  PROVE  LET n == WithRows(s, rows, word)
         IN  /\ n \in Shops /\ n.rows = rows /\ n.passwords = word
             /\ n.cat = s.cat /\ n.product = s.product /\ n.collab = s.collab
             /\ n.variant = s.variant
             /\ (rows = s.rows /\ word = s.passwords) => n = s
  BY DEF Shops, WithRows

\* Variants under the SKUs of a seed: those that are there are left, whoever wrote them.
LEMMA VariantsSeeded ==
  ASSUME NEW s \in Shops, NEW spec, DOMAIN spec \subseteq Names
  PROVE  LET n == SeedVariants(s, spec)
         IN  /\ n \in Shops /\ n.cat = s.cat /\ n.product = s.product /\ n.rows = s.rows
             /\ n.passwords = s.passwords /\ n.collab = s.collab
             /\ DOMAIN spec \subseteq DOMAIN n.variant
             /\ \A k \in DOMAIN s.variant : n.variant[k] = s.variant[k]
             /\ DOMAIN spec \subseteq DOMAIN s.variant => n = s
  <1> DEFINE new == [p \in DOMAIN spec |-> VariantOf(p, "seed")]
             variant == s.variant ++ new
             n == [s EXCEPT !.variant = variant]
  <1>1. new \in Tables(Names, VariantRow) /\ DOMAIN new = DOMAIN spec
    <2>1. new \in [DOMAIN spec -> VariantRow]
      BY DEF VariantOf, VariantRow, Words
    <2> HIDE DEF new
    <2>2. QED
      BY <2>1, TableMade
  <1>2. s.variant \in Tables(Names, VariantRow)
    BY ShopIs
  <1>3. SeedVariants(s, spec) = n
    BY DEF SeedVariants, GetOrCreate
  <1> HIDE DEF new
  <1>4. /\ variant \in Tables(Names, VariantRow) /\ DOMAIN variant = DOMAIN s.variant \cup DOMAIN spec
        /\ \A k \in DOMAIN s.variant : variant[k] = s.variant[k]
    <2>1. s.variant ++ new \in Tables(Names, VariantRow)
      BY <1>1, <1>2, MergedTables
    <2>2. /\ DOMAIN (s.variant ++ new) = DOMAIN s.variant \cup DOMAIN new
          /\ \A k \in DOMAIN s.variant : (s.variant ++ new)[k] = s.variant[k]
      BY Merged
    <2>3. QED
      BY <1>1, <2>1, <2>2
  <1>5. DOMAIN spec \subseteq DOMAIN s.variant => variant = s.variant
    BY <1>1, <1>2, MergedSame
  <1> HIDE DEF variant
  <1>6. /\ n \in Shops /\ n.variant = variant /\ n.cat = s.cat /\ n.product = s.product
        /\ n.rows = s.rows /\ n.passwords = s.passwords /\ n.collab = s.collab
        /\ variant = s.variant => n = s
    BY <1>4 DEF Shops
  <1>7. QED
    BY <1>3, <1>4, <1>5, <1>6

\* The two categories of seed_data.
DataCategories ==
  Only("socks", Category(Top, "product_family", "seed"))
  ++ Only("calf", Category("socks", "height", "seed"))

LEMMA DataAre ==
  /\ DataCategories \in Tables(Slugs, CatRow) /\ DOMAIN DataCategories = {"socks", "calf"}
  /\ DOMAIN DATA_PRODUCTS = {"PremiumCrew"} /\ DOMAIN DATA_PRODUCTS \subseteq Names
  /\ \A p \in DOMAIN DATA_PRODUCTS : DATA_PRODUCTS[p] \subseteq Slugs
  <1>1. "socks" \in Slugs /\ "calf" \in Slugs
    BY CanonIs, RootsAre DEF Slugs
  <1>2. /\ Category(Top, "product_family", "seed") \in CatRow
        /\ Category("socks", "height", "seed") \in CatRow
    BY <1>1, CategoryIs DEF Words
  <1>3. /\ Only("socks", Category(Top, "product_family", "seed")) \in Tables(Slugs, CatRow)
        /\ Only("calf", Category("socks", "height", "seed")) \in Tables(Slugs, CatRow)
    BY <1>1, <1>2, TableIs, OnlyOne DEF Only
  <1>4. DataCategories \in Tables(Slugs, CatRow) /\ DOMAIN DataCategories = {"socks", "calf"}
    <2> DEFINE f == Only("socks", Category(Top, "product_family", "seed"))
               g == Only("calf", Category("socks", "height", "seed"))
    <2>1. f \in Tables(Slugs, CatRow) /\ g \in Tables(Slugs, CatRow)
      BY <1>3
    <2>2. DOMAIN f = {"socks"} /\ DOMAIN g = {"calf"}
      BY OnlyOne
    <2> HIDE DEF f, g
    <2>3. f ++ g \in Tables(Slugs, CatRow)
      BY <2>1, MergedTables
    <2>4. DOMAIN (f ++ g) = {"socks"} \cup {"calf"}
      BY <2>2, Merged
    <2>5. DataCategories = f ++ g
      BY DEF DataCategories, f, g
    <2>6. QED
      BY <2>3, <2>4, <2>5
  <1>5. DATA_PRODUCTS["PremiumCrew"] = {"socks", "calf"} /\ DOMAIN DATA_PRODUCTS = {"PremiumCrew"}
    BY OnlyOne DEF DATA_PRODUCTS
  <1>6. QED
    BY <1>1, <1>4, <1>5 DEF Names

CatalogThere(s) == /\ GetOrCreate(s.cat, DataCategories) = s.cat
                   /\ SeedProducts(s.product, DATA_PRODUCTS) = s.product
                   /\ DOMAIN DATA_PRODUCTS \subseteq DOMAIN s.variant

LEMMA CatalogIs ==
  ASSUME NEW s \in Shops
  PROVE  /\ SeedCatalog(s) = SeedVariants(With(s, GetOrCreate(s.cat, DataCategories),
                                                  SeedProducts(s.product, DATA_PRODUCTS)),
                                          DATA_PRODUCTS)
         /\ CatalogThere(s) => SeedCatalog(s) = s
  <1>1. SeedCatalog(s) = SeedVariants(With(s, GetOrCreate(s.cat, DataCategories),
                                              SeedProducts(s.product, DATA_PRODUCTS)),
                                      DATA_PRODUCTS)
    BY DEF SeedCatalog, With, DataCategories
  <1>2. With(s, s.cat, s.product) = s
    BY ShopIs, WithIs
  <1>3. CatalogThere(s) => SeedVariants(s, DATA_PRODUCTS) = s
    BY DataAre, VariantsSeeded DEF CatalogThere
  <1>4. QED
    BY <1>1, <1>2, <1>3 DEF CatalogThere

LEMMA CatalogSeeded ==
  ASSUME NEW s \in Shops
  PROVE  LET n == SeedCatalog(s)
         IN  /\ n \in Shops /\ n.rows = s.rows /\ n.passwords = s.passwords
             /\ Keeps(s, n) /\ CatalogThere(n)
  <1> DEFINE cat == GetOrCreate(s.cat, DataCategories)
             product == SeedProducts(s.product, DATA_PRODUCTS)
             m == With(s, cat, product)
             n == SeedVariants(m, DATA_PRODUCTS)
  <1>1. SeedCatalog(s) = n
    BY CatalogIs
  <1>2. /\ cat \in Tables(Slugs, CatRow) /\ DOMAIN cat = DOMAIN s.cat \cup {"socks", "calf"}
        /\ \A c \in DOMAIN s.cat : cat[c] = s.cat[c]
    BY ShopIs, DataAre, Merged, MergedTables DEF GetOrCreate
  <1>3. /\ product \in Tables(Names, ProductRow)
        /\ DOMAIN product = DOMAIN s.product \cup DOMAIN DATA_PRODUCTS
        /\ \A p \in DOMAIN DATA_PRODUCTS : /\ DATA_PRODUCTS[p] \subseteq product[p].tags
                                           /\ product[p].pictures # "none"
        /\ \A p \in DOMAIN s.product : /\ s.product[p].tags \subseteq product[p].tags
                                       /\ product[p].words = s.product[p].words
                                       /\ s.product[p].pictures # "none"
                                            => product[p].pictures = s.product[p].pictures
    BY ShopIs, DataAre, ProductsSeeded
  <1> HIDE DEF cat, product
  <1>4. /\ m \in Shops /\ m.cat = cat /\ m.product = product /\ m.variant = s.variant
        /\ m.rows = s.rows /\ m.passwords = s.passwords /\ m.collab = s.collab
    BY <1>2, <1>3, WithIs
  <1> HIDE DEF m
  <1>5. /\ n \in Shops /\ n.cat = cat /\ n.product = product /\ n.rows = s.rows
        /\ n.passwords = s.passwords /\ n.collab = s.collab
        /\ DOMAIN DATA_PRODUCTS \subseteq DOMAIN n.variant
        /\ \A k \in DOMAIN s.variant : n.variant[k] = s.variant[k]
    BY <1>4, DataAre, VariantsSeeded
  <1> HIDE DEF n
  <1>6. \A c \in DOMAIN s.cat : Completes(cat[c], s.cat[c])
    BY <1>2, ShopIs, CompletesItself
  <1>7. Keeps(s, n)
    BY <1>3, <1>5, <1>6 DEF Keeps
  <1>8. CatalogThere(n)
    BY <1>2, <1>3, <1>5, DataAre, MergedSame, ProductsSettled DEF GetOrCreate, CatalogThere
  <1>9. QED
    BY <1>1, <1>5, <1>7, <1>8

\* The other steps of seed_data add rows, keep the others, and are over when their
\* rows are there.
AddsRows(s, n, keys, word) ==
  /\ n \in Shops /\ n.passwords = word /\ n.cat = s.cat /\ n.product = s.product
  /\ n.variant = s.variant /\ n.collab = s.collab
  /\ DOMAIN n.rows = DOMAIN s.rows \cup keys
  /\ \A r \in DOMAIN s.rows : n.rows[r] = s.rows[r]
  /\ (keys \subseteq DOMAIN s.rows /\ word = s.passwords) => n = s

LEMMA RowsAdded ==
  ASSUME NEW s \in Shops, NEW keys \in SUBSET RowKeys, NEW word \in Words \cup {"own"}
  PROVE  AddsRows(s, WithRows(s, Seeded(s.rows, keys), word), keys, word)
  <1>1. s.rows \in Tables(RowKeys, Words)
    BY ShopIs
  <1>2. /\ Seeded(s.rows, keys) \in Tables(RowKeys, Words)
        /\ DOMAIN Seeded(s.rows, keys) = DOMAIN s.rows \cup keys
        /\ \A r \in DOMAIN s.rows : Seeded(s.rows, keys)[r] = s.rows[r]
        /\ keys \subseteq DOMAIN s.rows => Seeded(s.rows, keys) = s.rows
    BY <1>1, RowsSeeded
  <1>3. QED
    BY <1>2, WithRowsIs DEF AddsRows

LEMMA RowSeeds ==
  ASSUME NEW s \in Shops
  PROVE  /\ AddsRows(s, SeedPeople(s), PeopleRows, "seed")
         /\ AddsRows(s, SeedOffers(s), OfferRows, s.passwords)
         /\ AddsRows(s, SeedOrder(s), OrderRows, s.passwords)
         /\ AddsRows(s, SeedRecords(s), RecordRows, s.passwords)
  <1>1. /\ SeedPeople(s) = WithRows(s, Seeded(s.rows, PeopleRows), "seed")
        /\ SeedOffers(s) = WithRows(s, Seeded(s.rows, OfferRows), s.passwords)
        /\ SeedOrder(s) = WithRows(s, Seeded(s.rows, OrderRows), s.passwords)
        /\ SeedRecords(s) = WithRows(s, Seeded(s.rows, RecordRows), s.passwords)
    BY DEF SeedPeople, SeedOffers, SeedOrder, SeedRecords, WithRows, Shops
  <1>2. /\ PeopleRows \in SUBSET RowKeys /\ OfferRows \in SUBSET RowKeys
        /\ OrderRows \in SUBSET RowKeys /\ RecordRows \in SUBSET RowKeys
    BY DEF RowKeys
  <1>3. "seed" \in Words \cup {"own"} /\ s.passwords \in Words \cup {"own"}
    BY DEF Words, Shops
  <1>4. AddsRows(s, SeedPeople(s), PeopleRows, "seed")
    BY <1>1, <1>2, <1>3, RowsAdded
  <1>5. AddsRows(s, SeedOffers(s), OfferRows, s.passwords)
    BY <1>1, <1>2, <1>3, RowsAdded
  <1>6. AddsRows(s, SeedOrder(s), OrderRows, s.passwords)
    BY <1>1, <1>2, <1>3, RowsAdded
  <1>7. AddsRows(s, SeedRecords(s), RecordRows, s.passwords)
    BY <1>1, <1>2, <1>3, RowsAdded
  <1>8. QED
    BY <1>4, <1>5, <1>6, <1>7

LEMMA DataSeeded ==
  ASSUME NEW s \in Shops
  PROVE  LET n == SeedData(s)
         IN  n \in Shops /\ Keeps(s, n) /\ SeedData(n) = n
  <1> DEFINE a == SeedPeople(s)
             b == SeedCatalog(a)
             c == SeedOffers(b)
             d == SeedOrder(c)
             n == SeedRecords(d)
  <1>1. a \in Shops /\ AddsRows(s, a, PeopleRows, "seed")
    BY RowSeeds DEF AddsRows
  <1> HIDE DEF a
  <1>2. /\ b \in Shops /\ b.rows = a.rows /\ b.passwords = a.passwords
        /\ Keeps(a, b) /\ CatalogThere(b)
    BY <1>1, CatalogSeeded
  <1> HIDE DEF b
  <1>3. c \in Shops /\ AddsRows(b, c, OfferRows, b.passwords)
    BY <1>2, RowSeeds DEF AddsRows
  <1> HIDE DEF c
  <1>4. d \in Shops /\ AddsRows(c, d, OrderRows, c.passwords)
    BY <1>3, RowSeeds DEF AddsRows
  <1> HIDE DEF d
  <1>5. n \in Shops /\ AddsRows(d, n, RecordRows, d.passwords)
    BY <1>4, RowSeeds DEF AddsRows
  <1>6. SeedData(s) = n
    BY DEF SeedData, a, b, c, d
  <1> HIDE DEF n
  <1>7. Keeps(s, n)
    BY <1>1, <1>2, <1>3, <1>4, <1>5 DEF Keeps, AddsRows
  <1>8. /\ PeopleRows \subseteq DOMAIN n.rows /\ OfferRows \subseteq DOMAIN n.rows
        /\ OrderRows \subseteq DOMAIN n.rows /\ RecordRows \subseteq DOMAIN n.rows
        /\ n.passwords = "seed" /\ n.cat = b.cat /\ n.product = b.product
        /\ n.variant = b.variant
    BY <1>1, <1>2, <1>3, <1>4, <1>5 DEF AddsRows
  <1>9. SeedPeople(n) = n /\ SeedOffers(n) = n /\ SeedOrder(n) = n /\ SeedRecords(n) = n
    BY <1>5, <1>8, RowSeeds DEF AddsRows
  <1>10. SeedCatalog(n) = n
    BY <1>2, <1>5, <1>8, CatalogIs DEF CatalogThere
  <1>11. QED
    BY <1>5, <1>6, <1>7, <1>9, <1>10 DEF SeedData

\* Artwork, and a group if it had none, for the category of key k.
LEMMA ArtFilled ==
  ASSUME NEW t \in Tables(Slugs, CatRow), NEW k \in DOMAIN t
  PROVE  LET new == [t EXCEPT ![k].art = Filled(@)]
         IN  /\ new \in Tables(Slugs, CatRow) /\ DOMAIN new = DOMAIN t
             /\ \A c \in DOMAIN t : Completes(new[c], t[c])
             /\ new[k].art # "none"
             /\ t[k].art # "none" => new = t
  <1> DEFINE new == [t EXCEPT ![k].art = Filled(@)]
  <1>1. t \in [DOMAIN t -> CatRow] /\ DOMAIN t \in SUBSET Slugs
    BY TableIs
  <1>2. t[k] \in CatRow /\ Filled(t[k].art) \in Words /\ Filled(t[k].art) # "none"
    BY <1>1, FilledIs DEF CatRow
  <1>3. new \in [DOMAIN t -> CatRow]
    BY <1>1, <1>2 DEF CatRow
  <1>4. \A c \in DOMAIN t : Completes(new[c], t[c])
    <2>1. t[k].art # "none" => Filled(t[k].art) = t[k].art
      BY <1>1, FilledIs DEF CatRow
    <2>2. \A c \in DOMAIN t : new[c] = IF c = k THEN [t[k] EXCEPT !.art = Filled(t[k].art)] ELSE t[c]
      BY <1>1
    <2>3. QED
      BY <1>1, <1>2, <2>1, <2>2 DEF CatRow, Completes
  <1>5. new[k].art # "none"
    BY <1>1, <1>2 DEF CatRow
  <1>6. ASSUME t[k].art # "none" PROVE new = t
    <2>1. Filled(t[k].art) = t[k].art
      BY <1>1, <1>6, FilledIs DEF CatRow
    <2>2. QED
      BY <1>1, <1>2, <2>1 DEF CatRow
  <1> HIDE DEF new
  <1>7. new \in Tables(Slugs, CatRow) /\ DOMAIN new = DOMAIN t
    BY <1>1, <1>3, TableMade
  <1>8. QED
    BY <1>4, <1>5, <1>6, <1>7 DEF new

LEMMA GroupFilled ==
  ASSUME NEW t \in Tables(Slugs, CatRow), NEW k \in DOMAIN t
  PROVE  LET new == [t EXCEPT ![k].group = IF @ = "" THEN "product_family" ELSE @]
         IN  /\ new \in Tables(Slugs, CatRow) /\ DOMAIN new = DOMAIN t
             /\ \A c \in DOMAIN t : Completes(new[c], t[c]) /\ new[c].art = t[c].art
             /\ new[k].group # ""
             /\ t[k].group # "" => new = t
  <1> DEFINE g == IF t[k].group = "" THEN "product_family" ELSE t[k].group
             new == [t EXCEPT ![k].group = g]
  <1>1. t \in [DOMAIN t -> CatRow] /\ DOMAIN t \in SUBSET Slugs
    BY TableIs
  <1>2. /\ t[k] \in CatRow /\ g # ""
        /\ g \in {"", "product_family", "audience", "height", "purpose", "style"}
    BY <1>1 DEF CatRow
  <1>0. t[k].group # "" => g = t[k].group
    OBVIOUS
  <1>9. new = [t EXCEPT ![k].group = IF @ = "" THEN "product_family" ELSE @]
    OBVIOUS
  <1> HIDE DEF g
  <1>3. new \in [DOMAIN t -> CatRow]
    BY <1>1, <1>2 DEF CatRow
  <1>4. \A c \in DOMAIN t : Completes(new[c], t[c]) /\ new[c].art = t[c].art
    <2>1. \A c \in DOMAIN t : new[c] = IF c = k THEN [t[k] EXCEPT !.group = g] ELSE t[c]
      BY <1>1
    <2>2. QED
      BY <1>0, <1>1, <1>2, <2>1 DEF CatRow, Completes
  <1>5. new[k].group # ""
    BY <1>1, <1>2 DEF CatRow
  <1>6. t[k].group # "" => new = t
    BY <1>0, <1>1, <1>2 DEF CatRow
  <1> HIDE DEF new
  <1>7. new \in Tables(Slugs, CatRow) /\ DOMAIN new = DOMAIN t
    BY <1>1, <1>3, TableMade
  <1>8. QED
    BY <1>4, <1>5, <1>6, <1>7, <1>9

SocksCategories ==
  Categories(AUDIENCES, Top, "audience") ++ Categories(HEIGHT_CATEGORIES, "socks", "height")
  ++ Categories(PURPOSE_CATEGORIES, "socks", "purpose")

CapsCategories ==
  Categories(AUDIENCES, Top, "audience") ++ Categories(CAP_STYLES, "caps", "style")

LEMMA SeedCategoriesAre ==
  /\ SocksCategories \in Tables(Slugs, CatRow)
  /\ CapsCategories \in Tables(Slugs, CatRow)
  /\ Categories({"caps"}, Top, "product_family") \in Tables(Slugs, CatRow)
  /\ DOMAIN Categories({"caps"}, Top, "product_family") = {"caps"}
  <1>0. /\ AUDIENCES \in SUBSET Slugs /\ HEIGHT_CATEGORIES \in SUBSET Slugs
        /\ PURPOSE_CATEGORIES \in SUBSET Slugs /\ CAP_STYLES \in SUBSET Slugs
        /\ {"caps"} \in SUBSET Slugs /\ Top \in Slugs \cup {Top}
        /\ "socks" \in Slugs \cup {Top} /\ "caps" \in Slugs \cup {Top}
    BY RootsAre DEF Slugs
  <1>1. /\ Categories(AUDIENCES, Top, "audience") \in Tables(Slugs, CatRow)
        /\ Categories(HEIGHT_CATEGORIES, "socks", "height") \in Tables(Slugs, CatRow)
        /\ Categories(PURPOSE_CATEGORIES, "socks", "purpose") \in Tables(Slugs, CatRow)
        /\ Categories(CAP_STYLES, "caps", "style") \in Tables(Slugs, CatRow)
        /\ Categories({"caps"}, Top, "product_family") \in Tables(Slugs, CatRow)
        /\ DOMAIN Categories({"caps"}, Top, "product_family") = {"caps"}
    BY <1>0, CategoriesAre
  <1>2. SocksCategories \in Tables(Slugs, CatRow)
    BY <1>1, MergedTables DEF SocksCategories
  <1>3. CapsCategories \in Tables(Slugs, CatRow)
    BY <1>1, MergedTables DEF CapsCategories
  <1>4. QED
    BY <1>1, <1>2, <1>3

LEMMA SeedProductsAre ==
  /\ DOMAIN SOCK_PRODUCTS \subseteq Names /\ DOMAIN CAP_PRODUCTS \subseteq Names
  /\ \A p \in DOMAIN SOCK_PRODUCTS : SOCK_PRODUCTS[p] \subseteq Slugs
  /\ \A p \in DOMAIN CAP_PRODUCTS : CAP_PRODUCTS[p] \subseteq Slugs
  <1>1. DOMAIN SOCK_PRODUCTS \subseteq Names /\ DOMAIN CAP_PRODUCTS \subseteq Names
    BY DEF Names, COLLAB_PRODUCTS
  <1>2. {"socks", "women", "men", "kids", "unisex", "no-show", "crew-socks", "knee-high", "casual",
         "compression", "caps"} \cup CAP_STYLES \subseteq Slugs
    BY RootsAre DEF Slugs, HEIGHT_CATEGORIES, PURPOSE_CATEGORIES
  <1>3. \A p \in DOMAIN SOCK_PRODUCTS :
          SOCK_PRODUCTS[p] \subseteq {"socks", "women", "men", "kids", "unisex", "no-show",
                                      "crew-socks", "knee-high", "casual", "compression", "caps"}
    BY DEF SOCK_PRODUCTS
  <1>4. \A p \in DOMAIN CAP_PRODUCTS :
          CAP_PRODUCTS[p] \subseteq {"caps", "women", "men", "kids", "unisex"} \cup CAP_STYLES
    BY DEF CAP_PRODUCTS, CAP_STYLES
  <1>5. QED
    BY <1>1, <1>2, <1>3, <1>4

\* The tables of seed_socks, and when it has nothing to do.
SocksCat(t) == GetOrCreate([t EXCEPT !["socks"].art = Filled(@)], SocksCategories)

LEMMA SocksSeeded ==
  ASSUME NEW s \in Shops, "socks" \in DOMAIN s.cat
  PROVE  LET n == SeedSocks(s)
         IN  n \in Shops /\ Keeps(s, n) /\ n.passwords = s.passwords /\ SeedSocks(n) = n
  <1>1. \A t \in Shops : SeedSocks(t) =
          SeedVariants(With(t, SocksCat(t.cat), SeedProducts(t.product, SOCK_PRODUCTS)), SOCK_PRODUCTS)
    BY DEF SeedSocks, With, SocksCategories, SocksCat
  <1> DEFINE root == [s.cat EXCEPT !["socks"].art = Filled(@)]
             cat == SocksCat(s.cat)
             product == SeedProducts(s.product, SOCK_PRODUCTS)
             m == With(s, cat, product)
             n == SeedVariants(m, SOCK_PRODUCTS)
  <1>2. /\ root \in Tables(Slugs, CatRow) /\ DOMAIN root = DOMAIN s.cat
        /\ \A c \in DOMAIN s.cat : Completes(root[c], s.cat[c])
        /\ root["socks"].art # "none"
    BY ShopIs, ArtFilled
  <1>3. cat = root ++ SocksCategories
    BY DEF SocksCat, GetOrCreate
  <1> HIDE DEF root, cat, product
  <1>4. /\ cat \in Tables(Slugs, CatRow) /\ DOMAIN s.cat \subseteq DOMAIN cat
        /\ DOMAIN SocksCategories \subseteq DOMAIN cat
        /\ \A c \in DOMAIN s.cat : Completes(cat[c], s.cat[c])
        /\ cat["socks"].art # "none"
    <2>1. cat \in Tables(Slugs, CatRow)
      BY <1>2, <1>3, SeedCategoriesAre, MergedTables
    <2>d. /\ DOMAIN (root ++ SocksCategories) = DOMAIN root \cup DOMAIN SocksCategories
          /\ \A c \in DOMAIN root : (root ++ SocksCategories)[c] = root[c]
      BY Merged
    <2>2. /\ DOMAIN cat = DOMAIN s.cat \cup DOMAIN SocksCategories
          /\ \A c \in DOMAIN s.cat : cat[c] = root[c]
      BY <1>2, <1>3, <2>d
    <2>3. QED
      BY <1>2, <2>1, <2>2
  <1>5. /\ product \in Tables(Names, ProductRow)
        /\ DOMAIN product = DOMAIN s.product \cup DOMAIN SOCK_PRODUCTS
        /\ \A p \in DOMAIN SOCK_PRODUCTS : /\ SOCK_PRODUCTS[p] \subseteq product[p].tags
                                           /\ product[p].pictures # "none"
        /\ \A p \in DOMAIN s.product : /\ s.product[p].tags \subseteq product[p].tags
                                       /\ product[p].words = s.product[p].words
                                       /\ s.product[p].pictures # "none"
                                            => product[p].pictures = s.product[p].pictures
    BY ShopIs, SeedProductsAre, ProductsSeeded DEF product
  <1>6. SeedSocks(s) = n
    BY <1>1 DEF cat, product
  <1>m. /\ m \in Shops /\ m.cat = cat /\ m.product = product /\ m.rows = s.rows
        /\ m.variant = s.variant /\ m.collab = s.collab /\ m.passwords = s.passwords
    BY <1>4, <1>5, WithIs
  <1> HIDE DEF m
  <1>7. /\ n \in Shops /\ n.cat = cat /\ n.product = product /\ n.rows = s.rows
        /\ n.collab = s.collab /\ n.passwords = s.passwords
        /\ DOMAIN SOCK_PRODUCTS \subseteq DOMAIN n.variant
        /\ \A k \in DOMAIN s.variant : n.variant[k] = s.variant[k]
    BY <1>m, SeedProductsAre, VariantsSeeded
  <1> HIDE DEF n
  <1>8. Keeps(s, n)
    BY <1>4, <1>5, <1>7 DEF Keeps
  <1>9. SocksCat(cat) = cat
    <2>1. [cat EXCEPT !["socks"].art = Filled(@)] = cat
      BY <1>4, ArtFilled
    <2>2. QED
      BY <1>4, <2>1, MergedSame DEF SocksCat, GetOrCreate
  <1>10. SeedProducts(product, SOCK_PRODUCTS) = product
    BY <1>5, ProductsSettled
  <1>11. SeedSocks(n) = n
    <2>1. With(n, SocksCat(n.cat), SeedProducts(n.product, SOCK_PRODUCTS)) = n
      BY <1>4, <1>5, <1>7, <1>9, <1>10, WithIs
    <2>2. SeedVariants(n, SOCK_PRODUCTS) = n
      BY <1>7, SeedProductsAre, VariantsSeeded
    <2>3. QED
      BY <1>1, <1>7, <2>1, <2>2
  <1>12. QED
    BY <1>6, <1>7, <1>8, <1>11

\* The tables of seed_caps.
CapsRoot(t) == [t EXCEPT !["caps"].art = Filled(@),
                         !["caps"].group = IF @ = "" THEN "product_family" ELSE @]

CapsCat(t) ==
  GetOrCreate(CapsRoot(GetOrCreate(t, Categories({"caps"}, Top, "product_family"))), CapsCategories)

LEMMA CapsSeeded ==
  ASSUME NEW s \in Shops
  PROVE  LET n == SeedCaps(s)
         IN  n \in Shops /\ Keeps(s, n) /\ n.passwords = s.passwords /\ SeedCaps(n) = n
  <1>1. \A t \in Shops : SeedCaps(t) =
          SeedVariants(With(t, CapsCat(t.cat), SeedProducts(t.product, CAP_PRODUCTS)), CAP_PRODUCTS)
    BY DEF SeedCaps, With, CapsCategories, CapsCat, CapsRoot
  <1> DEFINE only == Categories({"caps"}, Top, "product_family")
             caps == GetOrCreate(s.cat, only)
             art == [caps EXCEPT !["caps"].art = Filled(@)]
             root == CapsRoot(caps)
             cat == CapsCat(s.cat)
             product == SeedProducts(s.product, CAP_PRODUCTS)
             m == With(s, cat, product)
             n == SeedVariants(m, CAP_PRODUCTS)
  <1>2. /\ caps \in Tables(Slugs, CatRow) /\ "caps" \in DOMAIN caps
        /\ DOMAIN s.cat \subseteq DOMAIN caps /\ \A c \in DOMAIN s.cat : caps[c] = s.cat[c]
    <2>1. caps = s.cat ++ only /\ s.cat \in Tables(Slugs, CatRow)
      BY ShopIs DEF GetOrCreate
    <2>2. only \in Tables(Slugs, CatRow) /\ DOMAIN only = {"caps"}
      BY SeedCategoriesAre
    <2> HIDE DEF caps, only
    <2>3. /\ DOMAIN (s.cat ++ only) = DOMAIN s.cat \cup DOMAIN only
          /\ \A c \in DOMAIN s.cat : (s.cat ++ only)[c] = s.cat[c]
      BY Merged
    <2>4. s.cat ++ only \in Tables(Slugs, CatRow)
      BY <2>1, <2>2, MergedTables
    <2>5. QED
      BY <2>1, <2>2, <2>3, <2>4
  <1>r. \A t \in Tables(Slugs, CatRow) : "caps" \in DOMAIN t =>
          LET u == [t EXCEPT !["caps"].art = Filled(@)]
          IN  CapsRoot(t) = [u EXCEPT !["caps"].group = IF @ = "" THEN "product_family" ELSE @]
    <2> SUFFICES ASSUME NEW t \in Tables(Slugs, CatRow), "caps" \in DOMAIN t
                 PROVE  LET u == [t EXCEPT !["caps"].art = Filled(@)]
                        IN  CapsRoot(t) =
                              [u EXCEPT !["caps"].group = IF @ = "" THEN "product_family" ELSE @]
      OBVIOUS
    <2>1. t \in [DOMAIN t -> CatRow]
      BY TableIs
    <2>2. QED
      BY <2>1 DEF CapsRoot, CatRow
  <1> HIDE DEF caps, only
  <1>3. /\ art \in Tables(Slugs, CatRow) /\ DOMAIN art = DOMAIN caps
        /\ \A c \in DOMAIN caps : Completes(art[c], caps[c])
        /\ art["caps"].art # "none"
    BY <1>2, ArtFilled
  <1>4. root = [art EXCEPT !["caps"].group = IF @ = "" THEN "product_family" ELSE @]
    BY <1>2, <1>r
  <1> HIDE DEF art, root
  <1>5. /\ root \in Tables(Slugs, CatRow) /\ DOMAIN root = DOMAIN caps
        /\ \A c \in DOMAIN caps : Completes(root[c], art[c])
        /\ root["caps"].art # "none" /\ root["caps"].group # ""
    BY <1>2, <1>3, <1>4, GroupFilled
  <1>6. cat = root ++ CapsCategories
    BY DEF CapsCat, GetOrCreate, root, caps, only
  <1> HIDE DEF cat, product
  <1>7. /\ cat \in Tables(Slugs, CatRow) /\ DOMAIN s.cat \subseteq DOMAIN cat
        /\ DOMAIN CapsCategories \subseteq DOMAIN cat /\ "caps" \in DOMAIN cat
        /\ \A c \in DOMAIN s.cat : Completes(cat[c], s.cat[c])
        /\ cat["caps"].art # "none" /\ cat["caps"].group # ""
    <2>1. cat \in Tables(Slugs, CatRow)
      BY <1>5, <1>6, SeedCategoriesAre, MergedTables
    <2>d. /\ DOMAIN (root ++ CapsCategories) = DOMAIN root \cup DOMAIN CapsCategories
          /\ \A c \in DOMAIN root : (root ++ CapsCategories)[c] = root[c]
      BY Merged
    <2>2. /\ DOMAIN cat = DOMAIN caps \cup DOMAIN CapsCategories
          /\ \A c \in DOMAIN caps : cat[c] = root[c]
      BY <1>5, <1>6, <2>d
    <2>3. \A c \in DOMAIN s.cat : Completes(cat[c], s.cat[c])
      <3> SUFFICES ASSUME NEW c \in DOMAIN s.cat PROVE Completes(cat[c], s.cat[c])
        OBVIOUS
      <3>1. s.cat[c] \in CatRow /\ caps[c] = s.cat[c] /\ c \in DOMAIN caps
        BY <1>2, ShopIs
      <3>2. Completes(art[c], s.cat[c]) /\ Completes(cat[c], art[c])
        BY <1>3, <1>5, <2>2, <3>1
      <3>3. QED
        BY <3>1, <3>2, CompletesTwice
    <2>4. QED
      BY <1>2, <1>5, <2>1, <2>2, <2>3
  <1>8. /\ product \in Tables(Names, ProductRow)
        /\ DOMAIN product = DOMAIN s.product \cup DOMAIN CAP_PRODUCTS
        /\ \A p \in DOMAIN CAP_PRODUCTS : /\ CAP_PRODUCTS[p] \subseteq product[p].tags
                                          /\ product[p].pictures # "none"
        /\ \A p \in DOMAIN s.product : /\ s.product[p].tags \subseteq product[p].tags
                                       /\ product[p].words = s.product[p].words
                                       /\ s.product[p].pictures # "none"
                                            => product[p].pictures = s.product[p].pictures
    BY ShopIs, SeedProductsAre, ProductsSeeded DEF product
  <1>9. SeedCaps(s) = n
    BY <1>1 DEF cat, product
  <1>m. /\ m \in Shops /\ m.cat = cat /\ m.product = product /\ m.rows = s.rows
        /\ m.variant = s.variant /\ m.collab = s.collab /\ m.passwords = s.passwords
    BY <1>7, <1>8, WithIs
  <1> HIDE DEF m
  <1>10. /\ n \in Shops /\ n.cat = cat /\ n.product = product /\ n.rows = s.rows
         /\ n.collab = s.collab /\ n.passwords = s.passwords
         /\ DOMAIN CAP_PRODUCTS \subseteq DOMAIN n.variant
         /\ \A k \in DOMAIN s.variant : n.variant[k] = s.variant[k]
    BY <1>m, SeedProductsAre, VariantsSeeded
  <1> HIDE DEF n
  <1>11. Keeps(s, n)
    BY <1>7, <1>8, <1>10 DEF Keeps
  <1>12. CapsCat(cat) = cat
    <2>1. GetOrCreate(cat, Categories({"caps"}, Top, "product_family")) = cat
      BY <1>7, SeedCategoriesAre, MergedSame DEF GetOrCreate
    <2>2. [cat EXCEPT !["caps"].art = Filled(@)] = cat
      BY <1>7, ArtFilled
    <2>3. [cat EXCEPT !["caps"].group = IF @ = "" THEN "product_family" ELSE @] = cat
      BY <1>7, GroupFilled
    <2>4. CapsRoot(cat) = cat
      BY <1>7, <1>r, <2>2, <2>3
    <2>5. GetOrCreate(cat, CapsCategories) = cat
      BY <1>7, MergedSame DEF GetOrCreate
    <2>6. QED
      BY <2>1, <2>4, <2>5 DEF CapsCat
  <1>13. SeedProducts(product, CAP_PRODUCTS) = product
    BY <1>8, ProductsSettled
  <1>14. SeedCaps(n) = n
    <2>1. SeedCaps(n) = SeedVariants(With(n, n.cat, n.product), CAP_PRODUCTS)
      BY <1>1, <1>10, <1>12, <1>13
    <2>2. n.cat \in Tables(Slugs, CatRow) /\ n.product \in Tables(Names, ProductRow)
      BY <1>7, <1>8, <1>10
    <2>3. With(n, n.cat, n.product) = n
      BY <1>10, <2>2, WithIs
    <2>4. SeedVariants(n, CAP_PRODUCTS) = n
      BY <1>10, SeedProductsAre, VariantsSeeded
    <2>5. QED
      BY <2>1, <2>3, <2>4
  <1>15. QED
    BY <1>9, <1>10, <1>11, <1>14

LEMMA CollabSeeded ==
  ASSUME NEW s \in Shops
  PROVE  SeedCollab(s) \in Shops /\ SeedCollab(SeedCollab(s)) = SeedCollab(s)
  <1>1. s.collab \in [words : Words, art : Words, products : SUBSET Names]
    BY DEF Shops
  <1>2. Filled(s.collab.art) \in Words /\ Filled(Filled(s.collab.art)) = Filled(s.collab.art)
    BY <1>1, FilledIs
  <1> DEFINE c == [words |-> "seed", art |-> Filled(s.collab.art),
                   products |-> COLLAB_PRODUCTS \cap DOMAIN s.product]
             n == [s EXCEPT !.collab = c]
  <1>3. c \in [words : Words, art : Words, products : SUBSET Names]
    BY <1>2 DEF Words, Names
  <1>4. SeedCollab(s) = n
    BY DEF SeedCollab
  <1>5. c = [words |-> "seed", art |-> Filled(c.art), products |-> COLLAB_PRODUCTS \cap DOMAIN s.product]
    BY <1>2
  <1> HIDE DEF c
  <1>6. n \in Shops /\ n.collab = c /\ n.product = s.product
    BY <1>3 DEF Shops
  <1>7. SeedCollab(n) = [n EXCEPT !.collab = c]
    BY <1>5, <1>6 DEF SeedCollab
  <1>8. [n EXCEPT !.collab = c] = n
    BY <1>6 DEF Shops
  <1>9. QED
    BY <1>4, <1>6, <1>7, <1>8

-----------------------------------------------------------------------------
(* sync_sock_taxonomy.                                                     *)

\* What a row has when sync has written it: everything but its artwork.
IsNormal(entry, parent, group) ==
  entry.parent = parent /\ entry.group = group /\ entry.active = TRUE /\ entry.words = "sync"

LEMMA SameRow ==
  ASSUME NEW a \in CatRow, NEW b \in CatRow, a.parent = b.parent, a.group = b.group,
         a.active = b.active, a.words = b.words, a.art = b.art
  PROVE  a = b
  <1>1. a = [parent |-> a.parent, group |-> a.group, active |-> a.active, words |-> a.words,
             art |-> a.art]
    BY DEF CatRow
  <1>2. b = [parent |-> b.parent, group |-> b.group, active |-> b.active, words |-> b.words,
             art |-> b.art]
    BY DEF CatRow
  <1>3. QED
    BY <1>1, <1>2

LEMMA NormalIs ==
  ASSUME NEW cat \in Tables(Slugs, CatRow), NEW slug, NEW parent \in Slugs \cup {Top},
         NEW group \in {"product_family", "audience", "height", "purpose", "style"}
  PROVE  /\ Normal(cat, slug, parent, group) \in CatRow
         /\ IsNormal(Normal(cat, slug, parent, group), parent, group)
         /\ slug \in DOMAIN cat /\ IsNormal(cat[slug], parent, group)
              => Normal(cat, slug, parent, group) = cat[slug]
  <1> DEFINE art == IF slug \in DOMAIN cat THEN cat[slug].art ELSE "none"
  <1>1. cat \in [DOMAIN cat -> CatRow]
    BY TableIs
  <1>2. art \in Words
    BY <1>1 DEF CatRow, Words
  <1> DEFINE new == [Category(parent, group, "sync") EXCEPT !.art = art]
  <1>3. Normal(cat, slug, parent, group) = new
    <2>1. Category(parent, group, "sync").art = "none"
      BY DEF Category
    <2>2. QED
      BY <2>1 DEF Normal
  <1>4. slug \in DOMAIN cat => art = cat[slug].art
    OBVIOUS
  <1> HIDE DEF art
  <1>5. "sync" \in Words
    BY DEF Words
  <1>6. /\ new \in CatRow /\ new.art = art /\ new.parent = parent /\ new.group = group
        /\ new.active = TRUE /\ new.words = "sync"
    <2> DEFINE old == Category(parent, group, "sync")
    <2>1. old \in CatRow
      BY <1>5, CategoryIs
    <2>2. /\ old.parent = parent /\ old.group = group /\ old.active = TRUE /\ old.words = "sync"
      BY DEF Category
    <2> HIDE DEF old
    <2>3. QED
      BY <1>2, <2>1, <2>2 DEF CatRow, old
  <1> HIDE DEF new
  <1>7. new \in CatRow /\ IsNormal(new, parent, group)
    BY <1>6 DEF IsNormal
  <1>8. ASSUME slug \in DOMAIN cat, IsNormal(cat[slug], parent, group)
        PROVE  new = cat[slug]
    <2>1. cat[slug] \in CatRow
      BY <1>1, <1>8
    <2>2. QED
      BY <1>4, <1>6, <1>8, <2>1, SameRow DEF IsNormal
  <1>9. QED
    BY <1>3, <1>7, <1>8

GroupOf(c) == IF c \in DOMAIN SOCK_HEIGHTS THEN "height" ELSE "purpose"

LEMMA SlugsAre ==
  /\ DOMAIN ROOT_CATEGORIES \subseteq Slugs /\ Canon \subseteq Slugs /\ Aliases \subseteq Slugs
  /\ "socks" \in Slugs /\ "socks" \in DOMAIN ROOT_CATEGORIES /\ ROOT_CATEGORIES["socks"] = "product_family"
  /\ \A r \in DOMAIN ROOT_CATEGORIES : ROOT_CATEGORIES[r] \in {"product_family", "audience"}
  <1>1. /\ "socks" \in DOMAIN ROOT_CATEGORIES /\ ROOT_CATEGORIES["socks"] = "product_family"
        /\ \A r \in DOMAIN ROOT_CATEGORIES : ROOT_CATEGORIES[r] \in {"product_family", "audience"}
    BY DEF ROOT_CATEGORIES
  <1>2. QED
    BY <1>1 DEF Slugs

LEMMA RootsEnsured ==
  ASSUME NEW cat \in Tables(Slugs, CatRow)
  PROVE  LET new == EnsureRoots(cat)
         IN  /\ new \in Tables(Slugs, CatRow)
             /\ DOMAIN new = DOMAIN ROOT_CATEGORIES \cup DOMAIN cat
             /\ \A r \in DOMAIN ROOT_CATEGORIES : new[r] = Normal(cat, r, Top, ROOT_CATEGORIES[r])
             /\ \A x \in DOMAIN cat \ DOMAIN ROOT_CATEGORIES : new[x] = cat[x]
  <1> DEFINE roots == [r \in DOMAIN ROOT_CATEGORIES |-> Normal(cat, r, Top, ROOT_CATEGORIES[r])]
  <1>1. ASSUME NEW r \in DOMAIN ROOT_CATEGORIES
        PROVE  Normal(cat, r, Top, ROOT_CATEGORIES[r]) \in CatRow
    <2>1. ROOT_CATEGORIES[r] \in {"product_family", "audience", "height", "purpose", "style"}
      BY SlugsAre
    <2>2. QED
      BY <2>1, NormalIs
  <1>2. roots \in [DOMAIN ROOT_CATEGORIES -> CatRow] /\ DOMAIN roots = DOMAIN ROOT_CATEGORIES
    BY <1>1
  <1>3. \A r \in DOMAIN ROOT_CATEGORIES : roots[r] = Normal(cat, r, Top, ROOT_CATEGORIES[r])
    OBVIOUS
  <1>4. EnsureRoots(cat) = roots ++ cat
    BY DEF EnsureRoots
  <1> HIDE DEF roots
  <1>5. roots \in Tables(Slugs, CatRow)
    BY <1>2, SlugsAre, TableMade
  <1>6. roots ++ cat \in Tables(Slugs, CatRow)
    BY <1>5, MergedTables
  <1>7. /\ DOMAIN (roots ++ cat) = DOMAIN roots \cup DOMAIN cat
        /\ \A x \in DOMAIN roots : (roots ++ cat)[x] = roots[x]
        /\ \A x \in DOMAIN cat \ DOMAIN roots : (roots ++ cat)[x] = cat[x]
    BY Merged
  <1>8. QED
    BY <1>2, <1>3, <1>4, <1>6, <1>7

LEMMA ChildrenEnsured ==
  ASSUME NEW cat \in Tables(Slugs, CatRow)
  PROVE  LET new == EnsureSockChildren(cat)
         IN  /\ new \in Tables(Slugs, CatRow)
             /\ DOMAIN new = Canon \cup DOMAIN cat
             /\ \A c \in Canon : new[c] = Normal(cat, c, "socks", GroupOf(c))
             /\ \A x \in DOMAIN cat \ Canon : new[x] = cat[x]
  <1> DEFINE children == [c \in Canon |-> Normal(cat, c, "socks", GroupOf(c))]
  <1>1. ASSUME NEW c \in Canon
        PROVE  Normal(cat, c, "socks", GroupOf(c)) \in CatRow
    <2>1. GroupOf(c) \in {"product_family", "audience", "height", "purpose", "style"}
      BY DEF GroupOf
    <2>2. "socks" \in Slugs \cup {Top}
      BY SlugsAre
    <2>3. QED
      BY <2>1, <2>2, NormalIs
  <1>2. children \in [Canon -> CatRow] /\ DOMAIN children = Canon
    BY <1>1
  <1>3. \A c \in Canon : children[c] = Normal(cat, c, "socks", GroupOf(c))
    OBVIOUS
  <1>4. EnsureSockChildren(cat) = children ++ cat
    BY DEF EnsureSockChildren, GroupOf
  <1> HIDE DEF children
  <1>5. children \in Tables(Slugs, CatRow)
    BY <1>2, SlugsAre, TableMade
  <1>6. children ++ cat \in Tables(Slugs, CatRow)
    BY <1>5, MergedTables
  <1>7. /\ DOMAIN (children ++ cat) = DOMAIN children \cup DOMAIN cat
        /\ \A x \in DOMAIN children : (children ++ cat)[x] = children[x]
        /\ \A x \in DOMAIN cat \ DOMAIN children : (children ++ cat)[x] = cat[x]
    BY Merged
  <1>8. QED
    BY <1>2, <1>3, <1>4, <1>6, <1>7

\* Aliases take the slugs of entries that have no row.
LEMMA RenamesAliases ==
  ASSUME NEW cat
  PROVE  LET new == AliasesToRename(cat)
         IN  /\ DOMAIN new \subseteq Aliases
             /\ \A a \in DOMAIN new : new[a] \in Canon
             /\ Canon \subseteq DOMAIN cat => DOMAIN new = {}
  <1> DEFINE Here(c) == ALIASES[c] \cap DOMAIN cat
             bare == {c \in Canon \ DOMAIN cat : Here(c) # {}}
             taken == [c \in bare |-> CHOOSE a \in Here(c) : TRUE]
             new == [a \in {taken[c] : c \in bare} |-> Owner[a]]
  <1>1. AliasesToRename(cat) = new
    BY DEF AliasesToRename
  <1>2. ASSUME NEW c \in bare PROVE taken[c] \in Aliases
    <2>1. taken[c] \in ALIASES[c]
      OBVIOUS
    <2>2. QED
      BY <2>1 DEF Aliases
  <1>3. Canon \subseteq DOMAIN cat => bare = {}
    OBVIOUS
  <1> HIDE DEF taken, bare
  <1>4. DOMAIN new = {taken[c] : c \in bare} /\ \A a \in DOMAIN new : new[a] = Owner[a]
    OBVIOUS
  <1> HIDE DEF new
  <1>5. QED
    BY <1>1, <1>2, <1>3, <1>4, AliasesAre

NewSlug(new, x) == IF x \in DOMAIN new THEN new[x] ELSE x

RenamesTo(s, new, n) ==
  /\ DOMAIN n.cat = {NewSlug(new, y) : y \in DOMAIN s.cat}
  /\ \A x \in DOMAIN n.cat : \E y \in DOMAIN s.cat :
       x = NewSlug(new, y) /\ n.cat[x] = [s.cat[y] EXCEPT !.parent = NewSlug(new, @)]
  /\ DOMAIN new = {} => n = s

LEMMA RenamedIs ==
  ASSUME NEW s \in Shops, NEW new, \A x \in DOMAIN new : new[x] \in Slugs
  PROVE  Renamed(s, new) \in Shops /\ RenamesTo(s, new, Renamed(s, new))
  <1> DEFINE cat == [x \in {NewSlug(new, y) : y \in DOMAIN s.cat} |->
                      [s.cat[CHOOSE y \in DOMAIN s.cat : NewSlug(new, y) = x]
                        EXCEPT !.parent = NewSlug(new, @)]]
             product == [p \in DOMAIN s.product |->
                          [s.product[p] EXCEPT !.tags = {NewSlug(new, t) : t \in s.product[p].tags}]]
  <1>1. Renamed(s, new) = With(s, cat, product)
    BY DEF Renamed, With, NewSlug
  <1>2. /\ s.cat \in [DOMAIN s.cat -> CatRow] /\ DOMAIN s.cat \subseteq Slugs
        /\ s.product \in [DOMAIN s.product -> ProductRow] /\ DOMAIN s.product \subseteq Names
    BY ShopIs, TableIs
  <1>3. \A x \in Slugs : NewSlug(new, x) \in Slugs
    BY DEF NewSlug
  <1>4. \A x \in Slugs \cup {Top} : NewSlug(new, x) \in Slugs \cup {Top}
    BY DEF NewSlug
  <1>5. DOMAIN new = {} => \A x : NewSlug(new, x) = x
    BY DEF NewSlug
  <1> HIDE DEF NewSlug
  <1>6. ASSUME NEW x \in DOMAIN cat
        PROVE  /\ \E y \in DOMAIN s.cat :
                    x = NewSlug(new, y) /\ cat[x] = [s.cat[y] EXCEPT !.parent = NewSlug(new, @)]
               /\ cat[x] \in CatRow /\ x \in Slugs
               /\ DOMAIN new = {} => x \in DOMAIN s.cat /\ cat[x] = s.cat[x]
    <2> DEFINE y == CHOOSE y \in DOMAIN s.cat : NewSlug(new, y) = x
    <2>1. y \in DOMAIN s.cat /\ NewSlug(new, y) = x
      OBVIOUS
    <2>2. cat[x] = [s.cat[y] EXCEPT !.parent = NewSlug(new, @)]
      OBVIOUS
    <2> HIDE DEF y, cat
    <2>3. s.cat[y] \in CatRow
      BY <1>2, <2>1
    <2>4. NewSlug(new, s.cat[y].parent) \in Slugs \cup {Top}
      BY <1>4, <2>3 DEF CatRow
    <2>5. cat[x] \in CatRow
      BY <2>2, <2>3, <2>4 DEF CatRow
    <2>6. ASSUME DOMAIN new = {} PROVE x \in DOMAIN s.cat /\ cat[x] = s.cat[x]
      <3>1. y = x /\ NewSlug(new, s.cat[y].parent) = s.cat[y].parent
        BY <1>5, <2>1, <2>6
      <3>2. QED
        BY <2>1, <2>2, <2>3, <3>1 DEF CatRow
    <2>7. QED
      BY <1>2, <1>3, <2>1, <2>2, <2>5, <2>6
  <1>7. DOMAIN cat = {NewSlug(new, y) : y \in DOMAIN s.cat}
    OBVIOUS
  <1>8. cat \in [DOMAIN cat -> CatRow]
    BY <1>6
  <1> HIDE DEF cat
  <1>9. cat \in Tables(Slugs, CatRow)
    BY <1>6, <1>8, TableIs
  <1>10. ASSUME NEW p \in DOMAIN s.product
         PROVE  /\ product[p] = [s.product[p] EXCEPT !.tags = {NewSlug(new, t) : t \in s.product[p].tags}]
                /\ product[p] \in ProductRow
                /\ DOMAIN new = {} => product[p] = s.product[p]
    <2>1. product[p] = [s.product[p] EXCEPT !.tags = {NewSlug(new, t) : t \in s.product[p].tags}]
      OBVIOUS
    <2> HIDE DEF product
    <2>2. s.product[p] \in ProductRow
      BY <1>2
    <2> DEFINE moved == {NewSlug(new, t) : t \in s.product[p].tags}
    <2>3. moved \in SUBSET Slugs
      BY <1>3, <2>2 DEF ProductRow
    <2>4. DOMAIN new = {} => moved = s.product[p].tags
      BY <1>5
    <2>5. product[p] = [s.product[p] EXCEPT !.tags = moved]
      BY <2>1
    <2> HIDE DEF moved
    <2>6. product[p] \in ProductRow
      BY <2>2, <2>3, <2>5 DEF ProductRow
    <2>7. DOMAIN new = {} => product[p] = s.product[p]
      BY <2>2, <2>4, <2>5 DEF ProductRow
    <2>8. QED
      BY <2>1, <2>6, <2>7
  <1>11. DOMAIN product = DOMAIN s.product /\ product \in [DOMAIN s.product -> ProductRow]
    BY <1>10
  <1> HIDE DEF product
  <1>12. product \in Tables(Names, ProductRow)
    BY <1>2, <1>11, TableMade
  <1>13. ASSUME DOMAIN new = {} PROVE cat = s.cat /\ product = s.product
    <2>1. DOMAIN cat = DOMAIN s.cat
      BY <1>5, <1>7, <1>13
    <2>2. cat = s.cat
      BY <1>2, <1>6, <1>8, <1>13, <2>1
    <2>4. \A p \in DOMAIN s.product : product[p] = s.product[p]
      BY <1>10, <1>13
    <2>3. product = s.product
      BY <1>2, <1>11, <2>4
    <2>5. QED
      BY <2>2, <2>3
  <1> DEFINE n == With(s, cat, product)
  <1>14. /\ n \in Shops /\ n.cat = cat /\ n.product = product
         /\ (cat = s.cat /\ product = s.product) => n = s
    BY <1>9, <1>12, WithIs
  <1> HIDE DEF n
  <1>15. Renamed(s, new) = n
    BY <1>1 DEF n
  <1>16. DOMAIN n.cat = {NewSlug(new, y) : y \in DOMAIN s.cat}
    BY <1>7, <1>14
  <1>17. \A x \in DOMAIN n.cat : \E y \in DOMAIN s.cat :
           x = NewSlug(new, y) /\ n.cat[x] = [s.cat[y] EXCEPT !.parent = NewSlug(new, @)]
    BY <1>6, <1>14
  <1>19. QED
    BY <1>13, <1>14, <1>15, <1>16, <1>17 DEF RenamesTo

\* Heights and purposes that are not the table's.
Away(x, entry) == x \in Aliases \/ (entry.group \in {"height", "purpose"} /\ x \notin Canon)

PutAway(full) ==
  [x \in DOMAIN full |-> IF Away(x, full[x]) THEN [full[x] EXCEPT !.active = FALSE] ELSE full[x]]

Retagged(product) == [p \in DOMAIN product |-> [product[p] EXCEPT !.tags = SyncTags(@)]]

\* What sync leaves: the roots and the table's entries as it writes them, the rest put
\* away, and no product with an alias or with a height or purpose and not socks.
Repaired(s) ==
  /\ \A r \in DOMAIN ROOT_CATEGORIES :
       r \in DOMAIN s.cat /\ IsNormal(s.cat[r], Top, ROOT_CATEGORIES[r])
  /\ \A c \in Canon : c \in DOMAIN s.cat /\ IsNormal(s.cat[c], "socks", GroupOf(c))
  /\ \A x \in DOMAIN s.cat : Away(x, s.cat[x]) => s.cat[x].active = FALSE
  /\ \A p \in DOMAIN s.product :
       /\ s.product[p].tags \cap Aliases = {}
       /\ s.product[p].tags \cap Canon # {} => "socks" \in s.product[p].tags

LEMMA PutAwayIs ==
  ASSUME NEW full \in Tables(Slugs, CatRow)
  PROVE  LET new == PutAway(full)
         IN  /\ new \in Tables(Slugs, CatRow) /\ DOMAIN new = DOMAIN full
             /\ \A x \in DOMAIN full :
                  /\ new[x].group = full[x].group
                  /\ Away(x, full[x]) => new[x].active = FALSE
                  /\ ~Away(x, full[x]) => new[x] = full[x]
             /\ (\A x \in DOMAIN full : Away(x, full[x]) => full[x].active = FALSE) => new = full
  <1> DEFINE new == PutAway(full)
  <1>1. full \in [DOMAIN full -> CatRow] /\ DOMAIN full \subseteq Slugs
    BY TableIs
  <1>2. /\ DOMAIN new = DOMAIN full
        /\ \A x \in DOMAIN full :
             new[x] = IF Away(x, full[x]) THEN [full[x] EXCEPT !.active = FALSE] ELSE full[x]
        /\ new = [x \in DOMAIN full |-> new[x]]
    BY DEF PutAway
  <1> HIDE DEF new
  <1>3. ASSUME NEW x \in DOMAIN full
        PROVE  /\ new[x] \in CatRow /\ new[x].group = full[x].group
               /\ Away(x, full[x]) => new[x].active = FALSE
               /\ ~Away(x, full[x]) => new[x] = full[x]
               /\ full[x].active = FALSE => new[x] = full[x]
    <2>1. full[x] \in CatRow
      BY <1>1
    <2>2. CASE Away(x, full[x])
      <3>1. new[x] = [full[x] EXCEPT !.active = FALSE]
        BY <1>2, <2>2
      <3>2. /\ new[x] \in CatRow /\ new[x].group = full[x].group /\ new[x].active = FALSE
            /\ new[x].parent = full[x].parent /\ new[x].words = full[x].words
            /\ new[x].art = full[x].art
        BY <2>1, <3>1 DEF CatRow
      <3>3. full[x].active = FALSE => new[x] = full[x]
        BY <2>1, <3>2, SameRow
      <3>4. QED
        BY <2>2, <3>2, <3>3
    <2>3. CASE ~Away(x, full[x])
      <3>1. new[x] = full[x]
        BY <1>2, <2>3
      <3>2. QED
        BY <2>1, <2>3, <3>1
    <2>4. QED
      BY <2>2, <2>3
  <1>4. new \in [DOMAIN full -> CatRow]
    BY <1>2, <1>3
  <1>5. new \in Tables(Slugs, CatRow)
    BY <1>1, <1>4, TableMade
  <1>6. ASSUME \A x \in DOMAIN full : Away(x, full[x]) => full[x].active = FALSE
        PROVE  new = full
    <2>1. \A x \in DOMAIN full : new[x] = full[x]
      BY <1>3, <1>6
    <2>2. QED
      BY <1>1, <1>4, <2>1
  <1>7. QED
    BY <1>2, <1>3, <1>5, <1>6 DEF new

LEMMA TagsSynced ==
  ASSUME NEW tags \in SUBSET Slugs
  PROVE  /\ SyncTags(tags) \in SUBSET Slugs /\ SyncTags(tags) \cap Aliases = {}
         /\ SyncTags(tags) \cap Canon # {} => "socks" \in SyncTags(tags)
         /\ tags \cap Aliases = {} /\ (tags \cap Canon # {} => "socks" \in tags)
              => SyncTags(tags) = tags
  <1> DEFINE merged == MergeAlias(tags)
  <1>1. ASSUME NEW t \in merged PROVE t \in Slugs /\ t \notin Aliases
    <2>1. PICK old \in tags : t = IF old \in Aliases THEN Owner[old] ELSE old
      BY DEF MergeAlias
    <2>2. QED
      BY <2>1, AliasesAre, SlugsAre
  <1>2. tags \cap Aliases = {} => merged = tags
    BY DEF MergeAlias
  <1> HIDE DEF merged
  <1>3. SyncTags(tags) = merged \cup (IF merged \cap Canon = {} THEN {} ELSE {"socks"})
    BY DEF SyncTags, Tagged, merged
  <1>4. "socks" \in Slugs /\ "socks" \notin Aliases /\ "socks" \notin Canon
    BY SlugsAre, AliasesAre
  <1>5. QED
    BY <1>1, <1>2, <1>3, <1>4

LEMMA RetaggedIs ==
  ASSUME NEW t \in Tables(Names, ProductRow)
  PROVE  LET new == Retagged(t)
         IN  /\ new \in Tables(Names, ProductRow) /\ DOMAIN new = DOMAIN t
             /\ \A p \in DOMAIN t : new[p].tags = SyncTags(t[p].tags)
             /\ (\A p \in DOMAIN t : SyncTags(t[p].tags) = t[p].tags) => new = t
  <1> DEFINE new == Retagged(t)
  <1>1. t \in [DOMAIN t -> ProductRow] /\ DOMAIN t \subseteq Names
    BY TableIs
  <1>2. new = [p \in DOMAIN t |-> [t[p] EXCEPT !.tags = SyncTags(t[p].tags)]]
    BY DEF Retagged
  <1> HIDE DEF new
  <1>3. ASSUME NEW p \in DOMAIN t
        PROVE  /\ new[p] \in ProductRow /\ new[p].tags = SyncTags(t[p].tags)
               /\ SyncTags(t[p].tags) = t[p].tags => new[p] = t[p]
    <2>1. t[p] \in ProductRow
      BY <1>1
    <2>2. SyncTags(t[p].tags) \in SUBSET Slugs
      <3>1. t[p].tags \in SUBSET Slugs
        BY <2>1 DEF ProductRow
      <3>2. QED
        BY <3>1, TagsSynced
    <2>3. new[p] = [t[p] EXCEPT !.tags = SyncTags(t[p].tags)]
      BY <1>2
    <2>4. new[p] \in ProductRow /\ new[p].tags = SyncTags(t[p].tags)
      BY <2>1, <2>2, <2>3 DEF ProductRow
    <2>5. SyncTags(t[p].tags) = t[p].tags => new[p] = t[p]
      BY <2>1, <2>3 DEF ProductRow
    <2>6. QED
      BY <2>4, <2>5
  <1>4. new \in [DOMAIN t -> ProductRow]
    BY <1>2, <1>3
  <1>5. new \in Tables(Names, ProductRow) /\ DOMAIN new = DOMAIN t
    BY <1>1, <1>4, TableMade
  <1>6. ASSUME \A p \in DOMAIN t : SyncTags(t[p].tags) = t[p].tags PROVE new = t
    <2>1. \A p \in DOMAIN t : new[p] = t[p]
      BY <1>3, <1>6
    <2>2. QED
      BY <1>1, <1>4, <2>1
  <1>7. QED
    BY <1>3, <1>5, <1>6 DEF new

\* The shop after the roots and the renames.
Rooted(s) == With(s, EnsureRoots(s.cat), s.product)

NamedShop(s) == Renamed(Rooted(s), AliasesToRename(Rooted(s).cat))

LEMMA SyncIs ==
  ASSUME NEW s \in Shops
  PROVE  SyncSockTaxonomy(s) =
           With(NamedShop(s), PutAway(EnsureSockChildren(NamedShop(s).cat)), Retagged(NamedShop(s).product))
  <1>1. [s EXCEPT !.cat = EnsureRoots(s.cat)] = Rooted(s)
    BY DEF Rooted, With, Shops
  <1>2. SyncSockTaxonomy(s) =
          LET rooted == [s EXCEPT !.cat = EnsureRoots(s.cat)]
              named == Renamed(rooted, AliasesToRename(rooted.cat))
          IN  With(named, PutAway(EnsureSockChildren(named.cat)), Retagged(named.product))
    BY DEF SyncSockTaxonomy, With, PutAway, Away, Retagged
  <1>3. QED
    BY <1>1, <1>2 DEF NamedShop

LEMMA NamedShopIs ==
  ASSUME NEW s \in Shops
  PROVE  /\ NamedShop(s) \in Shops
         /\ \A r \in DOMAIN ROOT_CATEGORIES :
              r \in DOMAIN NamedShop(s).cat /\ IsNormal(NamedShop(s).cat[r], Top, ROOT_CATEGORIES[r])
         /\ Repaired(s) => NamedShop(s) = s
  <1> DEFINE rooted == Rooted(s)
             new == AliasesToRename(rooted.cat)
             named == Renamed(rooted, new)
             roots == EnsureRoots(s.cat)
  <1>1. s.cat \in Tables(Slugs, CatRow) /\ s.product \in Tables(Names, ProductRow)
    BY ShopIs
  <1>2. /\ roots \in Tables(Slugs, CatRow)
        /\ DOMAIN roots = DOMAIN ROOT_CATEGORIES \cup DOMAIN s.cat
        /\ \A r \in DOMAIN ROOT_CATEGORIES : roots[r] = Normal(s.cat, r, Top, ROOT_CATEGORIES[r])
        /\ \A x \in DOMAIN s.cat \ DOMAIN ROOT_CATEGORIES : roots[x] = s.cat[x]
    BY <1>1, RootsEnsured
  <1> HIDE DEF roots
  <1>3. /\ rooted \in Shops /\ rooted.cat = roots /\ rooted.product = s.product
        /\ roots = s.cat => rooted = s
    BY <1>1, <1>2, WithIs DEF Rooted, roots
  <1> HIDE DEF rooted
  <1>4. /\ DOMAIN new \subseteq Aliases /\ \A a \in DOMAIN new : new[a] \in Canon
        /\ Canon \subseteq DOMAIN rooted.cat => DOMAIN new = {}
    BY RenamesAliases
  <1> HIDE DEF new
  <1>5. \A x \in DOMAIN new : new[x] \in Slugs
    BY <1>4, SlugsAre
  <1>6. /\ named \in Shops
        /\ DOMAIN named.cat = {NewSlug(new, y) : y \in DOMAIN rooted.cat}
        /\ \A x \in DOMAIN named.cat : \E y \in DOMAIN rooted.cat :
             x = NewSlug(new, y) /\ named.cat[x] = [rooted.cat[y] EXCEPT !.parent = NewSlug(new, @)]
        /\ DOMAIN new = {} => named = rooted
    <2>1. named \in Shops /\ RenamesTo(rooted, new, named)
      BY <1>3, <1>5, RenamedIs
    <2> HIDE DEF named
    <2>2. QED
      BY <2>1 DEF RenamesTo
  <1> HIDE DEF named
  <1>7. NamedShop(s) = named
    BY DEF NamedShop, named, new, rooted
  <1>n. ASSUME NEW r \in DOMAIN ROOT_CATEGORIES, NEW cat \in Tables(Slugs, CatRow)
        PROVE  /\ IsNormal(Normal(cat, r, Top, ROOT_CATEGORIES[r]), Top, ROOT_CATEGORIES[r])
               /\ r \in DOMAIN cat /\ IsNormal(cat[r], Top, ROOT_CATEGORIES[r])
                    => Normal(cat, r, Top, ROOT_CATEGORIES[r]) = cat[r]
    <2>1. ROOT_CATEGORIES[r] \in {"product_family", "audience", "height", "purpose", "style"}
      BY SlugsAre
    <2>2. QED
      BY <2>1, NormalIs
  <1>8. ASSUME NEW r \in DOMAIN ROOT_CATEGORIES
        PROVE  r \in DOMAIN named.cat /\ IsNormal(named.cat[r], Top, ROOT_CATEGORIES[r])
    <2>1. r \in DOMAIN roots /\ IsNormal(roots[r], Top, ROOT_CATEGORIES[r])
      BY <1>1, <1>2, <1>n
    <2>2. r \notin Aliases /\ r \notin Canon
      BY AliasesAre
    <2>3. NewSlug(new, r) = r
      BY <1>4, <2>2 DEF NewSlug
    <2>4. r \in DOMAIN named.cat
      BY <1>3, <1>6, <2>1, <2>3
    <2>5. PICK y \in DOMAIN rooted.cat :
            r = NewSlug(new, y) /\ named.cat[r] = [rooted.cat[y] EXCEPT !.parent = NewSlug(new, @)]
      BY <1>6, <2>4
    <2>6. y = r
      BY <1>4, <2>2, <2>5 DEF NewSlug
    <2>7. named.cat[r] = [roots[r] EXCEPT !.parent = NewSlug(new, @)]
      BY <1>3, <2>5, <2>6
    <2>8. roots[r] \in CatRow
      BY <1>2, <2>1, TableIs
    <2>9. NewSlug(new, Top) = Top
      BY <1>4, AliasesAre DEF NewSlug
    <2>10. IsNormal(named.cat[r], Top, ROOT_CATEGORIES[r])
      BY <2>1, <2>7, <2>8, <2>9 DEF IsNormal, CatRow
    <2>11. QED
      BY <2>4, <2>10
  <1>9. ASSUME Repaired(s) PROVE named = s
    <2>1. DOMAIN ROOT_CATEGORIES \subseteq DOMAIN s.cat /\ Canon \subseteq DOMAIN s.cat
      BY <1>9 DEF Repaired
    <2>2. \A r \in DOMAIN ROOT_CATEGORIES : Normal(s.cat, r, Top, ROOT_CATEGORIES[r]) = s.cat[r]
      BY <1>1, <1>9, <1>n DEF Repaired
    <2>3. DOMAIN roots = DOMAIN s.cat /\ \A x \in DOMAIN s.cat : roots[x] = s.cat[x]
      BY <1>2, <2>1, <2>2
    <2>4. roots = s.cat
      <3>1. roots \in [DOMAIN roots -> CatRow] /\ s.cat \in [DOMAIN s.cat -> CatRow]
        BY <1>1, <1>2, TableIs
      <3>2. QED
        BY <2>3, <3>1
    <2>5. QED
      BY <1>3, <1>4, <1>6, <2>1, <2>4
  <1>10. QED
    BY <1>6, <1>7, <1>8, <1>9

LEMMA SyncRepaired ==
  ASSUME NEW s \in Shops
  PROVE  SyncSockTaxonomy(s) \in Shops /\ Repaired(SyncSockTaxonomy(s))
  <1> DEFINE m == NamedShop(s)
             full == EnsureSockChildren(m.cat)
             cat == PutAway(full)
             product == Retagged(m.product)
             n == With(m, cat, product)
  <1>1. SyncSockTaxonomy(s) = n
    BY SyncIs
  <1>2. /\ m \in Shops
        /\ \A r \in DOMAIN ROOT_CATEGORIES :
             r \in DOMAIN m.cat /\ IsNormal(m.cat[r], Top, ROOT_CATEGORIES[r])
    BY NamedShopIs
  <1> HIDE DEF m
  <1>3. m.cat \in Tables(Slugs, CatRow) /\ m.product \in Tables(Names, ProductRow)
    BY <1>2, ShopIs
  <1>4. /\ full \in Tables(Slugs, CatRow) /\ DOMAIN full = Canon \cup DOMAIN m.cat
        /\ \A c \in Canon : full[c] = Normal(m.cat, c, "socks", GroupOf(c))
        /\ \A x \in DOMAIN m.cat \ Canon : full[x] = m.cat[x]
    BY <1>3, ChildrenEnsured
  <1> HIDE DEF full
  <1>5. /\ cat \in Tables(Slugs, CatRow) /\ DOMAIN cat = DOMAIN full
        /\ \A x \in DOMAIN full :
             /\ cat[x].group = full[x].group
             /\ Away(x, full[x]) => cat[x].active = FALSE
             /\ ~Away(x, full[x]) => cat[x] = full[x]
    BY <1>4, PutAwayIs
  <1>6. /\ product \in Tables(Names, ProductRow) /\ DOMAIN product = DOMAIN m.product
        /\ \A p \in DOMAIN m.product : product[p].tags = SyncTags(m.product[p].tags)
    BY <1>3, RetaggedIs
  <1> HIDE DEF cat, product
  <1>7. n \in Shops /\ n.cat = cat /\ n.product = product
    BY <1>2, <1>5, <1>6, WithIs
  <1> HIDE DEF n
  <1>8. ASSUME NEW r \in DOMAIN ROOT_CATEGORIES
        PROVE  r \in DOMAIN cat /\ IsNormal(cat[r], Top, ROOT_CATEGORIES[r])
    <2>1. r \notin Canon /\ r \notin Aliases /\ ROOT_CATEGORIES[r] \in {"product_family", "audience"}
      BY AliasesAre, SlugsAre
    <2>2. r \in DOMAIN full /\ full[r] = m.cat[r] /\ IsNormal(full[r], Top, ROOT_CATEGORIES[r])
      BY <1>2, <1>4, <2>1
    <2>3. ~Away(r, full[r])
      BY <2>1, <2>2 DEF Away, IsNormal
    <2>4. QED
      BY <1>5, <2>2, <2>3
  <1>9. ASSUME NEW c \in Canon
        PROVE  c \in DOMAIN cat /\ IsNormal(cat[c], "socks", GroupOf(c))
    <2>1. c \notin Aliases
      BY AliasesAre
    <2>2. ~Away(c, full[c])
      BY <2>1 DEF Away
    <2>3. IsNormal(full[c], "socks", GroupOf(c))
      <3>1. GroupOf(c) \in {"product_family", "audience", "height", "purpose", "style"}
        BY DEF GroupOf
      <3>2. "socks" \in Slugs \cup {Top}
        BY SlugsAre
      <3>3. IsNormal(Normal(m.cat, c, "socks", GroupOf(c)), "socks", GroupOf(c))
        BY <1>3, <3>1, <3>2, NormalIs
      <3>4. QED
        BY <1>4, <3>3
    <2>4. QED
      BY <1>4, <1>5, <2>2, <2>3
  <1>10. ASSUME NEW x \in DOMAIN cat, Away(x, cat[x]) PROVE cat[x].active = FALSE
    BY <1>5, <1>10 DEF Away
  <1>11. ASSUME NEW p \in DOMAIN product
         PROVE  /\ product[p].tags \cap Aliases = {}
                /\ product[p].tags \cap Canon # {} => "socks" \in product[p].tags
    <2>1. m.product[p] \in ProductRow
      BY <1>3, <1>6, TableIs
    <2>2. m.product[p].tags \in SUBSET Slugs
      BY <2>1 DEF ProductRow
    <2>3. product[p].tags = SyncTags(m.product[p].tags)
      BY <1>6
    <2>4. QED
      BY <2>2, <2>3, TagsSynced
  <1>12. Repaired(n)
    BY <1>7, <1>8, <1>9, <1>10, <1>11 DEF Repaired
  <1>13. QED
    BY <1>1, <1>7, <1>12

LEMMA RepairedStays ==
  ASSUME NEW s \in Shops, Repaired(s)
  PROVE  SyncSockTaxonomy(s) = s
  <1> DEFINE full == EnsureSockChildren(s.cat)
             cat == PutAway(full)
             product == Retagged(s.product)
  <1>1. SyncSockTaxonomy(s) = With(s, cat, product)
    BY SyncIs, NamedShopIs
  <1>2. s.cat \in Tables(Slugs, CatRow) /\ s.product \in Tables(Names, ProductRow)
    BY ShopIs
  <1>3. /\ full \in Tables(Slugs, CatRow) /\ DOMAIN full = Canon \cup DOMAIN s.cat
        /\ \A c \in Canon : full[c] = Normal(s.cat, c, "socks", GroupOf(c))
        /\ \A x \in DOMAIN s.cat \ Canon : full[x] = s.cat[x]
    BY <1>2, ChildrenEnsured
  <1> HIDE DEF full
  <1>4. ASSUME NEW c \in Canon PROVE c \in DOMAIN s.cat /\ full[c] = s.cat[c]
    <2>1. c \in DOMAIN s.cat /\ IsNormal(s.cat[c], "socks", GroupOf(c))
      BY DEF Repaired
    <2>2. GroupOf(c) \in {"product_family", "audience", "height", "purpose", "style"}
      BY DEF GroupOf
    <2>3. "socks" \in Slugs \cup {Top}
      BY SlugsAre
    <2>4. Normal(s.cat, c, "socks", GroupOf(c)) = s.cat[c]
      BY <1>2, <2>1, <2>2, <2>3, NormalIs
    <2>5. QED
      BY <1>3, <2>1, <2>4
  <1>5. full = s.cat
    <2>1. full \in [DOMAIN full -> CatRow] /\ s.cat \in [DOMAIN s.cat -> CatRow]
      BY <1>2, <1>3, TableIs
    <2>2. DOMAIN full = DOMAIN s.cat /\ \A x \in DOMAIN s.cat : full[x] = s.cat[x]
      BY <1>3, <1>4
    <2>3. QED
      BY <2>1, <2>2
  <1>6. cat = s.cat
    <2>1. \A x \in DOMAIN full : Away(x, full[x]) => full[x].active = FALSE
      BY <1>5 DEF Repaired
    <2>2. QED
      BY <1>3, <1>5, <2>1, PutAwayIs
  <1>7. product = s.product
    <2>1. ASSUME NEW p \in DOMAIN s.product PROVE SyncTags(s.product[p].tags) = s.product[p].tags
      <3>1. s.product[p] \in ProductRow
        BY <1>2, TableIs
      <3>2. s.product[p].tags \in SUBSET Slugs
        BY <3>1 DEF ProductRow
      <3>3. QED
        BY <3>2, TagsSynced DEF Repaired
    <2>2. QED
      BY <1>2, <2>1, RetaggedIs
  <1> HIDE DEF cat, product
  <1>8. QED
    BY <1>1, <1>2, <1>6, <1>7, WithIs

-----------------------------------------------------------------------------
(* Edits.                                                                  *)

LEMMA CatRestricted ==
  ASSUME NEW K, NEW R, NEW t \in Tables(K, R), NEW gone
  PROVE  [x \in DOMAIN t \ gone |-> t[x]] \in Tables(K, R)
  <1> DEFINE new == [x \in DOMAIN t \ gone |-> t[x]]
  <1>1. t \in [DOMAIN t -> R] /\ DOMAIN t \subseteq K
    BY TableIs
  <1>2. new \in [DOMAIN t \ gone -> R] /\ DOMAIN t \ gone \in SUBSET K
    BY <1>1
  <1> HIDE DEF new
  <1>3. new \in Tables(K, R)
    BY <1>2, TableMade
  <1>4. QED
    BY <1>3 DEF new

LEMMA SaveCategoryTyped ==
  ASSUME shop \in Shops, NEW c \in EditSlugs, SaveCategory(c)
  PROVE  shop' \in Shops
  <1>1. PICK group \in {"", "product_family", "height"}, active \in BOOLEAN,
             parent \in {Top} \cup (EditSlugs \cap DOMAIN shop.cat) :
          shop' = [shop EXCEPT !.cat = Only(c, [parent |-> parent, group |-> group,
                     active |-> active, words |-> "staff", art |-> "none"]) ++ @]
    BY DEF SaveCategory, Edit
  <1> DEFINE entry == [parent |-> parent, group |-> group, active |-> active,
                     words |-> "staff", art |-> "none"]
             new == Only(c, entry)
             cat == new ++ shop.cat
  <1>2. entry \in CatRow
    BY DEF CatRow, Words, Slugs
  <1> HIDE DEF entry
  <1>3. new \in [{c} -> CatRow] /\ {c} \in SUBSET Slugs
    BY <1>2 DEF Only, Slugs
  <1> HIDE DEF new
  <1>4. new \in Tables(Slugs, CatRow) /\ shop.cat \in Tables(Slugs, CatRow)
    BY <1>3, TableMade, ShopIs
  <1>5. cat \in Tables(Slugs, CatRow)
    BY <1>4, MergedTables
  <1>6. shop' = [shop EXCEPT !.cat = cat]
    BY <1>1 DEF new, entry
  <1> HIDE DEF cat
  <1>7. QED
    BY <1>5, <1>6 DEF Shops

LEMMA RenameCategoryTyped ==
  ASSUME shop \in Shops, NEW c \in EditSlugs, NEW d \in EditSlugs, RenameCategory(c, d)
  PROVE  shop' \in Shops
  <1>1. shop' = Renamed(shop, Only(c, d))
    BY DEF RenameCategory, Edit
  <1>2. \A x \in DOMAIN Only(c, d) : Only(c, d)[x] \in Slugs
    BY DEF Only, Slugs
  <1>3. QED
    BY <1>1, <1>2, RenamedIs

LEMMA DeleteCategoryTyped ==
  ASSUME shop \in Shops, NEW c \in EditSlugs, DeleteCategory(c)
  PROVE  shop' \in Shops
  <1> DEFINE gone == Below(shop.cat, c)
             cat == [x \in DOMAIN shop.cat \ gone |-> shop.cat[x]]
             product == [p \in DOMAIN shop.product |->
                          [shop.product[p] EXCEPT !.tags = @ \ gone]]
  <1>1. shop' = With(shop, cat, product)
    BY DEF DeleteCategory, Edit, With
  <1> HIDE DEF gone
  <1>2. shop.cat \in Tables(Slugs, CatRow) /\ shop.product \in Tables(Names, ProductRow)
    BY ShopIs
  <1>3. cat \in Tables(Slugs, CatRow)
    BY <1>2, CatRestricted
  <1>4. product \in [DOMAIN shop.product -> ProductRow]
    <2>1. shop.product \in [DOMAIN shop.product -> ProductRow]
      BY <1>2, TableIs
    <2>2. QED
      BY <2>1 DEF ProductRow
  <1>5. DOMAIN shop.product \in SUBSET Names
    BY <1>2, TableIs
  <1> HIDE DEF cat, product
  <1>6. product \in Tables(Names, ProductRow)
    BY <1>4, <1>5, TableMade
  <1>7. QED
    BY <1>1, <1>3, <1>6, WithIs

LEMMA SaveProductTyped ==
  ASSUME shop \in Shops, NEW p \in EditProducts, NEW tags, SaveProduct(p, tags)
  PROVE  shop' \in Shops
  <1> DEFINE new == Only(p, Product("staff"))
             old == shop.product ++ new
             product == [old EXCEPT ![p].tags = tags, ![p].words = "staff"]
  <1>1. shop' = [shop EXCEPT !.product = product] /\ tags \subseteq DOMAIN shop.cat
    BY DEF SaveProduct, Edit, GetOrCreate
  <1>2. /\ shop.product \in Tables(Names, ProductRow) /\ DOMAIN shop.cat \subseteq Slugs
        /\ p \in Names
    BY ShopIs DEF Names
  <1>3. new \in [{p} -> ProductRow] /\ {p} \in SUBSET Names
    <2>1. Product("staff") \in ProductRow
      BY DEF Product, ProductRow, Words
    <2>2. QED
      BY <1>2, <2>1 DEF Only
  <1> HIDE DEF new
  <1>4. new \in Tables(Names, ProductRow) /\ DOMAIN new = {p}
    BY <1>3, TableMade
  <1>5. old \in Tables(Names, ProductRow) /\ p \in DOMAIN old
    BY <1>2, <1>4, MergedTables, Merged
  <1> HIDE DEF old
  <1>6. old \in [DOMAIN old -> ProductRow] /\ DOMAIN old \in SUBSET Names
    BY <1>5, TableIs
  <1>7. product \in [DOMAIN old -> ProductRow]
    <2>1. tags \in SUBSET Slugs /\ "staff" \in Words
      BY <1>1, <1>2 DEF Words
    <2>2. QED
      BY <1>5, <1>6, <2>1 DEF ProductRow
  <1> HIDE DEF product
  <1>8. product \in Tables(Names, ProductRow)
    BY <1>6, <1>7, TableMade
  <1>9. QED
    BY <1>1, <1>8 DEF Shops

LEMMA DeleteProductTyped ==
  ASSUME shop \in Shops, NEW p \in EditProducts, DeleteProduct(p)
  PROVE  shop' \in Shops
  <1> DEFINE product == [q \in DOMAIN shop.product \ {p} |-> shop.product[q]]
             left == {k \in DOMAIN shop.variant : shop.variant[k].product # p}
             variant == [k \in left |-> shop.variant[k]]
  <1>1. shop' = [shop EXCEPT !.product = product, !.variant = variant, !.collab.products = @ \ {p}]
    BY DEF DeleteProduct, Edit
  <1>2. product \in Tables(Names, ProductRow)
    BY ShopIs, CatRestricted
  <1>3. variant \in Tables(Names, VariantRow)
    <2>1. variant = [k \in DOMAIN shop.variant \ (DOMAIN shop.variant \ left) |-> shop.variant[k]]
      OBVIOUS
    <2>2. QED
      BY <2>1, ShopIs, CatRestricted
  <1> HIDE DEF product, variant, left
  <1>4. QED
    BY <1>1, <1>2, <1>3 DEF Shops

LEMMA SaveVariantTyped ==
  ASSUME shop \in Shops, NEW k \in EditProducts, NEW p \in EditProducts, SaveVariant(k, p)
  PROVE  shop' \in Shops
  <1> DEFINE new == Only(k, VariantOf(p, "staff"))
             variant == new ++ shop.variant
  <1>1. shop' = [shop EXCEPT !.variant = variant]
    BY DEF SaveVariant, Edit
  <1>2. new \in [{k} -> VariantRow] /\ {k} \in SUBSET Names
    BY DEF Only, VariantOf, VariantRow, Words, Names
  <1> HIDE DEF new
  <1>3. variant \in Tables(Names, VariantRow)
    BY <1>2, ShopIs, TableMade, MergedTables
  <1> HIDE DEF variant
  <1>4. QED
    BY <1>1, <1>3 DEF Shops

LEMMA RemoveVariantTyped ==
  ASSUME shop \in Shops, NEW k \in EditProducts, RemoveVariant(k)
  PROVE  shop' \in Shops
  <1> DEFINE variant == [q \in DOMAIN shop.variant \ {k} |-> shop.variant[q]]
  <1>1. shop' = [shop EXCEPT !.variant = variant]
    BY DEF RemoveVariant, Edit
  <1>2. variant \in Tables(Names, VariantRow)
    BY ShopIs, CatRestricted
  <1> HIDE DEF variant
  <1>3. QED
    BY <1>1, <1>2 DEF Shops

LEMMA ChangeRowsTyped ==
  ASSUME shop \in Shops, ChangeRows
  PROVE  shop' \in Shops
  <1>0. /\ shop.rows \in Tables(RowKeys, Words) /\ shop.product \in Tables(Names, ProductRow)
        /\ "staff" \in Words
    BY ShopIs DEF Words
  <1>1. CASE \E r \in {"cart item"} \cap DOMAIN shop.rows :
               shop' = [shop EXCEPT !.rows[r] = "staff"]
    <2>1. PICK r \in DOMAIN shop.rows : shop' = [shop EXCEPT !.rows[r] = "staff"]
      BY <1>1
    <2> DEFINE rows == [shop.rows EXCEPT ![r] = "staff"]
    <2>2. shop.rows \in [DOMAIN shop.rows -> Words] /\ DOMAIN shop.rows \in SUBSET RowKeys
      BY <1>0, TableIs
    <2>3. rows \in [DOMAIN shop.rows -> Words]
      BY <1>0, <2>2
    <2>4. shop' = [shop EXCEPT !.rows = rows]
      BY <2>1
    <2> HIDE DEF rows
    <2>5. rows \in Tables(RowKeys, Words)
      BY <2>2, <2>3, TableMade
    <2>6. QED
      BY <2>4, <2>5 DEF Shops
  <1>2. CASE \E r \in {"cart item"} \cap DOMAIN shop.rows :
               shop' = [shop EXCEPT !.rows = [q \in DOMAIN @ \ {r} |-> @[q]]]
    <2>1. PICK r \in DOMAIN shop.rows :
            shop' = [shop EXCEPT !.rows = [q \in DOMAIN @ \ {r} |-> @[q]]]
      BY <1>2
    <2> DEFINE rows == [q \in DOMAIN shop.rows \ {r} |-> shop.rows[q]]
    <2>2. rows \in Tables(RowKeys, Words)
      BY <1>0, CatRestricted
    <2>3. shop' = [shop EXCEPT !.rows = rows]
      BY <2>1
    <2> HIDE DEF rows
    <2>4. QED
      BY <2>2, <2>3 DEF Shops
  <1>3. CASE shop' = [shop EXCEPT !.passwords = "own"]
    BY <1>3 DEF Shops
  <1>4. CASE shop' = [shop EXCEPT !.collab.art = "staff", !.collab.words = "staff"]
    BY <1>0, <1>4 DEF Shops
  <1>5. CASE \E p \in EditProducts \cap DOMAIN shop.product :
               shop' = [shop EXCEPT !.product[p].words = "staff", !.product[p].pictures = "staff"]
    <2>1. PICK p \in DOMAIN shop.product :
            shop' = [shop EXCEPT !.product[p].words = "staff", !.product[p].pictures = "staff"]
      BY <1>5
    <2> DEFINE product == [shop.product EXCEPT ![p].words = "staff", ![p].pictures = "staff"]
    <2>2. shop.product \in [DOMAIN shop.product -> ProductRow] /\ DOMAIN shop.product \in SUBSET Names
      BY <1>0, TableIs
    <2>3. product \in [DOMAIN shop.product -> ProductRow]
      BY <1>0, <2>2 DEF ProductRow
    <2>4. shop' = [shop EXCEPT !.product = product]
      BY <2>1 DEF Shops
    <2> HIDE DEF product
    <2>5. product \in Tables(Names, ProductRow)
      BY <2>2, <2>3, TableMade
    <2>6. QED
      BY <2>4, <2>5 DEF Shops
  <1>6. QED
    BY <1>1, <1>2, <1>3, <1>4, <1>5 DEF ChangeRows, Edit

-----------------------------------------------------------------------------
(* Every step.                                                             *)

LEMMA TaxInvInit == TaxInit => TaxInv
  <1> SUFFICES ASSUME TaxInit PROVE TaxInv
    OBVIOUS
  <1>1. \A K, R : <<>> \in Tables(K, R)
    <2> SUFFICES ASSUME NEW K, NEW R PROVE <<>> \in Tables(K, R)
      OBVIOUS
    <2>1. DOMAIN <<>> = {} /\ <<>> \in [{} -> R]
      OBVIOUS
    <2>2. QED
      BY <2>1, TableIs
  <1>2. shop \in Shops
    BY <1>1 DEF TaxInit, Shops, Words
  <1>3. QED
    BY <1>2 DEF TaxInit, TaxInv, Rested, SyncRepairs

\* A command leaves a shop, and the shop as it would leave it again.
LEMMA CommandLeaves ==
  ASSUME shop \in Shops
  PROVE  /\ RunSeedData => shop' \in Shops /\ Keeps(shop, shop') /\ SeedData(shop') = shop'
         /\ RunSeedSocks => /\ shop' \in Shops /\ Keeps(shop, shop')
                         /\ shop'.passwords = shop.passwords /\ SeedSocks(shop') = shop'
         /\ RunSeedCaps => /\ shop' \in Shops /\ Keeps(shop, shop')
                         /\ shop'.passwords = shop.passwords /\ SeedCaps(shop') = shop'
         /\ RunSeedCollab => shop' \in Shops /\ SeedCollab(shop') = shop'
         /\ RunSync => shop' \in Shops /\ Repaired(shop') /\ SyncSockTaxonomy(shop') = shop'
  <1>1. ASSUME RunSeedData
        PROVE  shop' \in Shops /\ Keeps(shop, shop') /\ SeedData(shop') = shop'
    <2>1. shop' = SeedData(shop)
      BY <1>1 DEF RunSeedData, Run
    <2>2. QED
      BY <2>1, DataSeeded
  <1>2. ASSUME RunSeedSocks
        PROVE  /\ shop' \in Shops /\ Keeps(shop, shop') /\ shop'.passwords = shop.passwords
               /\ SeedSocks(shop') = shop'
    <2>1. shop' = SeedSocks(shop) /\ "socks" \in DOMAIN shop.cat
      BY <1>2 DEF RunSeedSocks, Run
    <2>2. QED
      BY <2>1, SocksSeeded
  <1>3. ASSUME RunSeedCaps
        PROVE  /\ shop' \in Shops /\ Keeps(shop, shop') /\ shop'.passwords = shop.passwords
               /\ SeedCaps(shop') = shop'
    <2>1. shop' = SeedCaps(shop)
      BY <1>3 DEF RunSeedCaps, Run
    <2>2. QED
      BY <2>1, CapsSeeded
  <1>4. ASSUME RunSeedCollab PROVE shop' \in Shops /\ SeedCollab(shop') = shop'
    <2>1. shop' = SeedCollab(shop)
      BY <1>4 DEF RunSeedCollab, Run
    <2>2. QED
      BY <2>1, CollabSeeded
  <1>5. ASSUME RunSync
        PROVE  shop' \in Shops /\ Repaired(shop') /\ SyncSockTaxonomy(shop') = shop'
    <2>1. shop' = SyncSockTaxonomy(shop)
      BY <1>5 DEF RunSync, Run
    <2>2. shop' \in Shops /\ Repaired(shop')
      BY <2>1, SyncRepaired
    <2>3. QED
      BY <2>2, RepairedStays
  <1>6. QED
    BY <1>1, <1>2, <1>3, <1>4, <1>5

\* An edit leaves a shop, and no command ran since.
LEMMA EditLeaves ==
  ASSUME shop \in Shops, edits \in Nat, TaxNext, ~Command
  PROVE  shop' \in Shops /\ last' = "none" /\ edits' \in Nat
  <1>1. CASE \E c \in EditSlugs : SaveCategory(c)
    <2>1. PICK c \in EditSlugs : SaveCategory(c)
      BY <1>1
    <2>2. shop' \in Shops
      BY <2>1, SaveCategoryTyped
    <2>3. last' = "none" /\ edits' = edits + 1
      BY <2>1 DEF SaveCategory, Edit
    <2>4. QED
      BY <2>2, <2>3
  <1>2. CASE \E c \in EditSlugs : DeleteCategory(c)
    <2>1. PICK c \in EditSlugs : DeleteCategory(c)
      BY <1>2
    <2>2. shop' \in Shops
      BY <2>1, DeleteCategoryTyped
    <2>3. last' = "none" /\ edits' = edits + 1
      BY <2>1 DEF DeleteCategory, Edit
    <2>4. QED
      BY <2>2, <2>3
  <1>3. CASE \E c, d \in EditSlugs : RenameCategory(c, d)
    <2>1. PICK c \in EditSlugs, d \in EditSlugs : RenameCategory(c, d)
      BY <1>3
    <2>2. shop' \in Shops
      BY <2>1, RenameCategoryTyped
    <2>3. last' = "none" /\ edits' = edits + 1
      BY <2>1 DEF RenameCategory, Edit
    <2>4. QED
      BY <2>2, <2>3
  <1>4. CASE \E p \in EditProducts : DeleteProduct(p)
    <2>1. PICK p \in EditProducts : DeleteProduct(p)
      BY <1>4
    <2>2. shop' \in Shops
      BY <2>1, DeleteProductTyped
    <2>3. last' = "none" /\ edits' = edits + 1
      BY <2>1 DEF DeleteProduct, Edit
    <2>4. QED
      BY <2>2, <2>3
  <1>5. CASE \E p \in EditProducts : \E tags \in EditTags : SaveProduct(p, tags)
    <2>1. PICK p \in EditProducts, tags \in EditTags : SaveProduct(p, tags)
      BY <1>5
    <2>2. shop' \in Shops
      BY <2>1, SaveProductTyped
    <2>3. last' = "none" /\ edits' = edits + 1
      BY <2>1 DEF SaveProduct, Edit
    <2>4. QED
      BY <2>2, <2>3
  <1>6. CASE ChangeRows
    <2>1. shop' \in Shops
      BY <1>6, ChangeRowsTyped
    <2>2. last' = "none" /\ edits' = edits + 1
      BY <1>6 DEF ChangeRows, Edit
    <2>3. QED
      BY <2>1, <2>2
  <1>7. CASE \E k \in EditProducts : RemoveVariant(k)
    <2>1. PICK k \in EditProducts : RemoveVariant(k)
      BY <1>7
    <2>2. shop' \in Shops
      BY <2>1, RemoveVariantTyped
    <2>3. last' = "none" /\ edits' = edits + 1
      BY <2>1 DEF RemoveVariant, Edit
    <2>4. QED
      BY <2>2, <2>3
  <1>8. CASE \E k \in EditProducts : \E p \in EditProducts : SaveVariant(k, p)
    <2>1. PICK k \in EditProducts, p \in EditProducts : SaveVariant(k, p)
      BY <1>8
    <2>2. shop' \in Shops
      BY <2>1, SaveVariantTyped
    <2>3. last' = "none" /\ edits' = edits + 1
      BY <2>1 DEF SaveVariant, Edit
    <2>4. QED
      BY <2>2, <2>3
  <1>9. QED
    BY <1>1, <1>2, <1>3, <1>4, <1>5, <1>6, <1>7, <1>8 DEF TaxNext

LEMMA CommandNames ==
  /\ RunSeedData => last' = "seed_data" /\ edits' = edits
  /\ RunSeedSocks => last' = "seed_socks" /\ edits' = edits
  /\ RunSeedCaps => last' = "seed_caps" /\ edits' = edits
  /\ RunSeedCollab => last' = "seed_collab" /\ edits' = edits
  /\ RunSync => last' = "sync" /\ edits' = edits
  BY DEF RunSeedData, RunSeedSocks, RunSeedCaps, RunSeedCollab, RunSync, Run

\* What Repaired says of the rows is what SyncRepairs asks of them.
LEMMA RepairedIsEnough ==
  ASSUME NEW s \in Shops, Repaired(s)
  PROVE  /\ s.cat["socks"].parent = Top
         /\ \A c \in DOMAIN s.cat :
              s.cat[c].group \in {"height", "purpose"} /\ s.cat[c].active =>
                c \in Canon /\ s.cat[c].parent = "socks"
         /\ \A p \in DOMAIN s.product :
              /\ s.product[p].tags \cap Aliases = {}
              /\ s.product[p].tags \cap Canon # {} => "socks" \in s.product[p].tags
  BY SlugsAre DEF Repaired, IsNormal, Away

LEMMA TaxInvStep == TaxInv /\ [TaxNext]_taxVars => TaxInv'
  <1> SUFFICES ASSUME TaxInv, [TaxNext]_taxVars PROVE TaxInv'
    OBVIOUS
  <1>0. shop \in Shops /\ edits \in Nat
    BY DEF TaxInv
  <1>1. CASE UNCHANGED taxVars
    BY <1>1 DEF taxVars, TaxInv, Rested, SyncRepairs
  <1>2. CASE TaxNext /\ ~Command
    <2>1. shop' \in Shops /\ last' = "none" /\ edits' \in Nat
      BY <1>0, <1>2, EditLeaves
    <2>2. QED
      BY <2>1 DEF TaxInv, Rested, SyncRepairs
  <1>3. CASE RunSeedData
    <2>1. shop' \in Shops /\ SeedData(shop') = shop' /\ last' = "seed_data" /\ edits' \in Nat
      BY <1>0, <1>3, CommandLeaves, CommandNames
    <2>2. QED
      BY <2>1 DEF TaxInv, Rested, SyncRepairs
  <1>4. CASE RunSeedSocks
    <2>1. shop' \in Shops /\ SeedSocks(shop') = shop' /\ last' = "seed_socks" /\ edits' \in Nat
      BY <1>0, <1>4, CommandLeaves, CommandNames
    <2>2. QED
      BY <2>1 DEF TaxInv, Rested, SyncRepairs
  <1>5. CASE RunSeedCaps
    <2>1. shop' \in Shops /\ SeedCaps(shop') = shop' /\ last' = "seed_caps" /\ edits' \in Nat
      BY <1>0, <1>5, CommandLeaves, CommandNames
    <2>2. QED
      BY <2>1 DEF TaxInv, Rested, SyncRepairs
  <1>6. CASE RunSeedCollab
    <2>1. shop' \in Shops /\ SeedCollab(shop') = shop' /\ last' = "seed_collab" /\ edits' \in Nat
      BY <1>0, <1>6, CommandLeaves, CommandNames
    <2>2. QED
      BY <2>1 DEF TaxInv, Rested, SyncRepairs
  <1>7. CASE RunSync
    <2>1. shop' \in Shops /\ SyncSockTaxonomy(shop') = shop' /\ last' = "sync" /\ edits' \in Nat
      BY <1>0, <1>7, CommandLeaves, CommandNames
    <2>2. Repaired(shop')
      BY <1>0, <1>7, CommandLeaves
    <2>3. SyncRepairs'
      BY <2>1, <2>2, RepairedIsEnough DEF SyncRepairs
    <2>4. QED
      BY <2>1, <2>3 DEF TaxInv, Rested
  <1>8. QED
    BY <1>1, <1>2, <1>3, <1>4, <1>5, <1>6, <1>7 DEF TaxNext, Command

LEMMA TaxInvCorrect == TaxSpec => []TaxInv
  BY TaxInvInit, TaxInvStep, PTL DEF TaxSpec

\* Whatever staff save and whichever commands run, every row has a parent, a group, tags
\* and words of the tables, and what each command left it would leave again.
THEOREM TaxonomyTypeCorrect == TaxSpec => [](shop \in Shops /\ Rested)
  <1>1. TaxInv => shop \in Shops /\ Rested
    BY DEF TaxInv
  <1>2. QED
    BY <1>1, TaxInvCorrect, PTL

\* sync_sock_taxonomy repairs any tables staff and seeds can make.
THEOREM SyncAlwaysRepairs == TaxSpec => []SyncRepairs
  <1>1. TaxInv => SyncRepairs
    BY DEF TaxInv
  <1>2. QED
    BY <1>1, TaxInvCorrect, PTL

\* A command that is run twice has done its work the first time.
THEOREM CommandsAreIdempotent == TaxSpec => CommandsRepeat
  <1>1. TaxInv /\ [TaxNext]_taxVars => [last' = last /\ last # "none" => UNCHANGED shop]_taxVars
    <2> SUFFICES ASSUME TaxInv, TaxNext, last' = last, last # "none" PROVE UNCHANGED shop
      BY DEF taxVars
    <2>0. shop \in Shops /\ edits \in Nat /\ Rested
      BY DEF TaxInv
    <2>1. Command
      BY <2>0, EditLeaves
    <2>2. CASE RunSeedData
      BY <2>0, <2>2, CommandNames DEF Rested, RunSeedData, Run
    <2>3. CASE RunSeedSocks
      BY <2>0, <2>3, CommandNames DEF Rested, RunSeedSocks, Run
    <2>4. CASE RunSeedCaps
      BY <2>0, <2>4, CommandNames DEF Rested, RunSeedCaps, Run
    <2>5. CASE RunSeedCollab
      BY <2>0, <2>5, CommandNames DEF Rested, RunSeedCollab, Run
    <2>6. CASE RunSync
      BY <2>0, <2>6, CommandNames DEF Rested, RunSync, Run
    <2>7. QED
      BY <2>1, <2>2, <2>3, <2>4, <2>5, <2>6 DEF Command
  <1>2. QED
    BY <1>1, TaxInvCorrect, PTL DEF TaxSpec, CommandsRepeat

\* seed_data, seed_socks and seed_caps leave what they find as it was written, blanks and
\* the passwords of seed_data's own users apart.
THEOREM SeedsKeepRows == TaxSpec => SeedsOnlyAdd
  <1> DEFINE Adds ==
        /\ \A c \in DOMAIN shop.cat : Completes(shop'.cat[c], shop.cat[c])
        /\ \A p \in DOMAIN shop.product :
             /\ shop'.product[p].words = shop.product[p].words
             /\ shop.product[p].pictures # "none" =>
                  shop'.product[p].pictures = shop.product[p].pictures
             /\ shop.product[p].tags \subseteq shop'.product[p].tags
        /\ \A k \in DOMAIN shop.variant : shop'.variant[k] = shop.variant[k]
        /\ \A r \in DOMAIN shop.rows : shop'.rows[r] = shop.rows[r]
        /\ shop'.collab = shop.collab
        /\ last' # "seed_data" => shop'.passwords = shop.passwords
  <1>1. TaxInv /\ [TaxNext]_taxVars
          => [last' \in {"seed_data", "seed_socks", "seed_caps"} => Adds]_taxVars
    <2> SUFFICES ASSUME TaxInv, TaxNext, last' \in {"seed_data", "seed_socks", "seed_caps"}
                 PROVE  Adds
      BY DEF taxVars
    <2>0. shop \in Shops /\ edits \in Nat
      BY DEF TaxInv
    <2>1. RunSeedData \/ RunSeedSocks \/ RunSeedCaps
      BY <2>0, EditLeaves, CommandNames DEF Command
    <2>2. Keeps(shop, shop')
      BY <2>0, <2>1, CommandLeaves
    <2>3. last' # "seed_data" => shop'.passwords = shop.passwords
      BY <2>0, <2>1, CommandLeaves, CommandNames
    <2>4. QED
      BY <2>2, <2>3 DEF Keeps
  <1>2. QED
    BY <1>1, TaxInvCorrect, PTL DEF TaxSpec, SeedsOnlyAdd
=============================================================================
