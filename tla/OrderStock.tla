----------------------------- MODULE OrderStock -----------------------------
(***************************************************************************)
(* What apps/orders/services/stock_service.py promises to its callers: the *)
(* stock of an order is reserved, committed or given back as a whole, in   *)
(* one step, and only when every line of it can be.  There are no sessions *)
(* and no locks here; module Checkout implements these steps with one      *)
(* transaction of many statements each.                                    *)
(***************************************************************************)
EXTENDS Integers, Functions

CONSTANTS Order, Variant, Lines, InitialStock   \* as in module Checkout

VARIABLES
  placed,  \* orders whose stock was reserved
  row,     \* stock and reserved quantity of each variant
  ledger   \* how often each order was committed and released

vars == <<placed, row, ledger>>

Total(S, v) == SumFunctionOnSet([o \in Order |-> Lines[o][v]], S)

Init ==
  /\ placed = {}
  /\ row = [v \in Variant |-> [stock |-> InitialStock[v], reserved |-> 0]]
  /\ ledger = [o \in Order |-> [com |-> 0, rel |-> 0]]

\* reserve_order_stock_from_cart
Reserve(o) ==
  /\ o \notin placed
  /\ \A v \in Variant : row[v].stock - row[v].reserved >= Lines[o][v]
  /\ placed' = placed \cup {o}
  /\ row' = [v \in Variant |-> [row[v] EXCEPT !.reserved = @ + Lines[o][v]]]
  /\ UNCHANGED ledger

\* commit_reserved_stock_for_order
Commit(o) ==
  /\ o \in placed
  /\ \A v \in Variant : Lines[o][v] <= row[v].reserved /\ Lines[o][v] <= row[v].stock
  /\ row' = [v \in Variant |-> [stock    |-> row[v].stock - Lines[o][v],
                                reserved |-> row[v].reserved - Lines[o][v]]]
  /\ ledger' = [ledger EXCEPT ![o].com = @ + 1]
  /\ UNCHANGED placed

\* release_reserved_stock_for_order, for every order of a sweep's batch
Release(S) ==
  /\ S \subseteq placed
  /\ \A o \in S : ledger[o] = [com |-> 0, rel |-> 0]
  /\ \A v \in Variant : Total(S, v) <= row[v].reserved
  /\ row' = [v \in Variant |-> [row[v] EXCEPT !.reserved = @ - Total(S, v)]]
  /\ ledger' = [o \in Order |-> IF o \in S THEN [ledger[o] EXCEPT !.rel = 1] ELSE ledger[o]]
  /\ UNCHANGED placed

Next ==
  \/ \E o \in Order : Reserve(o) \/ Commit(o)
  \/ \E S \in SUBSET Order : S # {} /\ Release(S)

Spec == Init /\ [][Next]_vars
=============================================================================
