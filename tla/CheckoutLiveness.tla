-------------------------- MODULE CheckoutLiveness --------------------------
(***************************************************************************)
(* What the expiry sweep owes to an overdue order, under the fairness the  *)
(* deployment gives.  Celery Beat starts a sweep again and again, each     *)
(* session goes on when it can, and PostgreSQL breaks every cycle of       *)
(* locks.  A sweep may be killed or lose a lock cycle, but not for ever:   *)
(* MaxLost bounds how often.  Web sessions fail as often as they like, and *)
(* nobody has to place, pay or change an order.                            *)
(***************************************************************************)
EXTENDS Checkout

CONSTANT MaxLost   \* how many sweeps fail for reasons outside their own data

ASSUME MaxLostAssumption == MaxLost \in Nat

VARIABLE lost

LiveInit == Init /\ lost = 0

LoseSweep == /\ lost < MaxLost
             /\ \E w \in Beat : Failure(w)
             /\ lost' = lost + 1

LiveNext == \/ (Work \/ \E w \in Web : Failure(w)) /\ UNCHANGED lost
            \/ LoseSweep

\* PostgreSQL queues the sessions that wait for a row, so one that finds its
\* lock free now and then gets it: strong fairness for statements.  The web
\* session of a cycle is a victim in the end, since sweeps are lost no more.
LiveSpec ==
  /\ LiveInit /\ [][LiveNext]_<<vars, lost>>
  /\ \A w \in Beat : WF_vars(BeginSweep(w))
  /\ \A w \in Worker : SF_vars(Statement(w))
  /\ \A w \in Web : WF_vars(BreakCycle(w))

\* An order whose payment window has passed does not stay unpaid and on
\* reserve: it is paid, cancelled or expired in the end.
UnpaidExpires == \A o \in Order : Expirable(o) ~> ~Expirable(o)

=============================================================================
