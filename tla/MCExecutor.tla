----------------------------- MODULE MCExecutor -----------------------------
(***************************************************************************)
(* Small instances of Executor, over all the rails: the orders that a      *)
(* configuration names ("orders"), or a card payment and a bank payment    *)
(* ("rails").                                                              *)
(***************************************************************************)
EXTENDS Executor, TLC

CONSTANTS o1, o2, e1, e2, p1, p2, c1, Parts

VARIABLE part   \* which orders this behaviour is about

\* One order in an event of its own.
OneX402  == (o1 :> "http402")
OneEvent == (o1 :> e1)
OneHold  == (o1 :> None)

\* A payment (o1) and the native payout (o2) it spawns.
X402Payout == (o1 :> "http402" @@ o2 :> "native")
PayoutEvent == (o1 :> e1 @@ o2 :> None)
PayoutPair == (o1 :> o2 @@ o2 :> None)

\* Two payments, each in an event of its own.
CardAndAch == (o1 :> "card" @@ o2 :> "ach")
TwoEvents == (o1 :> e1 @@ o2 :> e2)
TwoHolds == (o1 :> None @@ o2 :> None)

\* The two passes run the same program.
PassSymmetry == Permutations({p1, p2})

-----------------------------------------------------------------------------
Rails == INSTANCE Executor WITH
  Rail <- CardAndAch, EventOf <- TwoEvents, PayoutOf <- TwoHolds, MaxFaults <- 1

RailsInit == part \in Parts /\ Init

RailsNext ==
  /\ \/ part = "orders" /\ Next
     \/ part = "rails" /\ Rails!Next
  /\ UNCHANGED part

\* The fairness of Executor, for the orders at hand.
RailsFairness ==
  /\ \A p \in Passes :
       /\ WF_vars(part = "orders" /\ PassOpen(p)) /\ WF_vars(part = "rails" /\ Rails!PassOpen(p))
       /\ WF_vars(part = "orders" /\ PassStep(p)) /\ WF_vars(part = "rails" /\ Rails!PassStep(p))
  /\ \A c \in Clients :
       WF_vars(part = "orders" /\ ClientStep(c)) /\ WF_vars(part = "rails" /\ Rails!ClientStep(c))
  /\ \A o \in Orders : WF_vars(DeadlinePasses(o)) /\ WF_vars(TtlPasses(o))

RailsSpec == RailsInit /\ [][RailsNext]_<<vars, part>> /\ RailsFairness
=============================================================================
