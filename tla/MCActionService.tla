---------------------------- MODULE MCActionService ----------------------------
(* Instances of ActionService for TLC.                                     *)
EXTENDS ActionRefinement, TLC

\* A workspace that lets writes through, one that only observes, an order with
\* an open conflict, and an order whose value is above or at the limit.
MCContexts ==
    LET C(mode, value, limit, conflict) ==
            [mode |-> mode, order_value |-> value, value_limit |-> limit,
             has_conflict |-> conflict]
    IN  {C("demo_proposal", NoValue, 1, FALSE),
         C("observe_only", NoValue, NoValue, FALSE),
         C("demo_proposal", 2, 1, FALSE)}

\* Only the context under which everything else decides.
MCOpenContext == {[mode |-> "demo_proposal", order_value |-> NoValue,
                   value_limit |-> NoValue, has_conflict |-> FALSE]}

NameSymmetry == Permutations(Threads) \cup Permutations(ActionIds)
    \cup Permutations(Tenants)
=============================================================================
