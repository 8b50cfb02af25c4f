------------------------------ MODULE MCWorldState ------------------------------
(* Instances of WorldState for TLC.                                         *)
EXTENDS WorldState, TLC

\* Nothing tells one entity, attribute, value or id from another, nor one
\* connector unless it calls itself operator.
NameSymmetry ==
    Permutations(Entities) \cup Permutations(Attributes) \cup Permutations(Values)
        \cup Permutations(Connectors \ {Operator}) \cup Permutations(ObservationIds)
=============================================================================
