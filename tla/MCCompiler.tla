------------------------------- MODULE MCCompiler -------------------------------
(* Instances of Compiler for TLC: the observations that sources deliver.      *)
EXTENDS Compiler

CONSTANTS o1, o2, o3, e1, e2, open, cancelled, shopify, easypost, status

Of(id, connector, entity, freshness, value) ==
    [id |-> id, connector |-> connector, entity |-> entity,
     freshness |-> freshness, payload |-> [n \in {status} |-> value]]

\* Anything about one order, some of it stale.
MCAnything == {o \in Observation : o.entity = e1 /\ o.payload[status] # NoValue}

\* Anything fresh about one order.
MCFresh == {o \in MCAnything : o.freshness = "fresh"}

\* Each of two connectors reads the order under an id of its own.
MCRivals == {o \in MCFresh : (o.id = o1) <=> (o.connector = shopify)}

\* The order is open, then cancelled, then open.
MCHistory == {Of(o1, shopify, e1, "fresh", open), Of(o2, shopify, e1, "fresh", cancelled),
              Of(o3, shopify, e1, "fresh", open)}

\* The order is open, then cancelled; and another order is open.
MCTwoOrders == {Of(o1, shopify, e1, "fresh", open), Of(o2, shopify, e1, "fresh", cancelled),
                Of(o3, shopify, e2, "fresh", open)}

\* The connector reads an order under one id, whatever it sees.
MCReadings == {o \in MCFresh : o.connector = shopify /\ o.id = o1}
===============================================================================
