-------------------------------- MODULE Preflight --------------------------------
(***************************************************************************)
(* The preflight that gates a live demo (connectors/onboarding.py): which  *)
(* connectors answer, whether the order asked for is open and unfulfilled, *)
(* whether the shipment is there.  Next to it, the reading of the same     *)
(* payload by ShopifyConnector.normalize, whose outcome the action service *)
(* judges later.  Pure operators; DecisionChecks checks them.              *)
(***************************************************************************)
EXTENDS ActionRules

\* What a field of a payload holds: nothing, an empty or another string, or
\* something that is no string.  "closed" stands for voided too; case is ignored.
Texts == {"text", "", "number", NoValue}
StatusTexts == OrderStatuses \cup {"", "number", NoValue}

\* Orders and shipments as the providers send them; ours: it has the id asked
\* for, which the preflight compares as a string whatever it is.
OrderPayload == [outcome : {"read"}, ours : BOOLEAN, id : {"text", "number"},
                 status : StatusTexts, financial_status : StatusTexts,
                 fulfillment : Fulfillments \cup {NoValue}]

ShipmentPayload == [outcome : {"read"}, ours : BOOLEAN, tracking_code : Texts, status : Texts]

NotAsked == [outcome |-> "not asked"]
Unreadable == [outcome |-> "unreadable"]

\* A preflight: which health checks succeed, and the order and the shipment
\* asked for, if any, unless the provider fails to send them.
Preflights == [healthy : SUBSET {"shopify", "easypost"},
               order : OrderPayload \cup {NotAsked, Unreadable},
               shipment : ShipmentPayload \cup {NotAsked, Unreadable}]

-----------------------------------------------------------------------------
\* check_connector: EasyPost never writes.
Capabilities(connector, healthy) ==
    IF connector \notin healthy THEN {}
    ELSE {"authenticated", "read"} \cup (IF connector = "shopify" THEN {"write"} ELSE {})

Required(connector) ==
    {"authenticated", "read"} \cup (IF connector = "shopify" THEN {"write"} ELSE {})

ConnectorFailures(p) ==
    {c \in {"shopify", "easypost"} : ~(Required(c) \subseteq Capabilities(c, p.healthy))}

\* Python's "a or b".
Either(a, b) == IF a \in {NoValue, ""} THEN b ELSE a

IsString(text) == text \notin {NoValue, "number"}

\* A slip: the fulfillment is not looked at.
ValidateDemoOrderUnfulfilled(order) ==
    LET status == Either(order.financial_status, order.status) IN
    {f \in {"order.id_mismatch", "order.not_open"} :
        \/ f = "order.id_mismatch" /\ ~order.ours
        \/ f = "order.not_open" /\ (~IsString(status) \/ status \in TERMINAL_ORDER_STATUSES)}

ValidateDemoOrder(order) ==
    LET status == Either(order.financial_status, order.status) IN
    {f \in {"order.id_mismatch", "order.not_open", "order.fulfilled"} :
        \/ f = "order.id_mismatch" /\ ~order.ours
        \/ f = "order.not_open" /\ (~IsString(status) \/ status \in TERMINAL_ORDER_STATUSES)
        \/ f = "order.fulfilled" /\ order.fulfillment = "fulfilled"}

ValidateDemoShipment(shipment) ==
    {f \in {"shipment.id_mismatch", "shipment.missing_tracking_code", "shipment.missing_status"} :
        \/ f = "shipment.id_mismatch" /\ ~shipment.ours
        \/ f = "shipment.missing_tracking_code" /\ shipment.tracking_code # "text"
        \/ f = "shipment.missing_status" /\ shipment.status # "text"}

\* A target is judged when it is asked for, its connector is up and sends it.
OrderFailures(p) ==
    IF p.order = NotAsked THEN {}
    ELSE IF "read" \notin Capabilities("shopify", p.healthy) THEN {"order.connector_unavailable"}
    ELSE IF p.order = Unreadable THEN {"order.read_failed"}
    ELSE ValidateDemoOrder(p.order)

ShipmentFailures(p) ==
    IF p.shipment = NotAsked THEN {}
    ELSE IF "read" \notin Capabilities("easypost", p.healthy) THEN {"shipment.connector_unavailable"}
    ELSE IF p.shipment = Unreadable THEN {"shipment.read_failed"}
    ELSE ValidateDemoShipment(p.shipment)

\* preflight_demo.
Ready(p) == ConnectorFailures(p) \cup OrderFailures(p) \cup ShipmentFailures(p) = {}

-----------------------------------------------------------------------------
\* ShopifyConnector.normalize: the status the observation will have, unless
\* the payload is refused.
NormalizedStatus(order) == Either(order.status, order.financial_status)

Normalizes(order) ==
    /\ order.id = "text"
    /\ IsString(NormalizedStatus(order)) /\ NormalizedStatus(order) # ""

\* The first state that ingest makes of it.
ObservedOrder(order) ==
    [version |-> 1, status |-> NormalizedStatus(order), fulfillment |-> order.fulfillment]
=============================================================================
