----------------------------- MODULE DecisionProofs -----------------------------
(***************************************************************************)
(* The decisions for every value, every limit and every bound on them.     *)
(***************************************************************************)
EXTENDS DecisionChecks, TLAPS

-----------------------------------------------------------------------------
\* A call of the policy is none of the preflight, and has all its fields.
LEMMA CallsAreDistinct ==
    /\ \A c \in Calls : "role" \in DOMAIN c /\ "healthy" \notin DOMAIN c
    /\ \A c \in Preflights : "healthy" \in DOMAIN c /\ "role" \notin DOMAIN c
  BY DEF Calls, Preflights

\* What evaluate_policy grants, without the order of its rules.
LEMMA PolicyGrants ==
    ASSUME NEW c \in Calls
    PROVE  Decision(c).status = "approval_required" <=>
              /\ c.role \in {"operations", "finance", "system"}
              /\ c.mode = "demo_proposal" /\ ~c.has_conflict
              /\ ~OverLimit(c.order_value, c.value_limit)
              /\ c.action_type = "cancel_order" => c.role = "operations"
  <1>1. /\ c.role \in Roles /\ c.mode \in Modes /\ c.has_conflict \in BOOLEAN
        /\ c.action_type \in ActionTypes
    BY DEF Calls
  <1>2. /\ \A rule : Denied(rule).status = "denied"
        /\ \A rule : NeedsOperations(rule).status = "approval_required"
    BY DEF Denied, NeedsOperations
  <1>3. CASE c.role \notin ProposerRoles \/ c.role = "observer"
    BY <1>2, <1>3 DEF Decision, EvaluatePolicy, ProposerRoles
  <1>4. CASE c.role \in {"operations", "finance", "system"}
    BY <1>1, <1>2, <1>4 DEF Decision, EvaluatePolicy, ProposerRoles, Modes, ActionTypes
  <1> QED
    BY <1>3, <1>4 DEF ProposerRoles

LEMMA LimitsAreNumbers ==
    ASSUME NEW v \in Amounts, NEW limit \in Amounts
    PROVE  ~OverLimit(v, limit) <=> NoValue \in {v, limit} \/ v <= limit
  BY DEF Amounts, OverLimit

\* An order that was read is a payload.
LEMMA ReadOrders ==
    ASSUME NEW p \in Preflights, p.order.outcome = "read"
    PROVE  p.order \in OrderPayload /\ p.order # NotAsked /\ p.order # Unreadable
  <1>1. NotAsked.outcome # "read" /\ Unreadable.outcome # "read"
    BY DEF NotAsked, Unreadable
  <1>2. p.order # NotAsked /\ p.order # Unreadable
    BY <1>1
  <1>3. p.order \in OrderPayload \cup {NotAsked, Unreadable}
    BY DEF Preflights
  <1> QED
    BY <1>2, <1>3

-----------------------------------------------------------------------------
(* Worse facts are facts.                                                  *)

Inv == call \in Calls \cup Preflights

LEMMA PolicyStepsKeepCalls ==
    ASSUME Inv, StopAtObserving \/ OpenConflict \/ RaiseValue \/ LowerLimit
    PROVE  call \in Calls /\ call' \in Calls
  <1>1. call \in Calls
    BY CallsAreDistinct
       DEF Inv, StopAtObserving, OpenConflict, RaiseValue, LowerLimit, IsPolicyCall
  <1>2. CASE StopAtObserving
    BY <1>1, <1>2 DEF StopAtObserving, Calls, Modes
  <1>3. CASE OpenConflict
    BY <1>1, <1>3 DEF OpenConflict, Calls
  <1>4. CASE RaiseValue
    BY <1>1, <1>4 DEF RaiseValue, Calls, Amounts
  <1>5. CASE LowerLimit
    BY <1>1, <1>5 DEF LowerLimit, Calls, Amounts
  <1> QED
    BY <1>1, <1>2, <1>3, <1>4, <1>5

LEMMA PreflightStepsKeepPreflights ==
    ASSUME Inv, GoDown \/ Fulfil \/ Close \/ LoseTargets
    PROVE  call \in Preflights /\ call' \in Preflights
  <1>1. call \in Preflights
    BY CallsAreDistinct DEF Inv, GoDown, Fulfil, Close, LoseTargets, IsPreflight
  <1>2. CASE GoDown
    BY <1>1, <1>2 DEF GoDown, Preflights
  <1>3. ASSUME call.order.outcome = "read"
        PROVE  call.order \in OrderPayload
    BY <1>1, <1>3, ReadOrders
  <1>4. CASE Fulfil
    <2>1. [call.order EXCEPT !.fulfillment = "fulfilled"] \in OrderPayload
      BY <1>3, <1>4 DEF Fulfil, OrderPayload, Fulfillments
    <2> QED
      BY <1>1, <1>4, <2>1 DEF Fulfil, Preflights
  <1>5. CASE Close
    <2>1. \A s \in TERMINAL_ORDER_STATUSES : [call.order EXCEPT !.status = s] \in OrderPayload
      BY <1>3, <1>5 DEF Close, OrderPayload, StatusTexts, OrderStatuses, TERMINAL_ORDER_STATUSES
    <2> QED
      BY <1>1, <1>5, <2>1 DEF Close, Preflights
  <1>6. CASE LoseTargets
    BY <1>1, <1>6 DEF LoseTargets, Preflights
  <1> QED
    BY <1>1, <1>2, <1>4, <1>5, <1>6

\* Every state is a call of the policy or a preflight.
THEOREM CallsHold == Spec => []Inv
  <1>1. Init => Inv
    BY DEF Init, Inv
  <1>2. Inv /\ [Next]_vars => Inv'
    BY PolicyStepsKeepCalls, PreflightStepsKeepPreflights DEF Next, Inv, vars
  <1> QED
    BY <1>1, <1>2, PTL DEF Spec

-----------------------------------------------------------------------------
\* evaluate_policy sends a call to an approver exactly when its facts allow
\* it, for every order value and every limit.
THEOREM PolicyHolds == Spec => []PolicyMatchesReference
  <1>1. Inv => PolicyMatchesReference
    <2> SUFFICES ASSUME Inv, IsPolicyCall
                 PROVE  PolicyMatchesReference
      BY DEF PolicyMatchesReference
    <2>1. call \in Calls
      BY CallsAreDistinct DEF Inv, IsPolicyCall
    <2>2. call.order_value \in Amounts /\ call.value_limit \in Amounts
      BY <2>1 DEF Calls
    <2> QED
      BY <2>1, <2>2, PolicyGrants, LimitsAreNumbers DEF PolicyMatchesReference
  <1> QED
    BY <1>1, CallsHold, PTL

\* An order that passes validate_demo_order has a status that normalize reads
\* the same, and is eligible in _require_eligible_test_order, if its id is a
\* string and one field alone tells the status.
THEOREM CancellableHolds == Spec => []ReadyOrdersCanBeCancelled
  <1>1. Inv => ReadyOrdersCanBeCancelled
    <2> SUFFICES ASSUME Inv, IsPreflight, call.order.outcome = "read", Ready(call),
                        call.order.id = "text",
                        call.order.status \in {"", NoValue}
                            <=> call.order.financial_status \notin {"", NoValue}
                 PROVE  Normalizes(call.order) /\ EligibleTestOrder(ObservedOrder(call.order))
      BY DEF ReadyOrdersCanBeCancelled
    <2> DEFINE order == call.order
               status == Either(order.financial_status, order.status)
    <2>1. call \in Preflights
      BY CallsAreDistinct DEF Inv, IsPreflight
    <2>2. order \in OrderPayload /\ order # NotAsked /\ order # Unreadable
      BY <2>1, ReadOrders
    <2>3. ValidateDemoOrder(order) = {}
      BY <2>2 DEF Ready, OrderFailures
    <2>4. /\ IsString(status) /\ status \notin TERMINAL_ORDER_STATUSES
          /\ order.fulfillment # "fulfilled"
      <3>1. "order.not_open" \notin ValidateDemoOrder(order)
        BY <2>3
      <3>2. "order.fulfilled" \notin ValidateDemoOrder(order)
        BY <2>3
      <3> QED
        BY <3>1, <3>2 DEF ValidateDemoOrder
    <2>5. NormalizedStatus(order) = status /\ status # ""
      <3>1. CASE order.status \in {"", NoValue} /\ order.financial_status \notin {"", NoValue}
        BY <3>1 DEF NormalizedStatus, Either
      <3>2. CASE order.status \notin {"", NoValue} /\ order.financial_status \in {"", NoValue}
        BY <3>2 DEF NormalizedStatus, Either
      <3> QED
        BY <3>1, <3>2
    <2> HIDE DEF status
    <2>6. /\ ObservedOrder(order).status = status
          /\ ObservedOrder(order).fulfillment = order.fulfillment
          /\ ObservedOrder(order) # NoValue
      BY <2>2, <2>5, DecisionAssumption DEF ObservedOrder
    <2> QED
      BY <2>4, <2>5, <2>6 DEF Normalizes, EligibleTestOrder
  <1> QED
    BY <1>1, CallsHold, PTL

\* A limit that is known, and smaller, or a value that is greater, denies more.
LEMMA PolicyOnlyTightens ==
    ASSUME Inv, StopAtObserving \/ OpenConflict \/ RaiseValue \/ LowerLimit, Grants(call')
    PROVE  Grants(call)
  <1>1. call \in Calls /\ call' \in Calls
    BY PolicyStepsKeepCalls
  <1>2. Decision(call').status = "approval_required"
    BY <1>1 DEF Grants
  <1>3. /\ call'.role \in {"operations", "finance", "system"}
        /\ call'.mode = "demo_proposal" /\ ~call'.has_conflict
        /\ ~OverLimit(call'.order_value, call'.value_limit)
        /\ call'.action_type = "cancel_order" => call'.role = "operations"
    BY <1>1, <1>2, PolicyGrants
  <1>4. call'.role = call.role /\ call'.action_type = call.action_type
    BY <1>1 DEF StopAtObserving, OpenConflict, RaiseValue, LowerLimit, Calls
  <1>5. call.mode = "demo_proposal" /\ ~call.has_conflict
    BY <1>1, <1>3 DEF StopAtObserving, OpenConflict, RaiseValue, LowerLimit, Calls
  <1>6. ~OverLimit(call.order_value, call.value_limit)
    <2>1. call.order_value \in Amounts /\ call.value_limit \in Amounts
      BY <1>1 DEF Calls
    <2>2. CASE StopAtObserving \/ OpenConflict
      BY <1>1, <1>3, <2>2 DEF StopAtObserving, OpenConflict, Calls
    <2>3. CASE RaiseValue
      <3>1. PICK v \in 0..MaxValue :
                /\ call.order_value # NoValue => v > call.order_value
                /\ call' = [call EXCEPT !.order_value = v]
        BY <2>3 DEF RaiseValue
      <3>2. call'.order_value = v /\ call'.value_limit = call.value_limit
        BY <1>1, <3>1 DEF Calls
      <3>3. call.order_value # NoValue => v # NoValue
        BY <2>1, <3>1, DecisionAssumption DEF Amounts
      <3> QED
        BY <1>3, <2>1, <3>1, <3>2, <3>3, DecisionAssumption DEF OverLimit, Amounts
    <2>4. CASE LowerLimit
      <3>1. PICK v \in 0..MaxValue :
                /\ call.value_limit # NoValue => v < call.value_limit
                /\ call' = [call EXCEPT !.value_limit = v]
        BY <2>4 DEF LowerLimit
      <3>2. call'.value_limit = v /\ call'.order_value = call.order_value
        BY <1>1, <3>1 DEF Calls
      <3> QED
        BY <1>3, <2>1, <3>1, <3>2, DecisionAssumption DEF OverLimit, Amounts
    <2> QED
      BY <2>2, <2>3, <2>4
  <1> QED
    BY <1>1, <1>3, <1>4, <1>5, <1>6, PolicyGrants DEF Grants

\* What a ready preflight has found, part by part.
LEMMA ReadyMeans ==
    ASSUME NEW p \in Preflights
    PROVE  Ready(p) <=> /\ p.healthy = {"shopify", "easypost"}
                        /\ OrderFailures(p) = {} /\ ShipmentFailures(p) = {}
  <1>1. p.healthy \subseteq {"shopify", "easypost"}
    BY DEF Preflights
  <1>2. ConnectorFailures(p) = {"shopify", "easypost"} \ p.healthy
    <2>1. \A c \in {"shopify", "easypost"} :
              Required(c) \subseteq Capabilities(c, p.healthy) <=> c \in p.healthy
      BY DEF Required, Capabilities
    <2> QED
      BY <2>1 DEF ConnectorFailures
  <1>3. ConnectorFailures(p) = {} <=> p.healthy = {"shopify", "easypost"}
    BY <1>1, <1>2
  <1> QED
    BY <1>3 DEF Ready

\* A target asked for and judged, while its connector is up.
LEMMA OrderIsJudged ==
    ASSUME NEW p \in Preflights, p.healthy = {"shopify", "easypost"}, p.order # NotAsked
    PROVE  OrderFailures(p) = IF p.order = Unreadable THEN {"order.read_failed"}
                              ELSE ValidateDemoOrder(p.order)
  BY DEF OrderFailures, Capabilities

LEMMA PreflightOnlyTightens ==
    ASSUME Inv, GoDown \/ Fulfil \/ Close \/ LoseTargets, Grants(call')
    PROVE  Grants(call)
  <1>1. call \in Preflights /\ call' \in Preflights
    BY PreflightStepsKeepPreflights
  <1>2. call \notin Calls /\ call' \notin Calls
    BY <1>1, CallsAreDistinct
  <1>3. Ready(call')
    BY <1>2 DEF Grants
  <1>4. /\ call'.healthy = {"shopify", "easypost"}
        /\ OrderFailures(call') = {} /\ ShipmentFailures(call') = {}
    BY <1>1, <1>3, ReadyMeans
  <1>5. NotAsked # Unreadable /\ NotAsked.outcome # "read" /\ Unreadable.outcome # "read"
    BY DEF NotAsked, Unreadable
  <1>6. ~GoDown
    BY <1>1, <1>4 DEF GoDown, Preflights
  <1>7. ~LoseTargets
    <2>1. ASSUME call' = [call EXCEPT !.order = Unreadable]
          PROVE  FALSE
      <3>1. call'.order = Unreadable
        BY <1>1, <2>1 DEF Preflights
      <3> QED
        BY <1>1, <1>4, <1>5, <3>1, OrderIsJudged
    <2>2. ASSUME call' = [call EXCEPT !.shipment = Unreadable]
          PROVE  FALSE
      <3>1. call'.shipment = Unreadable
        BY <1>1, <2>2 DEF Preflights
      <3> QED
        BY <1>1, <1>4, <1>5, <3>1 DEF ShipmentFailures, Capabilities
    <2> QED
      BY <2>1, <2>2 DEF LoseTargets
  <1>8. ASSUME Fulfil \/ Close
        PROVE  Ready(call)
    <2>1. call.order \in OrderPayload /\ call.order # NotAsked /\ call.order # Unreadable
      BY <1>1, <1>8, ReadOrders DEF Fulfil, Close
    <2>2. /\ call'.healthy = call.healthy /\ call'.shipment = call.shipment
          /\ call'.order.outcome = "read"
      BY <1>1, <1>8, <2>1 DEF Fulfil, Close, Preflights, OrderPayload
    <2>3. call'.order # NotAsked /\ call'.order # Unreadable
      BY <1>1, <2>2, ReadOrders
    <2>4. ValidateDemoOrder(call'.order) = {}
      BY <1>1, <1>4, <2>3, OrderIsJudged
    <2>5. ~Fulfil
      <3>1. "order.fulfilled" \notin ValidateDemoOrder(call'.order)
        BY <2>4
      <3>2. call'.order.fulfillment # "fulfilled"
        BY <3>1 DEF ValidateDemoOrder
      <3> QED
        BY <1>1, <2>1, <3>2 DEF Fulfil, Preflights, OrderPayload
    <2>6. PICK s \in TERMINAL_ORDER_STATUSES : call' = [call EXCEPT !.order.status = s]
      BY <1>8, <2>5 DEF Close
    <2>7. /\ call'.order.status = s /\ call'.order.ours = call.order.ours
          /\ call'.order.financial_status = call.order.financial_status
          /\ call'.order.fulfillment = call.order.fulfillment
      BY <1>1, <2>1, <2>6 DEF Preflights, OrderPayload
    <2>8. "order.not_open" \notin ValidateDemoOrder(call'.order)
      BY <2>4
    <2>9. call.order.financial_status \notin {NoValue, ""}
      BY <2>7, <2>8 DEF ValidateDemoOrder, Either
    <2>10. Either(call.order.financial_status, call.order.status)
               = Either(call'.order.financial_status, call'.order.status)
      BY <2>7, <2>9 DEF Either
    <2>11. ValidateDemoOrder(call.order) = ValidateDemoOrder(call'.order)
      BY <2>7, <2>10 DEF ValidateDemoOrder
    <2>12. OrderFailures(call) = {}
      BY <1>1, <1>4, <2>1, <2>2, <2>4, <2>11, OrderIsJudged
    <2>13. ShipmentFailures(call) = {}
      BY <1>4, <2>2 DEF ShipmentFailures
    <2> QED
      BY <1>1, <1>4, <2>2, <2>12, <2>13, ReadyMeans
  <1> QED
    BY <1>2, <1>6, <1>7, <1>8 DEF Grants

\* Whatever gets worse between two calls, evaluate_policy and preflight_demo
\* grant nothing that they refused before, for every value and limit.
THEOREM TighteningHolds == Spec => TighteningNeverGrants
  <1>1. ASSUME Inv, [Next]_vars, call' # call
        PROVE  Grants(call') => Grants(call)
    BY <1>1, PolicyOnlyTightens, PreflightOnlyTightens DEF Next, vars
  <1>2. Inv /\ [Next]_vars => [Grants(call') => Grants(call)]_vars
    BY <1>1 DEF vars
  <1> QED
    BY <1>2, CallsHold, PTL DEF Spec, TighteningNeverGrants
=============================================================================
