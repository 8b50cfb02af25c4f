----------------------------- MODULE DecisionChecks -----------------------------
(***************************************************************************)
(* The program's pure decisions: evaluate_policy against a statement of it *)
(* that has no order of rules, and preflight_demo against what becomes of  *)
(* the order it lets through.  A state is the arguments of one call; a step*)
(* makes the facts worse, as an operator, an observation or a provider     *)
(* does: the workspace stops at observing, a conflict opens, the order is  *)
(* worth more, the limit is lowered; a connector goes down, an order is    *)
(* fulfilled or closed, a target cannot be read.                           *)
(***************************************************************************)
EXTENDS Preflight

CONSTANT MaxValue    \* bound on order values and limits

\* Python's None is no amount and no state.
ASSUME DecisionAssumption ==
    /\ MaxValue \in Nat /\ NoValue \notin Nat
    /\ \A order \in OrderPayload : ObservedOrder(order) # NoValue

Amounts == 0..MaxValue \cup {NoValue}

VARIABLE call
vars == call

Calls == [action_type : ActionTypes, role : Roles, mode : Modes,
          order_value : Amounts, value_limit : Amounts, has_conflict : BOOLEAN]

Decision(c) == EvaluatePolicy(c.action_type, c.role, c.mode, c.order_value,
                              c.value_limit, c.has_conflict)

\* A call that lets somebody go on: to an approval, to a live demo.
Grants(c) == IF c \in Calls THEN Decision(c).status = "approval_required" ELSE Ready(c)

-----------------------------------------------------------------------------
IsPolicyCall == "role" \in DOMAIN call
IsPreflight == "healthy" \in DOMAIN call

StopAtObserving == IsPolicyCall /\ call' = [call EXCEPT !.mode = "observe_only"]
OpenConflict == IsPolicyCall /\ call' = [call EXCEPT !.has_conflict = TRUE]

RaiseValue ==
    /\ IsPolicyCall
    /\ \E v \in 0..MaxValue :
        /\ call.order_value # NoValue => v > call.order_value
        /\ call' = [call EXCEPT !.order_value = v]

LowerLimit ==
    /\ IsPolicyCall
    /\ \E v \in 0..MaxValue :
        /\ call.value_limit # NoValue => v < call.value_limit
        /\ call' = [call EXCEPT !.value_limit = v]

GoDown ==
    /\ IsPreflight
    /\ \E c \in call.healthy : call' = [call EXCEPT !.healthy = @ \ {c}]

Fulfil ==
    /\ IsPreflight /\ call.order.outcome = "read"
    /\ call' = [call EXCEPT !.order.fulfillment = "fulfilled"]

Close ==
    /\ IsPreflight /\ call.order.outcome = "read"
    /\ \E status \in TERMINAL_ORDER_STATUSES :
        call' = [call EXCEPT !.order.status = status]

LoseTargets ==
    /\ IsPreflight
    /\ \/ call.order # NotAsked /\ call' = [call EXCEPT !.order = Unreadable]
       \/ call.shipment # NotAsked /\ call' = [call EXCEPT !.shipment = Unreadable]

Init == call \in Calls \cup Preflights

Next ==
    \/ StopAtObserving \/ OpenConflict \/ RaiseValue \/ LowerLimit
    \/ GoDown \/ Fulfil \/ Close \/ LoseTargets

Spec == Init /\ [][Next]_vars

-----------------------------------------------------------------------------
\* The outcome does not depend on the order of the rules: a call reaches an
\* approver exactly when a known role that may write, in a workspace that
\* proposes, targets an order with no open conflict whose known value is at
\* most the limit, and the action is Operations' cancellation or one of the
\* proposal-only kinds (policy.py:18-97).
PolicyMatchesReference ==
    IsPolicyCall =>
    (Decision(call).status = "approval_required" <=>
        /\ call.role \in {"operations", "finance", "system"}
        /\ call.mode = "demo_proposal" /\ ~call.has_conflict
        /\ NoValue \in {call.order_value, call.value_limit}
              \/ call.order_value <= call.value_limit
        /\ call.action_type = "cancel_order" => call.role = "operations")

\* Worse facts never turn a refusal into a grant; in particular a value that
\* becomes known, or a limit that is set, only denies (policy.py:35-69), and
\* nothing that happens to a target makes it ready (onboarding.py:92-147).
TighteningNeverGrants ==
    [][Grants(call') => Grants(call)]_vars

\* The order that a successful preflight was asked for can be observed, is
\* eligible when execute looks at it and is the one the proposal expects, if
\* its id is a string and one field alone tells its status: the preflight
\* (onboarding.py:196) and the normaliser (shopify.py:32-35) read both
\* fields in opposite orders, and ids in different types.
ReadyOrdersCanBeCancelled ==
    IsPreflight /\ call.order.outcome = "read" /\ Ready(call)
        /\ call.order.id = "text"
        /\ (call.order.status \in {"", NoValue} <=> call.order.financial_status \notin {"", NoValue})
    => /\ Normalizes(call.order)
       /\ EligibleTestOrder(ObservedOrder(call.order))

\* docs/demo-runbook.md:97, 200 and 203: the target of a ready preflight is
\* open and unfulfilled, and visible once it is observed, whatever its payload.
ReadyOrdersAreVisible ==
    IsPreflight /\ call.order.outcome = "read" /\ Ready(call) => Normalizes(call.order)
=============================================================================
