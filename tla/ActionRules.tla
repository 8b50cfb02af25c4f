------------------------------ MODULE ActionRules ------------------------------
(***************************************************************************)
(* The decisions of reality_layer.actions as pure operators: the policy    *)
(* that judges a proposal, the preconditions of an approval, the           *)
(* eligibility test in front of a provider write, the verdict of a         *)
(* verification read, and the status each event of the action log stands   *)
(* for.  ActionService (one process) and DurableActions (several processes *)
(* over one database) take their decisions here.                           *)
(*                                                                         *)
(* Reasons, names of policies and evidence texts are left out; a proposal's*)
(* expected_attributes are abstracted to the one attribute every caller    *)
(* sends, the order's status.                                              *)
(***************************************************************************)
EXTENDS Naturals

CONSTANT NoValue     \* Python's None: an absent value, row, state or receipt

-----------------------------------------------------------------------------
(* The vocabulary of actions/models.py and actions/policy.py.              *)

ActionTypes == {"cancel_order", "hold_order", "update_shipping_address"}

ProposerRoles == {"observer", "operations", "finance", "system"}

\* A role is whatever the request's header says; "guest" stands for the others.
Roles == ProposerRoles \cup {"guest"}

Modes == {"observe_only", "demo_proposal"}

ActionStatus == {"approval_required", "approved", "rejected", "denied",
                 "precondition_failed", "provider_accepted",
                 "verification_pending", "verified", "verification_failed",
                 "state_diverged"}

VERIFIABLE_STATUSES == {"provider_accepted", "verification_pending"}

TERMINAL_VERIFICATION_STATUSES ==
    {"verified", "verification_failed", "state_diverged"}

\* An order attribute takes one of these values, or is missing (NoValue).
OrderStatuses == {"open", "closed", "cancelled"}
TERMINAL_ORDER_STATUSES == {"closed", "cancelled"}
Fulfillments == {"unfulfilled", "fulfilled"}

-----------------------------------------------------------------------------
(* evaluate_policy.  The rules are tried from the first to the last; the   *)
(* decision is that of the first rule that matches.                        *)

Denied(rule) ==
    [status |-> "denied", rule |-> rule, required_role |-> NoValue]

NeedsOperations(rule) ==
    [status |-> "approval_required", rule |-> rule,
     required_role |-> "operations"]

\* Slips of the limit rule: refusing at the limit, and comparing the wrong way.
OverLimitInclusive(order_value, value_limit) ==
    value_limit # NoValue /\ order_value # NoValue /\ order_value >= value_limit

UnderLimit(order_value, value_limit) ==
    value_limit # NoValue /\ order_value # NoValue /\ order_value < value_limit

OverLimit(order_value, value_limit) ==
    /\ value_limit # NoValue
    /\ order_value # NoValue
    /\ order_value > value_limit

EvaluatePolicy(action_type, role, mode, order_value, value_limit, has_conflict) ==
    IF role \notin ProposerRoles THEN Denied(NoValue)
    ELSE IF role = "observer" THEN Denied("deny.observer.write")
    ELSE IF mode = "observe_only" THEN Denied("deny.workspace.observe_only")
    ELSE IF has_conflict THEN Denied("deny.conflict.unresolved")
    ELSE IF OverLimit(order_value, value_limit)
         THEN Denied("deny.threshold.value")
    ELSE IF action_type = "cancel_order" /\ role = "operations"
         THEN NeedsOperations("approval.operations.cancel_order")
    ELSE IF action_type \in {"hold_order", "update_shipping_address"}
         THEN NeedsOperations("approval.mvp.proposal_only")
    ELSE Denied("deny.default")

-----------------------------------------------------------------------------
(* ActionService._check_preconditions, run by an approval.                 *)

PreconditionsHold(proposal, state) ==
    /\ state # NoValue
    /\ state.version = proposal.expected_version
    /\ proposal.expected_status # NoValue =>
           state.status = proposal.expected_status

\* A slip: any role may approve.
ApprovalEventAnyRole(required_role, proposal, role, state) ==
    IF PreconditionsHold(proposal, state) THEN "approved"
    ELSE "precondition_failed"

\* The event an approval by role appends; its branches are tried in order.
ApprovalEvent(required_role, proposal, role, state) ==
    IF role # required_role THEN "approval_denied"
    ELSE IF PreconditionsHold(proposal, state) THEN "approved"
    ELSE "precondition_failed"

(* ActionService._require_eligible_test_order, run by an execution.        *)
EligibleTestOrder(state) ==
    /\ state # NoValue
    /\ state.status \notin TERMINAL_ORDER_STATUSES
    /\ state.fulfillment # "fulfilled"

(* The verdict of ActionService.verify on the state read back.             *)
ObservedStatus(state) == IF state = NoValue THEN NoValue ELSE state.status

VerificationEvent(state, is_final_attempt) ==
    IF ObservedStatus(state) = "cancelled" THEN "verified"
    ELSE IF ~is_final_attempt THEN "verification_pending"
    ELSE IF ObservedStatus(state) = NoValue THEN "verification_failed"
    ELSE "state_diverged"

\* A slip: the name of the event taken for the status.
StatusAfterVerbatim(event_type) == event_type

\* The status an event sets: the names agree but for a refused approver.
StatusAfter(event_type) ==
    IF event_type = "approval_denied" THEN "denied" ELSE event_type
=============================================================================
