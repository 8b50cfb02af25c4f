----------------------------- MODULE ActionService -----------------------------
(***************************************************************************)
(* One ActionService of reality_layer.actions.service, held by one process *)
(* and called by the threads of its request pool.  An action is proposed,  *)
(* judged by the policy, approved or rejected by a person, executed once   *)
(* against the provider and verified by reading the order back.            *)
(*                                                                         *)
(* Every method but execute is one step: it neither waits nor calls out.   *)
(* execute is three, since it calls the provider between its checks and    *)
(* its writes: ExecuteStart, then ProviderAccepts or ProviderFails.  The   *)
(* World State is an environment here: any observation may move an order.  *)
(***************************************************************************)
EXTENDS ActionRules, Sequences

CONSTANTS
    Tenants,      \* tenants of the service
    ActionIds,    \* identifiers still to be minted by uuid4
    Keys,         \* idempotency keys a caller may choose
    Orders,       \* orders a proposal may target
    Threads,      \* request threads that can be inside execute
    Contexts,     \* what the policy is told: mode, value, limit, conflict
    MaxVersion,   \* bound on an order's state_version
    MaxCalls,     \* bound on the provider calls started for one action
    MaxEvents     \* length of a log beyond which nothing repeatable is added

PolicyContext == [mode : Modes, order_value : Nat \cup {NoValue},
                  value_limit : Nat \cup {NoValue}, has_conflict : BOOLEAN]

ASSUME ContextsAssumption == Contexts \subseteq PolicyContext
ASSUME BoundsAssumption ==
    MaxVersion \in Nat /\ MaxCalls \in Nat /\ MaxEvents \in Nat

VARIABLES
    actions,      \* _actions: proposal, decision, proposer and tenant by id
    idempotency,  \* _idempotency: the action of a tenant's key
    events,       \* _events: the log of an action
    executions,   \* _executions: the receipt of a tenant's key
    inflight,     \* the action whose provider call a thread is waiting for
    world,        \* the World State's projection of a tenant's order
    calls,        \* provider calls started for an action
    effects       \* cancellations the provider applied for an action

vars == <<actions, idempotency, events, executions, inflight, world, calls,
          effects>>

-----------------------------------------------------------------------------
(* Values.                                                                 *)

OrderState == [version : 1..MaxVersion,
               status : OrderStatuses \cup {NoValue},
               fulfillment : Fulfillments]

Proposal == [action_type : ActionTypes, order : Orders, key : Keys,
             expected_version : 1..MaxVersion,
             expected_status : {"open", NoValue}]

StoredAction == [proposal : Proposal, proposer_role : Roles, tenant : Tenants,
                 status : ActionStatus,
                 required_role : {"operations", NoValue}]

\* What restore reads from an event: its type, its actor, the status it sets
\* and, for a precondition failure, the stage that reported it.
Event == [type : {"policy_evaluated", "approval_denied"} \cup ActionStatus,
          role : Roles \cup {"approver", "verifier"},
          status : ActionStatus,
          stage : {"lifecycle", "execution"}]

\* The absent value is none of the values it may stand in for.
ASSUME NoValueAssumption ==
    /\ NoValue \notin ActionIds
    /\ NoValue \notin Roles
    /\ NoValue \notin ActionStatus
    /\ NoValue \notin StoredAction
    /\ NoValue \notin Tenants \X Keys

Stored == {a \in ActionIds : actions[a] # NoValue}
KeyOf(a) == <<actions[a].tenant, actions[a].proposal.key>>
StateOf(a) == world[<<actions[a].tenant, actions[a].proposal.order>>]
InFlight(a) == \E th \in Threads : inflight[th] = a

-----------------------------------------------------------------------------
(* The two writes every transition is made of.                             *)

AppendEvent(a, type, role, stage) ==
    events' = [events EXCEPT ![a] =
        Append(@, [type |-> type, role |-> role,
                   status |-> StatusAfter(type), stage |-> stage])]

SetStatus(a, status) == actions' = [actions EXCEPT ![a].status = status]

\* A slip: the event is appended before the status is assigned.
TransitionLogsFirst(a, type, role) ==
    /\ SetStatus(a, StatusAfter(type))
    /\ events' = [events EXCEPT ![a] =
          Append(@, [type |-> type, role |-> role,
                     status |-> actions[a].status, stage |-> "lifecycle"])]

\* The status change and the event that records it.
Transition(a, type, role) ==
    /\ SetStatus(a, StatusAfter(type))
    /\ AppendEvent(a, type, role, "lifecycle")

\* _get and _check_tenant: anyone but the owner sees an unknown action.
Owns(t, a) == a \in Stored /\ actions[a].tenant = t

-----------------------------------------------------------------------------
(* propose.  A key seen before returns the decision already made, which    *)
(* changes nothing; a new key mints an action and logs the policy verdict. *)

\* A slip: the key is not looked up, so a retry mints a second action.
ProposeAgain(t, p, role, c) ==
    /\ \E a \in ActionIds \ Stored :
         /\ actions' = [actions EXCEPT ![a] =
                [proposal |-> p, proposer_role |-> role, tenant |-> t,
                 status |-> "approval_required", required_role |-> "operations"]]
         /\ idempotency' = [idempotency EXCEPT ![<<t, p.key>>] = a]
         /\ AppendEvent(a, "approval_required", role, "lifecycle")
    /\ UNCHANGED <<executions, inflight, world, calls, effects>>

Propose(t, p, role, c) ==
    /\ idempotency[<<t, p.key>>] = NoValue
    /\ \E a \in ActionIds \ Stored :
         LET decision == EvaluatePolicy(p.action_type, role, c.mode,
                             c.order_value, c.value_limit, c.has_conflict)
         IN  /\ actions' = [actions EXCEPT ![a] =
                    [proposal |-> p, proposer_role |-> role, tenant |-> t,
                     status |-> decision.status,
                     required_role |-> decision.required_role]]
             /\ idempotency' = [idempotency EXCEPT ![<<t, p.key>>] = a]
             /\ events' = [events EXCEPT ![a] =
                    Append(@, [type |-> "policy_evaluated", role |-> role,
                               status |-> decision.status,
                               stage |-> "lifecycle"])]
    /\ UNCHANGED <<executions, inflight, world, calls, effects>>

(* approve.  The wrong role closes the action for good; a target that      *)
(* moved since the proposal fails its precondition.                        *)
\* A slip: an action already denied can be approved by another person.
ApproveDenied(t, a, role) ==
    /\ Owns(t, a)
    /\ actions[a].status \in {"approval_required", "denied"}
    /\ Transition(a, "approved", role)
    /\ UNCHANGED <<idempotency, executions, inflight, world, calls, effects>>

Approve(t, a, role) ==
    /\ Owns(t, a)
    /\ actions[a].status = "approval_required"
    /\ Transition(a, ApprovalEvent(actions[a].required_role,
                                   actions[a].proposal, role, StateOf(a)), role)
    /\ UNCHANGED <<idempotency, executions, inflight, world, calls, effects>>

(* reject.  No role is asked for.                                          *)
\* A slip: an approval already given can be rejected.
RejectApproved(t, a) ==
    /\ Owns(t, a)
    /\ actions[a].status \in {"approval_required", "approved"}
    /\ Transition(a, "rejected", "approver")
    /\ UNCHANGED <<idempotency, executions, inflight, world, calls, effects>>

Reject(t, a) ==
    /\ Owns(t, a)
    /\ actions[a].status = "approval_required"
    /\ Transition(a, "rejected", "approver")
    /\ UNCHANGED <<idempotency, executions, inflight, world, calls, effects>>

(* execute, up to the provider call.  A receipt on record is returned and  *)
(* nothing changes; anything but an approved cancel_order is an error.     *)
\* A slip: a retry is let through after the acceptance.
MayExecuteAgain(t, a) ==
    /\ Owns(t, a)
    /\ actions[a].status \in {"approved"} \cup VERIFIABLE_STATUSES
    /\ actions[a].proposal.action_type = "cancel_order"

MayExecute(t, a) ==
    /\ Owns(t, a)
    /\ executions[KeyOf(a)] = NoValue
    /\ actions[a].status = "approved"
    /\ actions[a].proposal.action_type = "cancel_order"

ExecuteStart(th, t, a) ==
    /\ inflight[th] = NoValue
    /\ MayExecute(t, a)
    /\ EligibleTestOrder(StateOf(a))
    /\ calls[a] < MaxCalls
    /\ inflight' = [inflight EXCEPT ![th] = a]
    /\ calls' = [calls EXCEPT ![a] = @ + 1]
    /\ UNCHANGED <<actions, idempotency, events, executions, world, effects>>

\* _require_eligible_test_order logs the failure, keeps the status and raises.
ExecuteIneligible(t, a) ==
    /\ MayExecute(t, a)
    /\ ~EligibleTestOrder(StateOf(a))
    /\ Len(events[a]) < MaxEvents
    /\ AppendEvent(a, "precondition_failed", "system", "execution")
    /\ UNCHANGED <<actions, idempotency, executions, inflight, world, calls,
                   effects>>

(* execute, after the provider call: nothing is read again.                *)

\* Slip: the receipt is recorded for every tenant.
ProviderAcceptsForAll(th) ==
    /\ inflight[th] # NoValue
    /\ LET a == inflight[th] IN
         /\ Transition(a, "provider_accepted", "system")
         /\ executions' = [k \in DOMAIN executions |->
                IF k[2] = KeyOf(a)[2] THEN a ELSE executions[k]]
         /\ effects' = [effects EXCEPT ![a] = @ + 1]
    /\ inflight' = [inflight EXCEPT ![th] = NoValue]
    /\ UNCHANGED <<idempotency, world, calls>>

ProviderAccepts(th) ==
    /\ inflight[th] # NoValue
    /\ LET a == inflight[th] IN
         /\ Transition(a, "provider_accepted", "system")
         /\ executions' = [executions EXCEPT ![KeyOf(a)] = a]
         /\ effects' = [effects EXCEPT ![a] = @ + 1]
    /\ inflight' = [inflight EXCEPT ![th] = NoValue]
    /\ UNCHANGED <<idempotency, world, calls>>

\* The call raised: execute is abandoned, the write may or may not be applied.
ProviderFails(th) ==
    /\ inflight[th] # NoValue
    /\ \E applied \in {0, 1} :
         effects' = [effects EXCEPT ![inflight[th]] = @ + applied]
    /\ inflight' = [inflight EXCEPT ![th] = NoValue]
    /\ UNCHANGED <<actions, idempotency, events, executions, world, calls>>

\* A slip: a verdict already given can be given again.
VerifyAgain(t, a, is_final_attempt) ==
    /\ Owns(t, a)
    /\ actions[a].status \in
          VERIFIABLE_STATUSES \cup TERMINAL_VERIFICATION_STATUSES
    /\ Len(events[a]) < MaxEvents
    /\ Transition(a, VerificationEvent(StateOf(a), is_final_attempt), "verifier")
    /\ UNCHANGED <<idempotency, executions, inflight, world, calls, effects>>

(* verify, on the state compiled from the read-back.                       *)
Verify(t, a, is_final_attempt) ==
    LET verdict == VerificationEvent(StateOf(a), is_final_attempt) IN
    /\ Owns(t, a)
    /\ actions[a].status \in VERIFIABLE_STATUSES
    /\ verdict = "verification_pending" => Len(events[a]) < MaxEvents
    /\ Transition(a, verdict, "verifier")
    /\ UNCHANGED <<idempotency, executions, inflight, world, calls, effects>>

(* The environment: an observation creates or moves an order's projection. *)
NextVersion(state) == IF state = NoValue THEN 1 ELSE state.version + 1

Observe(t, o) ==
    /\ \E s \in OrderState :
         /\ s.version = NextVersion(world[<<t, o>>])
         /\ world' = [world EXCEPT ![<<t, o>>] = s]
    /\ UNCHANGED <<actions, idempotency, events, executions, inflight, calls,
                   effects>>

-----------------------------------------------------------------------------
Init ==
    /\ actions = [a \in ActionIds |-> NoValue]
    /\ idempotency = [k \in Tenants \X Keys |-> NoValue]
    /\ events = [a \in ActionIds |-> <<>>]
    /\ executions = [k \in Tenants \X Keys |-> NoValue]
    /\ inflight = [th \in Threads |-> NoValue]
    /\ world = [e \in Tenants \X Orders |-> NoValue]
    /\ calls = [a \in ActionIds |-> 0]
    /\ effects = [a \in ActionIds |-> 0]

Next ==
    \/ \E t \in Tenants, p \in Proposal, role \in Roles, c \in Contexts :
          Propose(t, p, role, c)
    \/ \E t \in Tenants, a \in ActionIds, role \in Roles : Approve(t, a, role)
    \/ \E t \in Tenants, a \in ActionIds : Reject(t, a)
    \/ \E th \in Threads, t \in Tenants, a \in ActionIds :
          ExecuteStart(th, t, a)
    \/ \E t \in Tenants, a \in ActionIds : ExecuteIneligible(t, a)
    \/ \E th \in Threads : ProviderAccepts(th)
    \/ \E th \in Threads : ProviderFails(th)
    \/ \E t \in Tenants, a \in ActionIds, is_final_attempt \in BOOLEAN :
          Verify(t, a, is_final_attempt)
    \/ \E t \in Tenants, o \in Orders : Observe(t, o)

Spec == Init /\ [][Next]_vars

-----------------------------------------------------------------------------
(* The proof bundle of ActionService.proof, as far as it makes claims.     *)

Positions(a, types) == {i \in DOMAIN events[a] : events[a][i].type \in types}

HasEvent(a, type) == Positions(a, {type}) # {}

AssuranceLevel(a) ==
    IF actions[a].status = "verified" THEN "verified"
    ELSE IF HasEvent(a, "provider_accepted") THEN "accepted"
    ELSE "observed"

\* The last terminal verification event, or else the last attempt.
VerificationResult(a) ==
    LET terminal == Positions(a, TERMINAL_VERIFICATION_STATUSES)
        attempts == Positions(a, {"verification_pending"})
        LastOf(s) == events[a][CHOOSE i \in s : \A j \in s : j <= i].type
    IN  IF terminal # {} THEN LastOf(terminal)
        ELSE IF attempts # {} THEN LastOf(attempts)
        ELSE NoValue

-----------------------------------------------------------------------------
(* Properties.                                                             *)

\* Every variable holds values of the Python dictionary it stands for.
TypeOK ==
    /\ actions \in [ActionIds -> StoredAction \cup {NoValue}]
    /\ idempotency \in [Tenants \X Keys -> ActionIds \cup {NoValue}]
    /\ events \in [ActionIds -> Seq(Event)]
    /\ executions \in [Tenants \X Keys -> ActionIds \cup {NoValue}]
    /\ inflight \in [Threads -> ActionIds \cup {NoValue}]
    /\ world \in [Tenants \X Orders -> OrderState \cup {NoValue}]
    /\ calls \in [ActionIds -> Nat]
    /\ effects \in [ActionIds -> Nat]

\* A provider write, pending or applied, is on behalf of a cancellation that
\* the policy sent to an approver, that was approved by the role the policy
\* named, and that nobody refused at any time (propose, approve, reject and
\* execute of service.py together).
Authorized(a) ==
    /\ a \in Stored
    /\ actions[a].proposal.action_type = "cancel_order"
    /\ \E i, j \in DOMAIN events[a] :
         /\ i < j
         /\ events[a][i].type = "policy_evaluated"
         /\ events[a][i].status = "approval_required"
         /\ events[a][j].type = "approved"
         /\ events[a][j].role = actions[a].required_role
    /\ Positions(a, {"rejected", "approval_denied"}) = {}

EffectsAreAuthorized ==
    \A a \in ActionIds : effects[a] > 0 \/ InFlight(a) => Authorized(a)

\* Replaying the log gives the status in memory: the last event carries it,
\* except that the execution-stage precondition failure leaves an approved
\* action approved (service.py, _require_eligible_test_order).
StatusFollowsLog ==
    \A a \in Stored :
        LET last == events[a][Len(events[a])] IN
        /\ events[a] # <<>>
        /\ \/ actions[a].status = last.status
           \/ last.stage = "execution" /\ actions[a].status = "approved"

\* What get_action_status is documented to do (docs/mvp-design.md:512): the
\* current status is that of the latest event.
StatusIsLatestEvent ==
    \A a \in Stored : actions[a].status = events[a][Len(events[a])].status

\* One action per tenant and idempotency key, found again through the index:
\* a retried propose can never mint a second action.
OneActionPerKey ==
    \A a \in Stored : idempotency[KeyOf(a)] = a

\* A recorded receipt, the log of the action that owns the key and the
\* provider agree: a receipt exists exactly where an acceptance was logged,
\* it belongs to the key's own action, and the provider applied that write.
ReceiptsMatchLog ==
    /\ \A k \in Tenants \X Keys : executions[k] # NoValue =>
          /\ executions[k] \in Stored
          /\ KeyOf(executions[k]) = k
          /\ effects[executions[k]] > 0
    /\ \A a \in Stored :
          HasEvent(a, "provider_accepted") <=> executions[KeyOf(a)] = a

\* An action that ended in a refusal never reached the provider and, as
\* nothing leaves these statuses, never will.
RefusedNeverReachesProvider ==
    \A a \in Stored :
        actions[a].status \in {"denied", "rejected", "precondition_failed"} =>
            effects[a] = 0 /\ ~InFlight(a) /\ executions[KeyOf(a)] # a

\* An approved action executes at most once (docs/mvp-design.md:741): the log
\* of an action holds at most one provider acceptance.
AcceptedOnce ==
    \A a \in ActionIds : \A i, j \in Positions(a, {"provider_accepted"}) : i = j

\* The bundle's assurance level and its verification evidence, taken from
\* different data (status, log), tell the same story.
ProofBundleConsistent ==
    \A a \in Stored :
        /\ AssuranceLevel(a) = "verified" <=> VerificationResult(a) = "verified"
        /\ VerificationResult(a) # NoValue => AssuranceLevel(a) # "observed"

\* No successful or in-flight execution exists for the key when the provider
\* is called (docs/mvp-design.md:397): two threads never wait for the
\* provider on behalf of one action.
NoOverlappingExecution ==
    \A th1, th2 \in Threads :
        inflight[th1] # NoValue /\ inflight[th1] = inflight[th2] => th1 = th2

\* The projection still matches the expected state when the provider is
\* called (docs/mvp-design.md:395-400 and 14.4).
ExecutesExpectedState ==
    [][\A th \in Threads :
        inflight[th] = NoValue /\ inflight'[th] # NoValue =>
            PreconditionsHold(actions[inflight'[th]].proposal,
                              StateOf(inflight'[th]))]_vars
=============================================================================
