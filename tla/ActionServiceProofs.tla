-------------------------- MODULE ActionServiceProofs --------------------------
(***************************************************************************)
(* What ActionService does for every set of tenants, keys, orders, threads *)
(* and policy contexts.                                                    *)
(***************************************************************************)
EXTENDS ActionRefinement, WellFoundedInduction, TLAPS

\* The policy either denies a proposal or sends it to Operations.
LEMMA PolicyVerdict ==
    ASSUME NEW action_type, NEW role, NEW mode, NEW order_value,
           NEW value_limit, NEW has_conflict,
           NEW d, d = EvaluatePolicy(action_type, role, mode, order_value,
                                     value_limit, has_conflict)
    PROVE  /\ d.status \in {"denied", "approval_required"}
           /\ d.required_role \in {"operations", NoValue}
           /\ d.status = "approval_required" => d.required_role = "operations"
  BY DEF EvaluatePolicy, Denied, NeedsOperations

\* An approval ends in one of three events, and only the required role approves.
LEMMA ApprovalVerdict ==
    ASSUME NEW required_role, NEW proposal, NEW role, NEW state,
           NEW e, e = ApprovalEvent(required_role, proposal, role, state)
    PROVE  /\ e \in {"approval_denied", "precondition_failed", "approved"}
           /\ e = "approved" => role = required_role
           /\ StatusAfter(e) \in {"denied", "precondition_failed", "approved"}
           /\ StatusAfter(e) = "approved" => e = "approved"
  BY DEF ApprovalEvent, StatusAfter

\* A verification ends in one of four events, each a status of the same name.
LEMMA VerificationVerdict ==
    ASSUME NEW state, NEW final,
           NEW e, e = VerificationEvent(state, final)
    PROVE  /\ e \in {"verification_pending"} \cup TERMINAL_VERIFICATION_STATUSES
           /\ StatusAfter(e) = e
  BY DEF VerificationEvent, StatusAfter, TERMINAL_VERIFICATION_STATUSES

-----------------------------------------------------------------------------
(* The inductive invariant.  TypeOK alone is not inductive: that a thread's *)
(* action is stored, that a stored action's log has the shape its status    *)
(* calls for, and that only granted actions are written are needed to carry *)
(* the safety properties over a step.                                       *)

GrantedStatuses ==
    {"approved"} \cup VERIFIABLE_STATUSES \cup TERMINAL_VERIFICATION_STATUSES

AcceptedStatuses == VERIFIABLE_STATUSES \cup TERMINAL_VERIFICATION_STATUSES

\* Nothing is known of an identifier that is still to be minted.
FreshIdsAreUnused ==
    /\ \A a \in ActionIds \ Stored : events[a] = <<>> /\ effects[a] = 0
    /\ \A th \in Threads : inflight[th] # NoValue => inflight[th] \in Stored

IndexIsSound ==
    \A k \in Tenants \X Keys : idempotency[k] # NoValue =>
        idempotency[k] \in Stored /\ KeyOf(idempotency[k]) = k

SentToApprover(a) ==
    /\ actions[a].required_role = "operations"
    /\ events[a][1].type = "policy_evaluated"
    /\ events[a][1].status = "approval_required"

AwaitingLog(a) == SentToApprover(a) /\ Len(events[a]) = 1

GrantedLog(a) ==
    /\ SentToApprover(a)
    /\ Len(events[a]) >= 2
    /\ events[a][2].type = "approved"
    /\ events[a][2].role = "operations"
    /\ \A i \in DOMAIN events[a] :
          events[a][i].type \notin {"rejected", "approval_denied"}

LogsFitStatus ==
    \A a \in Stored :
        /\ actions[a].status = "approval_required" => AwaitingLog(a)
        /\ actions[a].status \in GrantedStatuses => GrantedLog(a)

OnlyGrantedAreWritten ==
    \A a \in Stored : effects[a] > 0 \/ InFlight(a) =>
        /\ actions[a].status \in GrantedStatuses
        /\ actions[a].proposal.action_type = "cancel_order"

Inv ==
    /\ TypeOK
    /\ FreshIdsAreUnused
    /\ IndexIsSound
    /\ OneActionPerKey
    /\ StatusFollowsLog
    /\ LogsFitStatus
    /\ OnlyGrantedAreWritten
    /\ ReceiptsMatchLog

\* An absent value is not a stored action.
LEMMA StoredIsRecord ==
    ASSUME TypeOK, NEW a \in Stored
    PROVE  a \in ActionIds /\ actions[a] \in StoredAction
  BY DEF TypeOK, Stored

\* What appending one event does to a log.
LEMMA AppendFacts ==
    ASSUME NEW S, NEW s \in Seq(S), NEW e \in S, NEW t, t = Append(s, e)
    PROVE  /\ t \in Seq(S)
           /\ Len(t) = Len(s) + 1 /\ DOMAIN t = 1..(Len(s) + 1)
           /\ Len(s) \in Nat /\ DOMAIN s = 1..Len(s)
           /\ t # <<>> /\ t[Len(t)] = e /\ t[Len(s) + 1] = e
           /\ \A i \in 1..Len(s) : t[i] = s[i]
  OBVIOUS

\* The first event of a log.
LEMMA FirstEvent ==
    ASSUME NEW S, NEW s, s = <<>>, NEW e \in S, NEW t, t = Append(s, e)
    PROVE  /\ t \in Seq(S) /\ t # <<>>
           /\ Len(t) = 1 /\ DOMAIN t = 1..1 /\ t[1] = e
  <1>1. t = <<e>>
    OBVIOUS
  <1> QED
    BY <1>1

\* The event an action is about to append.
NewEvent(type, role, status, stage) ==
    [type |-> type, role |-> role, status |-> status, stage |-> stage]

\* Every event but the first of a log.
LaterTypes == {"approval_denied", "rejected", "approved", "precondition_failed",
               "provider_accepted", "verification_pending"}
                  \cup TERMINAL_VERIFICATION_STATUSES

\* An event that follows the policy's has the same name as the status it sets,
\* but for a refused approver.
LEMMA LaterEventType ==
    ASSUME NEW type \in LaterTypes,
           NEW role \in Roles \cup {"approver", "verifier"},
           NEW stage \in {"lifecycle", "execution"}
    PROVE  /\ StatusAfter(type) \in ActionStatus
           /\ NewEvent(type, role, StatusAfter(type), stage) \in Event
  BY DEF LaterTypes, StatusAfter, ActionStatus, Event, NewEvent,
         TERMINAL_VERIFICATION_STATUSES

\* A transition of a stored action rewrites its status, appends one event to
\* its log and touches nothing else of any action.
LEMMA TransitionEffect ==
    ASSUME TypeOK, NEW a \in Stored, NEW type \in LaterTypes,
           NEW role \in Roles \cup {"approver", "verifier"},
           Transition(a, type, role)
    PROVE  /\ actions' \in [ActionIds -> StoredAction \cup {NoValue}]
           /\ events' \in [ActionIds -> Seq(Event)]
           /\ Stored' = Stored
           /\ \A b \in ActionIds : b # a =>
                 actions'[b] = actions[b] /\ events'[b] = events[b]
           /\ actions'[a].status = StatusAfter(type)
           /\ actions'[a].required_role = actions[a].required_role
           /\ actions'[a].proposal = actions[a].proposal
           /\ actions'[a].tenant = actions[a].tenant
           /\ \A b \in Stored : KeyOf(b)' = KeyOf(b)
           /\ events'[a] = Append(events[a], NewEvent(type, role,
                                       StatusAfter(type), "lifecycle"))
  <1> USE NoValueAssumption
  <1>1. /\ StatusAfter(type) \in ActionStatus
        /\ NewEvent(type, role, StatusAfter(type), "lifecycle") \in Event
    BY LaterEventType
  <1>2. a \in ActionIds /\ actions[a] \in StoredAction
    BY StoredIsRecord
  <1>3. actions' = [actions EXCEPT ![a] =
                       [actions[a] EXCEPT !.status = StatusAfter(type)]]
    BY <1>2 DEF Transition, SetStatus, TypeOK
  <1>4. [actions[a] EXCEPT !.status = StatusAfter(type)] \in StoredAction
    BY <1>1, <1>2 DEF StoredAction
  <1>5. actions' \in [ActionIds -> StoredAction \cup {NoValue}]
    BY <1>2, <1>3, <1>4 DEF TypeOK
  <1>6. /\ actions'[a] = [actions[a] EXCEPT !.status = StatusAfter(type)]
        /\ \A b \in ActionIds : b # a => actions'[b] = actions[b]
    BY <1>2, <1>3 DEF TypeOK
  <1>7. actions'[a] # NoValue
    BY <1>4, <1>6
  <1>8. Stored' = Stored
    BY <1>2, <1>6, <1>7 DEF Stored
  <1>9. /\ events' \in [ActionIds -> Seq(Event)]
        /\ events'[a] = Append(events[a], NewEvent(type, role,
                                    StatusAfter(type), "lifecycle"))
        /\ \A b \in ActionIds : b # a => events'[b] = events[b]
    <2>1. events' = [events EXCEPT ![a] = Append(@, NewEvent(type, role,
                                    StatusAfter(type), "lifecycle"))]
      BY DEF Transition, AppendEvent, NewEvent
    <2>2. events[a] \in Seq(Event)
      BY <1>2 DEF TypeOK
    <2>3. Append(events[a], NewEvent(type, role, StatusAfter(type),
                                     "lifecycle")) \in Seq(Event)
      BY <1>1, <2>2, AppendFacts
    <2> QED
      BY <1>2, <2>1, <2>3 DEF TypeOK
  <1>10. /\ actions'[a].status = StatusAfter(type)
         /\ actions'[a].required_role = actions[a].required_role
         /\ actions'[a].proposal = actions[a].proposal
         /\ actions'[a].tenant = actions[a].tenant
    BY <1>2, <1>6 DEF StoredAction
  <1>11. \A b \in Stored : KeyOf(b)' = KeyOf(b)
    BY <1>6, <1>10 DEF KeyOf, Stored
  <1> QED
    BY <1>5, <1>6, <1>8, <1>9, <1>10, <1>11

\* What every transition preserves: the index, the fresh identifiers, and the
\* agreement of status and log.
LEMMA TransitionKeeps ==
    ASSUME Inv, NEW a \in Stored, NEW type \in LaterTypes,
           NEW role \in Roles \cup {"approver", "verifier"},
           Transition(a, type, role), UNCHANGED idempotency,
           \A b \in ActionIds \ Stored : effects'[b] = effects[b],
           \A th \in Threads : inflight'[th] \in {inflight[th], NoValue}
    PROVE  FreshIdsAreUnused' /\ IndexIsSound' /\ OneActionPerKey'
               /\ StatusFollowsLog'
  <1>1. TypeOK
    BY DEF Inv
  <1> DEFINE e == NewEvent(type, role, StatusAfter(type), "lifecycle")
  <1>2. e \in Event /\ e.status = StatusAfter(type) /\ e.type = type
    BY LaterEventType DEF NewEvent
  <1>3. events[a] \in Seq(Event) /\ a \in ActionIds
    BY <1>1, StoredIsRecord DEF TypeOK
  <1>4. events'[a] = Append(events[a], e)
    BY <1>1, TransitionEffect
  <1> HIDE DEF e
  <1>5. events'[a] # <<>> /\ events'[a][Len(events'[a])] = e
    BY <1>2, <1>3, <1>4, AppendFacts
  <1>6. /\ Stored' = Stored
        /\ \A b \in ActionIds : b # a =>
              actions'[b] = actions[b] /\ events'[b] = events[b]
        /\ actions'[a].status = StatusAfter(type)
        /\ \A b \in Stored : KeyOf(b)' = KeyOf(b)
    BY <1>1, TransitionEffect
  <1>7. FreshIdsAreUnused'
    BY <1>6 DEF Inv, FreshIdsAreUnused
  <1>8. IndexIsSound'
    BY <1>6 DEF Inv, IndexIsSound
  <1>9. OneActionPerKey'
    BY <1>6 DEF Inv, OneActionPerKey
  <1>10. StatusFollowsLog'
    <2>1. ASSUME NEW b \in Stored, b # a
          PROVE  /\ events'[b] # <<>>
                 /\ \/ actions'[b].status = events'[b][Len(events'[b])].status
                    \/ /\ events'[b][Len(events'[b])].stage = "execution"
                       /\ actions'[b].status = "approved"
      BY <1>1, <1>6, <2>1, StoredIsRecord DEF Inv, StatusFollowsLog
    <2>2. /\ events'[a] # <<>>
          /\ actions'[a].status = events'[a][Len(events'[a])].status
      BY <1>2, <1>5, <1>6
    <2> QED
      BY <1>6, <2>1, <2>2 DEF StatusFollowsLog
  <1> QED
    BY <1>7, <1>8, <1>9, <1>10

\* HasEvent without the detour over positions.
LEMMA HasEventMeans ==
    /\ \A x : \A a \in ActionIds : HasEvent(a, x) <=>
          \E i \in DOMAIN events[a] : events[a][i].type = x
    /\ \A x : \A a \in ActionIds : HasEvent(a, x)' <=>
          \E i \in DOMAIN events'[a] : events'[a][i].type = x
  BY DEF HasEvent, Positions

\* A transition adds its own event to the log and no other.
LEMMA TransitionEvents ==
    ASSUME Inv, NEW a \in Stored, NEW type \in LaterTypes,
           NEW role \in Roles \cup {"approver", "verifier"},
           Transition(a, type, role)
    PROVE  /\ \A x : HasEvent(a, x)' <=> HasEvent(a, x) \/ x = type
           /\ \A x : \A b \in Stored : b # a => (HasEvent(b, x)' <=> HasEvent(b, x))
           /\ GrantedLog(a) /\ type \notin {"rejected", "approval_denied"}
                  => GrantedLog(a)'
  <1>1. TypeOK /\ a \in ActionIds
    BY StoredIsRecord DEF Inv
  <1> DEFINE e == NewEvent(type, role, StatusAfter(type), "lifecycle")
  <1>2. e \in Event /\ e.type = type
    BY LaterEventType DEF NewEvent
  <1>3. events[a] \in Seq(Event)
    BY <1>1 DEF TypeOK
  <1>4. events'[a] = Append(events[a], e)
    BY <1>1, TransitionEffect
  <1> HIDE DEF e
  <1>5. /\ DOMAIN events'[a] = 1..(Len(events[a]) + 1)
        /\ Len(events'[a]) = Len(events[a]) + 1
        /\ Len(events[a]) \in Nat /\ DOMAIN events[a] = 1..Len(events[a])
        /\ events'[a][Len(events[a]) + 1] = e
        /\ \A i \in 1..Len(events[a]) : events'[a][i] = events[a][i]
    BY <1>2, <1>3, <1>4, AppendFacts
  <1>6. \A x : HasEvent(a, x)' <=> HasEvent(a, x) \/ x = type
    BY <1>1, <1>2, <1>5, HasEventMeans, SMTT(30)
  <1>7. \A x : \A b \in Stored : b # a => (HasEvent(b, x)' <=> HasEvent(b, x))
    BY <1>1, TransitionEffect, StoredIsRecord, HasEventMeans
  <1>8. ASSUME GrantedLog(a), type \notin {"rejected", "approval_denied"}
        PROVE  GrantedLog(a)'
    <2>1. actions'[a].required_role = actions[a].required_role
      BY <1>1, TransitionEffect
    <2>2. 1 \in 1..Len(events[a]) /\ 2 \in 1..Len(events[a])
      BY <1>5, <1>8 DEF GrantedLog
    <2>3. \A i \in DOMAIN events'[a] :
              events'[a][i].type \notin {"rejected", "approval_denied"}
      BY <1>2, <1>5, <1>8 DEF GrantedLog
    <2> QED
      BY <1>5, <1>8, <2>1, <2>2, <2>3 DEF GrantedLog, SentToApprover
  <1> QED
    BY <1>6, <1>7, <1>8

\* A transition that is no acceptance and leaves receipts and provider alone
\* keeps all of the invariant but what it claims of the action's new status.
LEMMA QuietTransitionKeeps ==
    ASSUME Inv, NEW a \in Stored, NEW type \in LaterTypes,
           NEW role \in Roles \cup {"approver", "verifier"},
           Transition(a, type, role), type # "provider_accepted",
           UNCHANGED <<idempotency, executions, inflight, world, calls, effects>>,
           StatusAfter(type) # "approval_required",
           StatusAfter(type) \in GrantedStatuses => GrantedLog(a)',
           effects[a] > 0 \/ InFlight(a) =>
               StatusAfter(type) \in GrantedStatuses
    PROVE  Inv'
  <1>1. TypeOK /\ a \in ActionIds
    BY StoredIsRecord DEF Inv
  <1>2. TypeOK'
    BY <1>1, TransitionEffect DEF TypeOK
  <1>3. /\ FreshIdsAreUnused' /\ IndexIsSound'
        /\ OneActionPerKey' /\ StatusFollowsLog'
    BY TransitionKeeps
  <1>4. /\ Stored' = Stored /\ Stored \subseteq ActionIds
        /\ \A b \in ActionIds : b # a =>
              actions'[b] = actions[b] /\ events'[b] = events[b]
        /\ actions'[a].status = StatusAfter(type)
        /\ actions'[a].proposal = actions[a].proposal
        /\ \A b \in Stored : KeyOf(b)' = KeyOf(b)
        /\ \A b \in ActionIds : InFlight(b)' = InFlight(b)
    BY <1>1, TransitionEffect DEF Stored, InFlight
  <1>5. LogsFitStatus'
    <2>1. ASSUME NEW b \in Stored, b # a
          PROVE  /\ actions'[b].status = "approval_required" => AwaitingLog(b)'
                 /\ actions'[b].status \in GrantedStatuses => GrantedLog(b)'
      BY <1>4, <2>1 DEF Inv, LogsFitStatus, AwaitingLog, GrantedLog,
                        SentToApprover
    <2> QED
      BY <1>4, <2>1 DEF LogsFitStatus
  <1>6. OnlyGrantedAreWritten'
    <2>1. ASSUME NEW b \in Stored, effects[b] > 0 \/ InFlight(b)
          PROVE  /\ actions'[b].status \in GrantedStatuses
                 /\ actions'[b].proposal.action_type = "cancel_order"
      BY <1>4, <2>1 DEF Inv, OnlyGrantedAreWritten
    <2> QED
      BY <1>4, <2>1 DEF OnlyGrantedAreWritten
  <1>7. ReceiptsMatchLog'
    <2>1. \A b \in Stored : HasEvent(b, "provider_accepted")' <=>
                            HasEvent(b, "provider_accepted")
      BY TransitionEvents
    <2> QED
      BY <1>4, <2>1 DEF Inv, ReceiptsMatchLog
  <1> QED
    BY <1>2, <1>3, <1>5, <1>6, <1>7 DEF Inv

\* An action whose approval is pending was never written.
LEMMA AwaitingIsUnwritten ==
    ASSUME Inv, NEW a \in Stored, actions[a].status = "approval_required"
    PROVE  /\ AwaitingLog(a)
           /\ ~(effects[a] > 0) /\ ~InFlight(a)
  BY DEF Inv, LogsFitStatus, OnlyGrantedAreWritten, GrantedStatuses,
         VERIFIABLE_STATUSES, TERMINAL_VERIFICATION_STATUSES

\* approve: the decision closes the action or grants it, with the log it needs.
LEMMA ApproveKeepsInv ==
    ASSUME Inv, NEW t \in Tenants, NEW a \in ActionIds, NEW role \in Roles,
           Approve(t, a, role)
    PROVE  Inv'
  <1> DEFINE e == ApprovalEvent(actions[a].required_role, actions[a].proposal,
                                role, StateOf(a))
  <1>1. a \in Stored /\ actions[a].status = "approval_required" /\ TypeOK
    BY DEF Approve, Owns, Inv
  <1>2. /\ Transition(a, e, role)
        /\ UNCHANGED <<idempotency, executions, inflight, world, calls, effects>>
    BY DEF Approve
  <1>3. /\ e \in LaterTypes
        /\ e # "provider_accepted"
        /\ StatusAfter(e) # "approval_required"
        /\ StatusAfter(e) \in GrantedStatuses =>
              e = "approved" /\ role = actions[a].required_role
    BY ApprovalVerdict DEF LaterTypes, GrantedStatuses, VERIFIABLE_STATUSES,
                           TERMINAL_VERIFICATION_STATUSES
  <1> HIDE DEF e
  <1>4. ASSUME e = "approved", role = actions[a].required_role
        PROVE  GrantedLog(a)'
    <2>1. /\ AwaitingLog(a) /\ events[a] \in Seq(Event)
      BY <1>1, AwaitingIsUnwritten DEF TypeOK
    <2>2. /\ events'[a] = Append(events[a], NewEvent(e, role, StatusAfter(e),
                                                     "lifecycle"))
          /\ actions'[a].required_role = actions[a].required_role
      BY <1>1, <1>2, <1>3, TransitionEffect
    <2>3. NewEvent(e, role, StatusAfter(e), "lifecycle") \in Event
      BY <1>3, LaterEventType
    <2>4. /\ Len(events'[a]) = 2 /\ DOMAIN events'[a] = 1..2
          /\ events'[a][1] = events[a][1]
          /\ events'[a][2] = NewEvent(e, role, StatusAfter(e), "lifecycle")
      BY <2>1, <2>2, <2>3, AppendFacts DEF AwaitingLog
    <2>5. events'[a][2].type = "approved" /\ events'[a][2].role = "operations"
      BY <1>4, <2>1, <2>4 DEF NewEvent, AwaitingLog, SentToApprover
    <2> QED
      BY <2>1, <2>2, <2>4, <2>5 DEF GrantedLog, AwaitingLog, SentToApprover
  <1> QED
    BY <1>1, <1>2, <1>3, <1>4, AwaitingIsUnwritten, QuietTransitionKeeps

\* reject: the action was awaiting its approval, so nothing was written for it.
LEMMA RejectKeepsInv ==
    ASSUME Inv, NEW t \in Tenants, NEW a \in ActionIds, Reject(t, a)
    PROVE  Inv'
  <1>1. a \in Stored /\ actions[a].status = "approval_required"
    BY DEF Reject, Owns
  <1>2. /\ Transition(a, "rejected", "approver")
        /\ UNCHANGED <<idempotency, executions, inflight, world, calls, effects>>
    BY DEF Reject
  <1>3. /\ "rejected" \in LaterTypes /\ StatusAfter("rejected") = "rejected"
        /\ "rejected" \notin GrantedStatuses
    BY DEF LaterTypes, StatusAfter, GrantedStatuses, VERIFIABLE_STATUSES,
           TERMINAL_VERIFICATION_STATUSES
  <1> QED
    BY <1>1, <1>2, <1>3, AwaitingIsUnwritten, QuietTransitionKeeps

\* verify: one more attempt or the verdict, on an action already granted.
LEMMA VerifyKeepsInv ==
    ASSUME Inv, NEW t \in Tenants, NEW a \in ActionIds,
           NEW final \in BOOLEAN, Verify(t, a, final)
    PROVE  Inv'
  <1> DEFINE e == VerificationEvent(StateOf(a), final)
  <1>1. a \in Stored /\ actions[a].status \in VERIFIABLE_STATUSES
    BY DEF Verify, Owns
  <1>2. /\ Transition(a, e, "verifier")
        /\ UNCHANGED <<idempotency, executions, inflight, world, calls, effects>>
    BY DEF Verify
  <1>3. /\ e \in LaterTypes
        /\ e \notin {"provider_accepted", "rejected", "approval_denied"}
        /\ StatusAfter(e) # "approval_required"
        /\ StatusAfter(e) \in GrantedStatuses
    BY VerificationVerdict DEF LaterTypes, GrantedStatuses, VERIFIABLE_STATUSES,
                               TERMINAL_VERIFICATION_STATUSES
  <1> HIDE DEF e
  <1>4. GrantedLog(a)
    BY <1>1 DEF Inv, LogsFitStatus, GrantedStatuses
  <1>5. GrantedLog(a)'
    BY <1>1, <1>2, <1>3, <1>4, TransitionEvents
  <1> QED
    BY <1>1, <1>2, <1>3, <1>5, QuietTransitionKeeps

\* execute up to the call: a thread comes to wait for an approved cancellation.
LEMMA StartKeepsInv ==
    ASSUME Inv, NEW th \in Threads, NEW t \in Tenants, NEW a \in ActionIds,
           ExecuteStart(th, t, a)
    PROVE  Inv'
  <1>1. /\ TypeOK /\ a \in Stored /\ actions[a].status = "approved"
        /\ actions[a].proposal.action_type = "cancel_order"
        /\ inflight' = [inflight EXCEPT ![th] = a]
        /\ calls' = [calls EXCEPT ![a] = @ + 1]
        /\ UNCHANGED <<actions, idempotency, events, executions, world, effects>>
    BY DEF ExecuteStart, MayExecute, Owns, Inv
  <1>2. TypeOK'
    BY <1>1 DEF TypeOK
  <1>3. Stored' = Stored /\ \A b \in ActionIds : KeyOf(b)' = KeyOf(b)
    BY <1>1 DEF Stored, KeyOf
  <1>4. FreshIdsAreUnused'
    BY <1>1, <1>3 DEF Inv, FreshIdsAreUnused, TypeOK
  <1>5. IndexIsSound' /\ OneActionPerKey' /\ StatusFollowsLog'
    BY <1>1, <1>3 DEF Inv, IndexIsSound, OneActionPerKey, StatusFollowsLog, KeyOf
  <1>6. LogsFitStatus'
    BY <1>1, <1>3 DEF Inv, LogsFitStatus, AwaitingLog, GrantedLog, SentToApprover
  <1>7. OnlyGrantedAreWritten'
    <2>1. \A b \in Stored : InFlight(b)' => InFlight(b) \/ b = a
      BY <1>1 DEF InFlight, TypeOK
    <2>2. actions[a].status \in GrantedStatuses
      BY <1>1 DEF GrantedStatuses
    <2> QED
      BY <1>1, <1>3, <2>1, <2>2 DEF Inv, OnlyGrantedAreWritten
  <1>8. ReceiptsMatchLog'
    BY <1>1, <1>3 DEF Inv, ReceiptsMatchLog, HasEvent, Positions, KeyOf
  <1> QED
    BY <1>2, <1>4, <1>5, <1>6, <1>7, <1>8 DEF Inv

\* execute on an ineligible order: the log grows, the status stays.
LEMMA IneligibleKeepsInv ==
    ASSUME Inv, NEW t \in Tenants, NEW a \in ActionIds, ExecuteIneligible(t, a)
    PROVE  Inv'
  <1> DEFINE e == NewEvent("precondition_failed", "system",
                           StatusAfter("precondition_failed"), "execution")
  <1>1. /\ TypeOK /\ a \in Stored /\ actions[a].status = "approved"
        /\ events' = [events EXCEPT ![a] = Append(events[a], e)]
        /\ UNCHANGED <<actions, idempotency, executions, inflight, world, calls,
                       effects>>
    BY DEF ExecuteIneligible, MayExecute, Owns, Inv, AppendEvent, NewEvent, TypeOK
  <1>2. e \in Event /\ e.stage = "execution" /\ e.type = "precondition_failed"
    BY LaterEventType DEF NewEvent, LaterTypes, Roles, ProposerRoles
  <1> HIDE DEF e
  <1>3. events[a] \in Seq(Event)
    BY <1>1 DEF TypeOK
  <1>4. /\ events'[a] \in Seq(Event) /\ events'[a] # <<>>
        /\ events'[a][Len(events'[a])] = e
        /\ DOMAIN events'[a] = 1..(Len(events[a]) + 1)
        /\ Len(events'[a]) = Len(events[a]) + 1
        /\ Len(events[a]) \in Nat /\ DOMAIN events[a] = 1..Len(events[a])
        /\ events'[a][Len(events[a]) + 1] = e
        /\ \A i \in 1..Len(events[a]) : events'[a][i] = events[a][i]
    <2>1. events'[a] = Append(events[a], e)
      BY <1>1 DEF TypeOK
    <2> QED
      BY <1>2, <1>3, <2>1, AppendFacts
  <1>5. /\ \A b \in ActionIds : b # a => events'[b] = events[b]
        /\ events' \in [ActionIds -> Seq(Event)]
    <2>1. Append(events[a], e) \in Seq(Event)
      BY <1>2, <1>3, AppendFacts
    <2> QED
      BY <1>1, <2>1 DEF TypeOK
  <1>6. TypeOK'
    BY <1>1, <1>5 DEF TypeOK
  <1>7. Stored' = Stored /\ \A b \in ActionIds : KeyOf(b)' = KeyOf(b)
    BY <1>1 DEF Stored, KeyOf
  <1>8. FreshIdsAreUnused' /\ IndexIsSound' /\ OneActionPerKey'
    BY <1>1, <1>5, <1>7 DEF Inv, FreshIdsAreUnused, IndexIsSound,
                            OneActionPerKey, KeyOf
  <1>9. StatusFollowsLog'
    <2>1. ASSUME NEW b \in Stored, b # a
          PROVE  /\ events'[b] # <<>>
                 /\ \/ actions'[b].status = events'[b][Len(events'[b])].status
                    \/ /\ events'[b][Len(events'[b])].stage = "execution"
                       /\ actions'[b].status = "approved"
      BY <1>1, <1>5, <2>1, StoredIsRecord DEF Inv, StatusFollowsLog
    <2> QED
      BY <1>1, <1>2, <1>4, <1>7, <2>1 DEF StatusFollowsLog
  <1>10. LogsFitStatus'
    <2>1. ASSUME NEW b \in Stored, b # a
          PROVE  /\ actions'[b].status = "approval_required" => AwaitingLog(b)'
                 /\ actions'[b].status \in GrantedStatuses => GrantedLog(b)'
      BY <1>1, <1>5, <2>1, StoredIsRecord
         DEF Inv, LogsFitStatus, AwaitingLog, GrantedLog, SentToApprover
    <2>2. GrantedLog(a)
      BY <1>1 DEF Inv, LogsFitStatus, GrantedStatuses
    <2>3. GrantedLog(a)'
      <3>1. 1 \in 1..Len(events[a]) /\ 2 \in 1..Len(events[a])
        BY <1>4, <2>2 DEF GrantedLog
      <3>2. \A i \in DOMAIN events'[a] :
                events'[a][i].type \notin {"rejected", "approval_denied"}
        BY <1>2, <1>4, <2>2 DEF GrantedLog
      <3> QED
        BY <1>1, <1>4, <2>2, <3>1, <3>2 DEF GrantedLog, SentToApprover
    <2> QED
      BY <1>1, <1>7, <2>1, <2>3 DEF LogsFitStatus
  <1>11. OnlyGrantedAreWritten'
    BY <1>1, <1>7 DEF Inv, OnlyGrantedAreWritten, InFlight
  <1>12. ReceiptsMatchLog'
    <2>1. \A b \in Stored : HasEvent(b, "provider_accepted")' <=>
                            HasEvent(b, "provider_accepted")
      BY <1>1, <1>2, <1>4, <1>5, HasEventMeans, StoredIsRecord
    <2>2. \A k \in Tenants \X Keys : executions[k] # NoValue =>
              KeyOf(executions[k])' = KeyOf(executions[k])
      BY <1>1 DEF KeyOf
    <2> QED
      BY <1>1, <1>7, <2>1, <2>2, StoredIsRecord DEF Inv, ReceiptsMatchLog
  <1> QED
    BY <1>6, <1>8, <1>9, <1>10, <1>11, <1>12 DEF Inv

\* execute after the call: whatever happened meanwhile, the action of the call
\* was granted, so its log takes the acceptance.
LEMMA AcceptKeepsInv ==
    ASSUME Inv, NEW th \in Threads, ProviderAccepts(th)
    PROVE  Inv'
  <1>0. PICK a \in Stored : a = inflight[th]
    BY DEF ProviderAccepts, Inv, FreshIdsAreUnused
  <1>1. /\ TypeOK /\ a \in Stored /\ a \in ActionIds
        /\ Transition(a, "provider_accepted", "system")
        /\ executions' = [executions EXCEPT ![KeyOf(a)] = a]
        /\ effects' = [effects EXCEPT ![a] = @ + 1]
        /\ inflight' = [inflight EXCEPT ![th] = NoValue]
        /\ UNCHANGED <<idempotency, world, calls>>
    BY <1>0 DEF ProviderAccepts, Inv, Stored
  <1>2. InFlight(a) /\ actions[a].status \in GrantedStatuses
        /\ actions[a].proposal.action_type = "cancel_order"
    BY <1>0 DEF InFlight, Inv, OnlyGrantedAreWritten
  <1>3. /\ "provider_accepted" \in LaterTypes /\ "system" \in Roles
        /\ StatusAfter("provider_accepted") = "provider_accepted"
        /\ "provider_accepted" \in GrantedStatuses
        /\ "provider_accepted" # "approval_required"
    BY DEF LaterTypes, Roles, ProposerRoles, StatusAfter, GrantedStatuses,
           VERIFIABLE_STATUSES
  <1>4. /\ Stored' = Stored
        /\ \A b \in ActionIds : b # a =>
              actions'[b] = actions[b] /\ events'[b] = events[b]
        /\ actions'[a].status = "provider_accepted"
        /\ actions'[a].proposal = actions[a].proposal
        /\ \A b \in Stored : KeyOf(b)' = KeyOf(b)
    BY <1>1, <1>3, TransitionEffect
  <1>5. KeyOf(a) \in Tenants \X Keys
    BY <1>1, StoredIsRecord DEF KeyOf, StoredAction, Proposal
  <1>6. TypeOK'
    <2>1. /\ actions' \in [ActionIds -> StoredAction \cup {NoValue}]
          /\ events' \in [ActionIds -> Seq(Event)]
      BY <1>1, <1>3, TransitionEffect
    <2>2. /\ executions' \in [Tenants \X Keys -> ActionIds \cup {NoValue}]
          /\ inflight' \in [Threads -> ActionIds \cup {NoValue}]
      BY <1>1, <1>5 DEF TypeOK
    <2>3. effects' \in [ActionIds -> Nat]
      BY <1>1 DEF TypeOK
    <2> QED
      BY <1>1, <2>1, <2>2, <2>3 DEF TypeOK
  <1>7. /\ \A b \in ActionIds : InFlight(b)' => InFlight(b)
        /\ \A i \in Threads : inflight'[i] \in {inflight[i], NoValue}
    BY <1>1, NoValueAssumption DEF InFlight, TypeOK
  <1>8. \A b \in ActionIds : b # a => effects'[b] = effects[b]
    BY <1>1 DEF TypeOK
  <1>9. FreshIdsAreUnused' /\ IndexIsSound' /\ OneActionPerKey' /\ StatusFollowsLog'
    BY <1>1, <1>3, <1>7, <1>8, TransitionKeeps
  <1>10. LogsFitStatus'
    <2>1. ASSUME NEW b \in Stored, b # a
          PROVE  /\ actions'[b].status = "approval_required" => AwaitingLog(b)'
                 /\ actions'[b].status \in GrantedStatuses => GrantedLog(b)'
      BY <1>1, <1>4, <2>1, StoredIsRecord
         DEF Inv, LogsFitStatus, AwaitingLog, GrantedLog, SentToApprover
    <2>2. GrantedLog(a)
      BY <1>1, <1>2 DEF Inv, LogsFitStatus
    <2>3. GrantedLog(a)'
      BY <1>1, <1>3, <2>2, TransitionEvents
    <2> QED
      BY <1>3, <1>4, <2>1, <2>3 DEF LogsFitStatus
  <1>11. OnlyGrantedAreWritten'
    <2>1. ASSUME NEW b \in Stored, b # a, effects'[b] > 0 \/ InFlight(b)'
          PROVE  /\ actions'[b].status \in GrantedStatuses
                 /\ actions'[b].proposal.action_type = "cancel_order"
      BY <1>1, <1>4, <1>7, <1>8, <2>1, StoredIsRecord DEF Inv, OnlyGrantedAreWritten
    <2> QED
      BY <1>2, <1>3, <1>4, <2>1 DEF OnlyGrantedAreWritten
  <1>12. ReceiptsMatchLog'
    <2>1. /\ HasEvent(a, "provider_accepted")'
          /\ \A b \in Stored : b # a => (HasEvent(b, "provider_accepted")' <=>
                                         HasEvent(b, "provider_accepted"))
      BY <1>1, <1>3, TransitionEvents
    <2>2. /\ executions'[KeyOf(a)] = a
          /\ \A k \in Tenants \X Keys : k # KeyOf(a) =>
                executions'[k] = executions[k]
      BY <1>1, <1>5 DEF TypeOK
    <2>3. effects'[a] > 0
      BY <1>1 DEF TypeOK
    <2>4. \A b \in Stored : KeyOf(b) = KeyOf(a) => b = a
      BY <1>1 DEF Inv, OneActionPerKey
    <2>5. ASSUME NEW k \in Tenants \X Keys, NEW b \in ActionIds,
                 executions'[k] = b
          PROVE  b \in Stored /\ KeyOf(b)' = k /\ effects'[b] > 0
      <3>1. CASE k = KeyOf(a)
        BY <1>1, <1>4, <2>2, <2>3, <2>5, <3>1
      <3>2. CASE k # KeyOf(a)
        <4>1. executions[k] = b /\ b # NoValue
          BY <2>2, <2>5, <3>2, NoValueAssumption
        <4>2. b \in Stored /\ KeyOf(b) = k /\ effects[b] > 0
          BY <4>1 DEF Inv, ReceiptsMatchLog
        <4>3. b # a
          BY <3>2, <4>2
        <4> QED
          BY <1>4, <1>8, <4>2, <4>3
      <3> QED
        BY <3>1, <3>2
    <2>6. ASSUME NEW b \in Stored
          PROVE  HasEvent(b, "provider_accepted")' <=> executions'[KeyOf(b)'] = b
      <3>1. CASE b = a
        BY <1>4, <2>1, <2>2, <3>1
      <3>2. CASE b # a
        <4>1. KeyOf(b)' = KeyOf(b) /\ KeyOf(b) # KeyOf(a)
          BY <1>4, <2>4, <3>2
        <4>2. KeyOf(b) \in Tenants \X Keys
          BY <1>1, StoredIsRecord DEF KeyOf, StoredAction, Proposal
        <4> QED
          BY <2>1, <2>2, <3>2, <4>1, <4>2 DEF Inv, ReceiptsMatchLog
      <3> QED
        BY <3>1, <3>2
    <2>7. ASSUME NEW k \in Tenants \X Keys, executions'[k] # NoValue
          PROVE  /\ executions'[k] \in Stored'
                 /\ KeyOf(executions[k])' = k
                 /\ effects'[executions'[k]] > 0
      <3>1. PICK b \in ActionIds : executions'[k] = b
        BY <1>6, <2>7 DEF TypeOK
      <3> QED
        BY <1>4, <2>5, <3>1 DEF KeyOf
    <2> QED
      BY <1>4, <2>6, <2>7 DEF ReceiptsMatchLog
  <1> QED
    BY <1>6, <1>9, <1>10, <1>11, <1>12 DEF Inv

\* The call raised: at most the count of applied writes has grown.
LEMMA FailKeepsInv ==
    ASSUME Inv, NEW th \in Threads, ProviderFails(th)
    PROVE  Inv'
  <1>1. PICK applied \in {0, 1} :
            effects' = [effects EXCEPT ![inflight[th]] = @ + applied]
    BY DEF ProviderFails
  <1>2. /\ TypeOK /\ inflight[th] \in Stored /\ inflight[th] \in ActionIds
        /\ inflight' = [inflight EXCEPT ![th] = NoValue]
        /\ UNCHANGED <<actions, idempotency, events, executions, world, calls>>
    BY DEF ProviderFails, Inv, FreshIdsAreUnused, Stored
  <1>3. TypeOK'
    BY <1>1, <1>2 DEF TypeOK
  <1>4. /\ Stored' = Stored /\ \A b \in ActionIds : KeyOf(b)' = KeyOf(b)
        /\ \A b \in ActionIds : InFlight(b)' => InFlight(b)
        /\ \A b \in ActionIds : effects[b] > 0 => effects'[b] > 0
        /\ \A b \in ActionIds : effects'[b] > 0 => effects[b] > 0 \/ InFlight(b)
    BY <1>1, <1>2, NoValueAssumption DEF Stored, KeyOf, InFlight, TypeOK
  <1>5. FreshIdsAreUnused'
    BY <1>1, <1>2, <1>4 DEF Inv, FreshIdsAreUnused, TypeOK
  <1>6. IndexIsSound' /\ OneActionPerKey' /\ StatusFollowsLog'
    BY <1>2, <1>4 DEF Inv, IndexIsSound, OneActionPerKey, StatusFollowsLog, KeyOf
  <1>7. LogsFitStatus'
    BY <1>2, <1>4 DEF Inv, LogsFitStatus, AwaitingLog, GrantedLog, SentToApprover
  <1>8. OnlyGrantedAreWritten'
    BY <1>2, <1>4, StoredIsRecord DEF Inv, OnlyGrantedAreWritten
  <1>9. ReceiptsMatchLog'
    BY <1>2, <1>4, StoredIsRecord DEF Inv, ReceiptsMatchLog, HasEvent, Positions,
                                      KeyOf
  <1> QED
    BY <1>3, <1>5, <1>6, <1>7, <1>8, <1>9 DEF Inv

\* An observation moves the World State and nothing of the service.
LEMMA ObserveKeepsInv ==
    ASSUME Inv, NEW t \in Tenants, NEW o \in Orders, Observe(t, o)
    PROVE  Inv'
  <1>1. PICK st \in OrderState : world' = [world EXCEPT ![<<t, o>>] = st]
    BY DEF Observe
  <1>2. UNCHANGED <<actions, idempotency, events, executions, inflight, calls,
                    effects>>
    BY DEF Observe
  <1>3. TypeOK'
    BY <1>1, <1>2 DEF Inv, TypeOK
  <1> QED
    BY <1>2, <1>3 DEF Inv, FreshIdsAreUnused, IndexIsSound, OneActionPerKey,
        StatusFollowsLog, LogsFitStatus, OnlyGrantedAreWritten, ReceiptsMatchLog,
        Stored, KeyOf, InFlight, HasEvent, Positions, AwaitingLog, GrantedLog,
        SentToApprover

\* propose: a fresh action, a fresh index entry and the policy's event.
LEMMA ProposeKeepsInv ==
    ASSUME Inv, NEW t \in Tenants, NEW p \in Proposal, NEW role \in Roles,
           NEW c \in Contexts, Propose(t, p, role, c)
    PROVE  Inv'
  <1> DEFINE d == EvaluatePolicy(p.action_type, role, c.mode, c.order_value,
                                 c.value_limit, c.has_conflict)
             k == <<t, p.key>>
             rec == [proposal |-> p, proposer_role |-> role, tenant |-> t,
                     status |-> d.status, required_role |-> d.required_role]
             e == NewEvent("policy_evaluated", role, d.status, "lifecycle")
  <1>1. PICK a \in ActionIds \ Stored :
          /\ actions' = [actions EXCEPT ![a] = rec]
          /\ idempotency' = [idempotency EXCEPT ![k] = a]
          /\ events' = [events EXCEPT ![a] = Append(@, e)]
    BY DEF Propose, NewEvent
  <1>2. /\ TypeOK /\ idempotency[k] = NoValue
        /\ UNCHANGED <<executions, inflight, world, calls, effects>>
    BY DEF Propose, Inv
  <1>3. /\ d.status \in {"denied", "approval_required"}
        /\ d.status \in ActionStatus
        /\ d.required_role \in {"operations", NoValue}
        /\ d.status = "approval_required" => d.required_role = "operations"
        /\ d.status \notin GrantedStatuses
    BY PolicyVerdict DEF ActionStatus, GrantedStatuses, VERIFIABLE_STATUSES,
                         TERMINAL_VERIFICATION_STATUSES
  <1> HIDE DEF d
  <1>4. /\ rec \in StoredAction /\ rec # NoValue
        /\ rec.status = d.status /\ rec.required_role = d.required_role
        /\ <<rec.tenant, rec.proposal.key>> = k
        /\ k \in Tenants \X Keys
    BY <1>3, NoValueAssumption DEF StoredAction, Proposal
  <1>5. /\ e \in Event /\ e.status = d.status /\ e.type = "policy_evaluated"
    BY <1>3 DEF Event, NewEvent
  <1> HIDE DEF k, rec, e
  <1>6. events[a] = <<>> /\ effects[a] = 0
    BY <1>1 DEF Inv, FreshIdsAreUnused
  <1>7. /\ Append(events[a], e) \in Seq(Event)
        /\ Len(Append(events[a], e)) = 1
        /\ DOMAIN Append(events[a], e) = 1..1
        /\ Append(events[a], e)[1] = e
        /\ Append(events[a], e) # <<>>
    BY <1>5, <1>6, FirstEvent
  <1>8. TypeOK'
    <2>1. actions' \in [ActionIds -> StoredAction \cup {NoValue}]
      BY <1>1, <1>2, <1>4 DEF TypeOK
    <2>2. idempotency' \in [Tenants \X Keys -> ActionIds \cup {NoValue}]
      BY <1>1, <1>2 DEF TypeOK
    <2>3. events' \in [ActionIds -> Seq(Event)]
      BY <1>1, <1>2, <1>7 DEF TypeOK
    <2> QED
      BY <1>2, <2>1, <2>2, <2>3 DEF TypeOK
  <1>9. /\ a \in ActionIds /\ actions[a] = NoValue
        /\ actions'[a] = rec
        /\ events'[a] = Append(events[a], e)
        /\ \A b \in ActionIds : b # a =>
              actions'[b] = actions[b] /\ events'[b] = events[b]
        /\ Stored' = Stored \cup {a}
        /\ Stored \subseteq ActionIds /\ a \notin Stored
    BY <1>1, <1>2, <1>4 DEF Stored, TypeOK
  <1>10. /\ KeyOf(a)' = k
         /\ \A b \in Stored : KeyOf(b)' = KeyOf(b)
         /\ \A b \in ActionIds : InFlight(b)' = InFlight(b)
    BY <1>2, <1>4, <1>9 DEF KeyOf, InFlight
  <1>11. FreshIdsAreUnused'
    BY <1>2, <1>9 DEF Inv, FreshIdsAreUnused
  <1>12. /\ idempotency'[k] = a
         /\ \A l \in Tenants \X Keys : l # k => idempotency'[l] = idempotency[l]
    BY <1>1, <1>2, <1>4 DEF TypeOK
  <1>13. IndexIsSound'
    <2>1. ASSUME NEW l \in Tenants \X Keys, NEW b \in ActionIds,
                 idempotency'[l] = b
          PROVE  b \in Stored' /\ KeyOf(b)' = l
      <3>1. CASE l = k
        BY <1>9, <1>10, <1>12, <2>1, <3>1
      <3>2. CASE l # k
        <4>1. b \in Stored /\ KeyOf(b) = l
          BY <1>12, <2>1, <3>2, NoValueAssumption DEF Inv, IndexIsSound
        <4> QED
          BY <1>9, <1>10, <4>1
      <3> QED
        BY <3>1, <3>2
    <2>2. ASSUME NEW l \in Tenants \X Keys, idempotency'[l] # NoValue
          PROVE  /\ idempotency'[l] \in Stored'
                 /\ KeyOf(idempotency[l])' = l
      <3>1. PICK b \in ActionIds : idempotency'[l] = b
        BY <1>8, <2>2 DEF TypeOK
      <3> QED
        BY <2>1, <3>1 DEF KeyOf
    <2> QED
      BY <2>2 DEF IndexIsSound
  <1>14. OneActionPerKey'
    <2>1. ASSUME NEW b \in Stored
          PROVE  idempotency'[KeyOf(b)'] = b
      <3>1. idempotency[KeyOf(b)] = b /\ KeyOf(b) \in Tenants \X Keys /\ b # NoValue
        BY <1>2, StoredIsRecord, NoValueAssumption
           DEF Inv, OneActionPerKey, KeyOf, StoredAction, Proposal
      <3> QED
        BY <1>2, <1>10, <1>12, <3>1
    <2> QED
      BY <1>9, <1>10, <1>12, <2>1 DEF OneActionPerKey
  <1>15. StatusFollowsLog'
    <2>1. ASSUME NEW b \in Stored
          PROVE  /\ events'[b] # <<>>
                 /\ \/ actions'[b].status = events'[b][Len(events'[b])].status
                    \/ /\ events'[b][Len(events'[b])].stage = "execution"
                       /\ actions'[b].status = "approved"
      BY <1>9, <2>1 DEF Inv, StatusFollowsLog
    <2>2. /\ events'[a] # <<>>
          /\ actions'[a].status = events'[a][Len(events'[a])].status
      <3>1. Len(events'[a]) = 1 /\ events'[a][1] = e /\ events'[a] # <<>>
        BY <1>7, <1>9
      <3>2. actions'[a].status = e.status
        BY <1>4, <1>5, <1>9
      <3> QED
        BY <3>1, <3>2
    <2> QED
      BY <1>9, <2>1, <2>2 DEF StatusFollowsLog
  <1>16. LogsFitStatus'
    <2>1. ASSUME NEW b \in Stored
          PROVE  /\ actions'[b].status = "approval_required" => AwaitingLog(b)'
                 /\ actions'[b].status \in GrantedStatuses => GrantedLog(b)'
      BY <1>9, <2>1 DEF Inv, LogsFitStatus, AwaitingLog, GrantedLog, SentToApprover
    <2>2. /\ actions'[a].status = "approval_required" => AwaitingLog(a)'
          /\ actions'[a].status \notin GrantedStatuses
      BY <1>3, <1>4, <1>5, <1>7, <1>9 DEF AwaitingLog, SentToApprover
    <2> QED
      BY <1>9, <2>1, <2>2 DEF LogsFitStatus
  <1>17. OnlyGrantedAreWritten'
    <2>1. ~InFlight(a)
      BY <1>9, NoValueAssumption DEF InFlight, Inv, FreshIdsAreUnused
    <2>2. ~(effects'[a] > 0)
      BY <1>2, <1>6
    <2>3. ASSUME NEW b \in Stored, effects'[b] > 0 \/ InFlight(b)'
          PROVE  /\ actions'[b].status \in GrantedStatuses
                 /\ actions'[b].proposal.action_type = "cancel_order"
      BY <1>2, <1>9, <1>10, <2>3 DEF Inv, OnlyGrantedAreWritten
    <2> QED
      BY <1>9, <1>10, <2>1, <2>2, <2>3 DEF OnlyGrantedAreWritten
  <1>18. ReceiptsMatchLog'
    <2>1. \A l \in Tenants \X Keys : executions[l] # a
      BY <1>9, NoValueAssumption DEF Inv, ReceiptsMatchLog
    <2>2. ~HasEvent(a, "provider_accepted")'
      BY <1>5, <1>7, <1>9, HasEventMeans
    <2>3. \A b \in Stored : HasEvent(b, "provider_accepted")' <=>
                            HasEvent(b, "provider_accepted")
      BY <1>9, HasEventMeans
    <2>4. ASSUME NEW l \in Tenants \X Keys, executions'[l] # NoValue
          PROVE  /\ executions'[l] \in Stored'
                 /\ KeyOf(executions[l])' = l
                 /\ effects'[executions'[l]] > 0
      <3>1. PICK b \in Stored : executions[l] = b
        BY <1>2, <2>4 DEF Inv, ReceiptsMatchLog
      <3>2. KeyOf(b) = l /\ effects[b] > 0
        BY <3>1, <2>4, <1>2 DEF Inv, ReceiptsMatchLog
      <3> QED
        BY <1>2, <1>9, <1>10, <3>1, <3>2 DEF KeyOf
    <2> QED
      BY <1>2, <1>4, <1>9, <1>10, <2>1, <2>2, <2>3, <2>4
         DEF Inv, ReceiptsMatchLog
  <1> QED
    BY <1>8, <1>11, <1>13, <1>14, <1>15, <1>16, <1>17, <1>18 DEF Inv

-----------------------------------------------------------------------------
(* The theorems.                                                           *)

\* The empty service satisfies the invariant.
LEMMA InitInv == Init => Inv
  <1> SUFFICES ASSUME Init PROVE Inv
    OBVIOUS
  <1> USE DEF Init
  <1>1. Stored = {}
    BY DEF Stored
  <1>2. TypeOK
    BY DEF TypeOK
  <1> QED
    BY <1>1, <1>2 DEF Inv, FreshIdsAreUnused, IndexIsSound, OneActionPerKey,
        StatusFollowsLog, LogsFitStatus, OnlyGrantedAreWritten, ReceiptsMatchLog

\* Every step of the service preserves the invariant.
LEMMA StepInv == Inv /\ [Next]_vars => Inv'
  <1> SUFFICES ASSUME Inv, [Next]_vars PROVE Inv'
    OBVIOUS
  <1>1. CASE \E t \in Tenants, p \in Proposal, role \in Roles, c \in Contexts :
                Propose(t, p, role, c)
    BY <1>1, ProposeKeepsInv
  <1>2. CASE \E t \in Tenants, a \in ActionIds, role \in Roles :
                Approve(t, a, role)
    BY <1>2, ApproveKeepsInv
  <1>3. CASE \E t \in Tenants, a \in ActionIds : Reject(t, a)
    BY <1>3, RejectKeepsInv
  <1>4. CASE \E th \in Threads, t \in Tenants, a \in ActionIds :
                ExecuteStart(th, t, a)
    BY <1>4, StartKeepsInv
  <1>5. CASE \E t \in Tenants, a \in ActionIds : ExecuteIneligible(t, a)
    BY <1>5, IneligibleKeepsInv
  <1>6. CASE \E th \in Threads : ProviderAccepts(th)
    BY <1>6, AcceptKeepsInv
  <1>7. CASE \E th \in Threads : ProviderFails(th)
    BY <1>7, FailKeepsInv
  <1>8. CASE \E t \in Tenants, a \in ActionIds, final \in BOOLEAN :
                Verify(t, a, final)
    BY <1>8, VerifyKeepsInv
  <1>9. CASE \E t \in Tenants, o \in Orders : Observe(t, o)
    BY <1>9, ObserveKeepsInv
  <1>10. CASE UNCHANGED vars
    BY <1>10 DEF vars, Inv, TypeOK, FreshIdsAreUnused, IndexIsSound,
        OneActionPerKey, StatusFollowsLog, LogsFitStatus, OnlyGrantedAreWritten,
        ReceiptsMatchLog, Stored, KeyOf, InFlight, HasEvent, Positions,
        AwaitingLog, GrantedLog, SentToApprover
  <1> QED
    BY <1>1, <1>2, <1>3, <1>4, <1>5, <1>6, <1>7, <1>8, <1>9, <1>10 DEF Next

\* The inductive invariant holds in every reachable state of the service, for
\* any number of threads inside execute (service.py, every method).
THEOREM InvHolds == Spec => []Inv
  <1> QED
    BY InitInv, StepInv, PTL DEF Spec

\* The service's dictionaries keep their types (service.py:41-45).
THEOREM TypeCorrect == Spec => []TypeOK
  <1>1. Inv => TypeOK
    BY DEF Inv
  <1> QED
    BY <1>1, InvHolds, PTL

\* No write without a policy verdict, an approval by the required role, and no
\* refusal (propose, approve, reject and execute together).
THEOREM OnlyAuthorizedEffects == Spec => []EffectsAreAuthorized
  <1>1. Inv => EffectsAreAuthorized
    <2> SUFFICES ASSUME Inv, NEW a \in ActionIds, effects[a] > 0 \/ InFlight(a)
                 PROVE  Authorized(a)
      BY DEF EffectsAreAuthorized
    <2>1. a \in Stored
      BY NoValueAssumption DEF Inv, FreshIdsAreUnused, InFlight
    <2>2. /\ actions[a].proposal.action_type = "cancel_order"
          /\ GrantedLog(a)
      BY <2>1 DEF Inv, OnlyGrantedAreWritten, LogsFitStatus
    <2>3. events[a] \in Seq(Event)
      BY DEF Inv, TypeOK
    <2>4. 1 \in DOMAIN events[a] /\ 2 \in DOMAIN events[a]
      BY <2>2, <2>3 DEF GrantedLog
    <2>5. Positions(a, {"rejected", "approval_denied"}) = {}
      BY <2>2 DEF GrantedLog, Positions
    <2>6. \E i, j \in DOMAIN events[a] :
            /\ i < j
            /\ events[a][i].type = "policy_evaluated"
            /\ events[a][i].status = "approval_required"
            /\ events[a][j].type = "approved"
            /\ events[a][j].role = actions[a].required_role
      <3> USE <2>4
      <3> WITNESS 1 \in DOMAIN events[a], 2 \in DOMAIN events[a]
      <3> QED
        BY <2>2 DEF GrantedLog, SentToApprover
    <2> QED
      BY <2>1, <2>2, <2>5, <2>6 DEF Authorized
  <1> QED
    BY <1>1, InvHolds, PTL

\* The log replays to the status in memory (service.py:86-133 against the
\* assignments of action.decision).
THEOREM LogExplainsStatus == Spec => []StatusFollowsLog
  <1>1. Inv => StatusFollowsLog
    BY DEF Inv
  <1> QED
    BY <1>1, InvHolds, PTL

\* One action per tenant and key (service.py:58-73).
THEOREM KeysAreIdempotent == Spec => []OneActionPerKey
  <1>1. Inv => OneActionPerKey
    BY DEF Inv
  <1> QED
    BY <1>1, InvHolds, PTL

\* Receipts, logs and provider agree (service.py:484-505).
THEOREM ReceiptsAgree == Spec => []ReceiptsMatchLog
  <1>1. Inv => ReceiptsMatchLog
    BY DEF Inv
  <1> QED
    BY <1>1, InvHolds, PTL

\* A refused action is never written (service.py:145-174, 206-217, 488).
THEOREM RefusalHolds == Spec => []RefusedNeverReachesProvider
  <1>1. Inv => RefusedNeverReachesProvider
    <2> SUFFICES ASSUME Inv, NEW a \in Stored,
                        actions[a].status \in
                            {"denied", "rejected", "precondition_failed"}
                 PROVE  /\ effects[a] = 0 /\ ~InFlight(a)
                        /\ executions[KeyOf(a)] # a
      BY DEF RefusedNeverReachesProvider
    <2>1. /\ a \in ActionIds /\ a # NoValue /\ effects[a] \in Nat
          /\ KeyOf(a) \in Tenants \X Keys
      BY StoredIsRecord, NoValueAssumption
         DEF Inv, TypeOK, KeyOf, StoredAction, Proposal
    <2>2. actions[a].status \notin GrantedStatuses
      BY DEF GrantedStatuses, VERIFIABLE_STATUSES, TERMINAL_VERIFICATION_STATUSES
    <2>3. ~(effects[a] > 0) /\ ~InFlight(a)
      BY <2>2 DEF Inv, OnlyGrantedAreWritten
    <2>4. executions[KeyOf(a)] # a
      BY <2>1, <2>3 DEF Inv, ReceiptsMatchLog
    <2> QED
      BY <2>1, <2>3, <2>4
  <1> QED
    BY <1>1, InvHolds, PTL

-----------------------------------------------------------------------------
(* What holds while executions do not overlap.  execute checks the status   *)
(* and the receipt before the call and writes after it without looking      *)
(* again; two threads inside execute for one action break what follows (the *)
(* run on two threads shows one).  The hypothesis is NoOverlappingExecution *)
(* and nothing else: threads may execute different actions at once.         *)

\* Nothing moves an action whose call is being waited for.
WaitingAreApproved ==
    \A a \in Stored : InFlight(a) => actions[a].status = "approved"

\* The log's verification events and the status tell the same story, and the
\* log holds one acceptance at most.
VerdictLog(a) ==
    /\ \A i, j \in DOMAIN events[a] :
          events[a][i].type = "provider_accepted"
            /\ events[a][j].type = "provider_accepted" => i = j
    /\ \A i \in DOMAIN events[a] : events[a][i].type \in AcceptedStatuses =>
          actions[a].status \in AcceptedStatuses
    /\ \A i \in DOMAIN events[a] :
          events[a][i].type \in TERMINAL_VERIFICATION_STATUSES =>
              actions[a].status = events[a][i].type
    /\ actions[a].status \in AcceptedStatuses =>
          \E i \in DOMAIN events[a] : events[a][i].type = "provider_accepted"
    /\ actions[a].status \in TERMINAL_VERIFICATION_STATUSES =>
          \E i \in DOMAIN events[a] : events[a][i].type = actions[a].status

SerialInv ==
    /\ WaitingAreApproved
    /\ \A a \in Stored : VerdictLog(a)

\* The three ways a log grows by an event: before the acceptance, by the
\* acceptance, and by a verification after it.
Follows(before, type, after) ==
    \/ /\ {before, type, after} \cap AcceptedStatuses = {}
    \/ /\ before \notin AcceptedStatuses
       /\ type = "provider_accepted" /\ after = type
    \/ /\ before \in VERIFIABLE_STATUSES
       /\ type \in {"verification_pending"} \cup TERMINAL_VERIFICATION_STATUSES
       /\ after = type

LEMMA GrownLogFits ==
    ASSUME NEW a \in ActionIds, events[a] \in Seq(Event), VerdictLog(a),
           NEW e \in Event, events'[a] = Append(events[a], e),
           Follows(actions[a].status, e.type, actions'[a].status)
    PROVE  VerdictLog(a)'
  <1> DEFINE s == events[a]
             t == events'[a]
             n == Len(events[a])
             before == actions[a].status
             after == actions'[a].status
  <1>1. /\ n \in Nat /\ DOMAIN s = 1..n /\ DOMAIN t = 1..(n + 1)
        /\ t[n + 1] = e /\ \A i \in 1..n : t[i] = s[i]
    BY AppendFacts
  <1>2. /\ \A i, j \in 1..n : s[i].type = "provider_accepted"
               /\ s[j].type = "provider_accepted" => i = j
        /\ \A i \in 1..n :
               s[i].type \in AcceptedStatuses => before \in AcceptedStatuses
        /\ \A i \in 1..n : s[i].type \in TERMINAL_VERIFICATION_STATUSES =>
               before = s[i].type
        /\ before \in AcceptedStatuses =>
               \E i \in 1..n : s[i].type = "provider_accepted"
        /\ before \in TERMINAL_VERIFICATION_STATUSES =>
               \E i \in 1..n : s[i].type = before
    BY <1>1 DEF VerdictLog
  <1>3. Follows(before, e.type, after)
    OBVIOUS
  <1> HIDE DEF s, t, n, before, after
  <1>4. \A i \in 1..(n + 1) : i \in 1..n \/ i = n + 1
    BY <1>1
  <1>5. n + 1 \in 1..(n + 1) /\ \A i \in 1..n : i \in 1..(n + 1)
    BY <1>1
  <1> USE DEF Follows, AcceptedStatuses, VERIFIABLE_STATUSES,
              TERMINAL_VERIFICATION_STATUSES
  <1>6. \A i, j \in 1..(n + 1) : t[i].type = "provider_accepted"
               /\ t[j].type = "provider_accepted" => i = j
    BY <1>1, <1>2, <1>3, <1>4
  <1>7. \A i \in 1..(n + 1) :
            t[i].type \in AcceptedStatuses => after \in AcceptedStatuses
    BY <1>1, <1>2, <1>3, <1>4
  <1>8. \A i \in 1..(n + 1) : t[i].type \in TERMINAL_VERIFICATION_STATUSES =>
            after = t[i].type
    BY <1>1, <1>2, <1>3, <1>4
  <1>9. after \in AcceptedStatuses =>
            \E i \in 1..(n + 1) : t[i].type = "provider_accepted"
    BY <1>1, <1>2, <1>3, <1>5
  <1>10. after \in TERMINAL_VERIFICATION_STATUSES =>
            \E i \in 1..(n + 1) : t[i].type = after
    BY <1>1, <1>3, <1>5
  <1> QED
    BY <1>1, <1>6, <1>7, <1>8, <1>9, <1>10 DEF VerdictLog, t, after

\* A transition that follows the action's status keeps every action's log.
LEMMA TransitionKeepsSerial ==
    ASSUME Inv, SerialInv, NEW a \in Stored, NEW type \in LaterTypes,
           NEW role \in Roles \cup {"approver", "verifier"},
           Transition(a, type, role),
           Follows(actions[a].status, type, StatusAfter(type)),
           \A b \in Stored : InFlight(b)' => InFlight(b) /\ b # a
    PROVE  SerialInv'
  <1>1. TypeOK /\ a \in ActionIds /\ events[a] \in Seq(Event)
    BY StoredIsRecord DEF Inv, TypeOK
  <1>2. /\ Stored' = Stored /\ Stored \subseteq ActionIds
        /\ \A b \in ActionIds : b # a =>
              actions'[b] = actions[b] /\ events'[b] = events[b]
        /\ actions'[a].status = StatusAfter(type)
        /\ events'[a] = Append(events[a], NewEvent(type, role,
                                    StatusAfter(type), "lifecycle"))
    BY <1>1, TransitionEffect DEF Stored
  <1>3. /\ NewEvent(type, role, StatusAfter(type), "lifecycle") \in Event
        /\ NewEvent(type, role, StatusAfter(type), "lifecycle").type = type
    BY LaterEventType DEF NewEvent
  <1>4. VerdictLog(a)'
    BY <1>1, <1>2, <1>3, GrownLogFits DEF SerialInv
  <1>5. ASSUME NEW b \in Stored, b # a
        PROVE  VerdictLog(b)'
    BY <1>2, <1>5 DEF SerialInv, VerdictLog
  <1>6. WaitingAreApproved'
    BY <1>2 DEF SerialInv, WaitingAreApproved
  <1> QED
    BY <1>2, <1>4, <1>5, <1>6 DEF SerialInv

\* Every step that keeps executions from overlapping keeps the invariant.
LEMMA SerialStep ==
    Inv /\ SerialInv /\ NoOverlappingExecution /\ NoOverlappingExecution'
        /\ [Next]_vars => SerialInv'
  <1> SUFFICES ASSUME Inv, SerialInv, NoOverlappingExecution,
                      NoOverlappingExecution', [Next]_vars
               PROVE  SerialInv'
    OBVIOUS
  <1>0. TypeOK
    BY DEF Inv
  <1> USE DEF AcceptedStatuses, VERIFIABLE_STATUSES,
              TERMINAL_VERIFICATION_STATUSES
  <1>1. ASSUME NEW t \in Tenants, NEW p \in Proposal, NEW role \in Roles,
               NEW c \in Contexts, Propose(t, p, role, c)
        PROVE  SerialInv'
    <2> DEFINE d == EvaluatePolicy(p.action_type, role, c.mode, c.order_value,
                                   c.value_limit, c.has_conflict)
               rec == [proposal |-> p, proposer_role |-> role, tenant |-> t,
                       status |-> d.status, required_role |-> d.required_role]
               e == NewEvent("policy_evaluated", role, d.status, "lifecycle")
    <2>1. PICK a \in ActionIds \ Stored :
            /\ actions' = [actions EXCEPT ![a] = rec]
            /\ events' = [events EXCEPT ![a] = Append(@, e)]
            /\ UNCHANGED inflight
      BY <1>1 DEF Propose, NewEvent
    <2>2. d.status \in {"denied", "approval_required"} /\ e \in Event
          /\ e.type = "policy_evaluated" /\ rec.status = d.status
      BY PolicyVerdict DEF NewEvent, Event, ActionStatus
    <2> HIDE DEF d, rec, e
    <2>3. /\ events'[a] = Append(events[a], e) /\ actions'[a] = rec
          /\ \A b \in Stored : actions'[b] = actions[b] /\ events'[b] = events[b]
          /\ Stored' \subseteq Stored \cup {a}
      BY <1>0, <2>1 DEF TypeOK, Stored
    <2>4. events[a] = <<>>
      BY <2>1 DEF Inv, FreshIdsAreUnused
    <2>5. DOMAIN events'[a] = 1..1 /\ events'[a][1] = e
      BY <2>2, <2>3, <2>4, FirstEvent
    <2>6. VerdictLog(a)'
      BY <2>2, <2>3, <2>5 DEF VerdictLog
    <2>7. \A b \in Stored : VerdictLog(b)'
      BY <2>3 DEF SerialInv, VerdictLog
    <2>8. WaitingAreApproved'
      BY <2>1, <2>3, NoValueAssumption
         DEF SerialInv, WaitingAreApproved, InFlight, Inv, FreshIdsAreUnused
    <2> QED
      BY <2>3, <2>6, <2>7, <2>8 DEF SerialInv
  <1>2. ASSUME NEW t \in Tenants, NEW a \in ActionIds, NEW role \in Roles,
               Approve(t, a, role)
        PROVE  SerialInv'
    <2> DEFINE e == ApprovalEvent(actions[a].required_role,
                                  actions[a].proposal, role, StateOf(a))
    <2>1. /\ a \in Stored /\ actions[a].status = "approval_required"
          /\ Transition(a, e, role) /\ UNCHANGED inflight
      BY <1>2 DEF Approve, Owns
    <2>2. /\ e \in LaterTypes
          /\ Follows(actions[a].status, e, StatusAfter(e))
      BY <2>1, ApprovalVerdict DEF LaterTypes, Follows, StatusAfter
    <2> HIDE DEF e
    <2>3. \A b \in Stored : InFlight(b)' => InFlight(b) /\ b # a
      BY <2>1, AwaitingIsUnwritten DEF InFlight
    <2> QED
      BY <2>1, <2>2, <2>3, TransitionKeepsSerial
  <1>3. ASSUME NEW t \in Tenants, NEW a \in ActionIds, Reject(t, a)
        PROVE  SerialInv'
    <2>1. /\ a \in Stored /\ actions[a].status = "approval_required"
          /\ Transition(a, "rejected", "approver") /\ UNCHANGED inflight
      BY <1>3 DEF Reject, Owns
    <2>2. /\ "rejected" \in LaterTypes
          /\ Follows(actions[a].status, "rejected", StatusAfter("rejected"))
      BY <2>1 DEF LaterTypes, Follows, StatusAfter
    <2>3. \A b \in Stored : InFlight(b)' => InFlight(b) /\ b # a
      BY <2>1, AwaitingIsUnwritten DEF InFlight
    <2> QED
      BY <2>1, <2>2, <2>3, TransitionKeepsSerial
  <1>4. ASSUME NEW th \in Threads, NEW t \in Tenants, NEW a \in ActionIds,
               ExecuteStart(th, t, a)
        PROVE  SerialInv'
    <2>1. /\ a \in Stored /\ actions[a].status = "approved"
          /\ inflight' = [inflight EXCEPT ![th] = a]
          /\ UNCHANGED <<actions, events>>
      BY <1>4 DEF ExecuteStart, MayExecute, Owns
    <2>2. Stored' = Stored /\ \A b \in Stored : InFlight(b)' => InFlight(b) \/ b = a
      BY <1>0, <2>1 DEF Stored, InFlight, TypeOK
    <2> QED
      BY <2>1, <2>2 DEF SerialInv, WaitingAreApproved, VerdictLog
  <1>5. ASSUME NEW t \in Tenants, NEW a \in ActionIds, ExecuteIneligible(t, a)
        PROVE  SerialInv'
    <2> DEFINE e == NewEvent("precondition_failed", "system",
                             StatusAfter("precondition_failed"), "execution")
    <2>1. /\ a \in Stored /\ actions[a].status = "approved"
          /\ events' = [events EXCEPT ![a] = Append(events[a], e)]
          /\ UNCHANGED <<actions, inflight>>
      BY <1>0, <1>5
         DEF ExecuteIneligible, MayExecute, Owns, AppendEvent, NewEvent, TypeOK
    <2>2. e \in Event /\ e.type = "precondition_failed"
      BY LaterEventType DEF NewEvent, LaterTypes, Roles, ProposerRoles
    <2> HIDE DEF e
    <2>3. /\ events[a] \in Seq(Event) /\ events'[a] = Append(events[a], e)
          /\ \A b \in Stored : b # a => events'[b] = events[b]
          /\ Stored' = Stored
      BY <1>0, <2>1 DEF TypeOK, Stored
    <2>4. Follows(actions[a].status, e.type, actions'[a].status)
      BY <2>1, <2>2 DEF Follows
    <2>5. VerdictLog(a)'
      BY <2>1, <2>2, <2>3, <2>4, GrownLogFits DEF SerialInv
    <2>6. \A b \in Stored : b # a => VerdictLog(b)'
      BY <2>1, <2>3 DEF SerialInv, VerdictLog
    <2>7. WaitingAreApproved'
      BY <2>1, <2>3 DEF SerialInv, WaitingAreApproved, InFlight
    <2> QED
      BY <2>3, <2>5, <2>6, <2>7 DEF SerialInv
  <1>6. ASSUME NEW th \in Threads, ProviderAccepts(th)
        PROVE  SerialInv'
    <2>1. PICK a \in Stored : a = inflight[th]
      BY <1>6 DEF ProviderAccepts, Inv, FreshIdsAreUnused
    <2>2. /\ Transition(a, "provider_accepted", "system")
          /\ inflight' = [inflight EXCEPT ![th] = NoValue]
          /\ inflight[th] # NoValue
      BY <1>6, <2>1 DEF ProviderAccepts
    <2>3. actions[a].status = "approved"
      BY <2>1 DEF SerialInv, WaitingAreApproved, InFlight
    <2>4. /\ "provider_accepted" \in LaterTypes /\ "system" \in Roles
          /\ Follows(actions[a].status, "provider_accepted",
                     StatusAfter("provider_accepted"))
      BY <2>3 DEF LaterTypes, Follows, StatusAfter, Roles, ProposerRoles
    <2>5. ASSUME NEW b \in Stored, InFlight(b)'
          PROVE  InFlight(b) /\ b # a
      <3>1. PICK w \in Threads : inflight'[w] = b
        BY <2>5 DEF InFlight
      <3>2. b # NoValue
        BY NoValueAssumption DEF Stored
      <3>3. w # th /\ inflight[w] = b
        BY <1>0, <2>2, <3>1, <3>2 DEF TypeOK
      <3> QED
        BY <2>1, <2>2, <3>3 DEF InFlight, NoOverlappingExecution
    <2> QED
      BY <2>2, <2>4, <2>5, TransitionKeepsSerial
  <1>7. ASSUME NEW th \in Threads, ProviderFails(th)
        PROVE  SerialInv'
    <2>1. /\ inflight' = [inflight EXCEPT ![th] = NoValue]
          /\ UNCHANGED <<actions, events>>
      BY <1>7 DEF ProviderFails
    <2>2. Stored' = Stored /\ \A b \in Stored : InFlight(b)' => InFlight(b)
      BY <1>0, <2>1, NoValueAssumption DEF Stored, InFlight, TypeOK
    <2> QED
      BY <2>1, <2>2 DEF SerialInv, WaitingAreApproved, VerdictLog
  <1>8. ASSUME NEW t \in Tenants, NEW a \in ActionIds, NEW final \in BOOLEAN,
               Verify(t, a, final)
        PROVE  SerialInv'
    <2> DEFINE e == VerificationEvent(StateOf(a), final)
    <2>1. /\ a \in Stored /\ actions[a].status \in VERIFIABLE_STATUSES
          /\ Transition(a, e, "verifier") /\ UNCHANGED inflight
      BY <1>8 DEF Verify, Owns
    <2>2. /\ e \in LaterTypes
          /\ Follows(actions[a].status, e, StatusAfter(e))
      BY <2>1, VerificationVerdict DEF LaterTypes, Follows
    <2> HIDE DEF e
    <2>3. \A b \in Stored : InFlight(b)' => InFlight(b) /\ b # a
      BY <2>1 DEF InFlight, SerialInv, WaitingAreApproved
    <2> QED
      BY <2>1, <2>2, <2>3, TransitionKeepsSerial
  <1>9. CASE UNCHANGED <<actions, events, inflight>>
    BY <1>9 DEF SerialInv, WaitingAreApproved, VerdictLog, Stored, InFlight
  <1>10. ASSUME NEW t \in Tenants, NEW o \in Orders, Observe(t, o)
         PROVE  SerialInv'
    BY <1>9, <1>10 DEF Observe
  <1>11. CASE UNCHANGED vars
    BY <1>9, <1>11 DEF vars
  <1> QED
    BY <1>1, <1>2, <1>3, <1>4, <1>5, <1>6, <1>7, <1>8, <1>10, <1>11 DEF Next

\* Without overlap the invariant holds.
THEOREM SerialInvHolds ==
    Spec /\ []NoOverlappingExecution => [](Inv /\ SerialInv)
  <1>1. Init => SerialInv
    BY DEF Init, SerialInv, WaitingAreApproved, Stored
  <1> QED
    BY <1>1, InvHolds, SerialStep, PTL DEF Spec

\* Without overlap an action executes at most once (service.py:484-517): the
\* receipt and the status that the next execute reads are in place.
THEOREM ExecutesOnce ==
    Spec /\ []NoOverlappingExecution => []AcceptedOnce
  <1>1. Inv /\ SerialInv => AcceptedOnce
    BY DEF Inv, SerialInv, FreshIdsAreUnused, AcceptedOnce, VerdictLog,
           Positions
  <1> QED
    BY <1>1, SerialInvHolds, PTL

\* A set of positions in a log has a last one.
LEMMA LastExists ==
    ASSUME NEW n \in Nat, NEW S, S \subseteq 1..n, S # {}
    PROVE  \E i \in S : \A j \in S : j <= i
  <1> DEFINE later == {p \in Nat \X Nat : p[1] < p[2]}
             T == {n - i : i \in S}
  <1>1. IsWellFoundedOn(later, Nat)
    BY NatLessThanWellFounded DEF OpToRel
  <1>2. \A i, j \in Nat : j < i => <<j, i>> \in later
    OBVIOUS
  <1>3. T \subseteq Nat /\ T # {}
    <2>1. PICK i \in S : TRUE
      OBVIOUS
    <2>2. n - i \in T
      BY <2>1
    <2>3. \A j \in 1..n : n - j \in Nat
      OBVIOUS
    <2> QED
      BY <2>2, <2>3
  <1>4. PICK m \in T : \A l \in T : ~ (<<l, m>> \in later)
    <2> HIDE DEF later, T
    <2> QED
      BY <1>1, <1>3, WFMin
  <1>5. PICK i \in S : m = n - i
    OBVIOUS
  <1>6. ASSUME NEW j \in S
        PROVE  j <= i
    <2>1. n - j \in T /\ n - j \in Nat /\ m \in Nat
      BY <1>3
    <2>2. ~ (n - j < m)
      <3> HIDE DEF later, T
      <3> QED
        BY <1>2, <1>4, <2>1
    <2> QED
      BY <1>5, <2>2
  <1> QED
    BY <1>6

\* The type of the last event at some positions is the type of one of them.
LEMMA LastEventIsThere ==
    ASSUME NEW a \in ActionIds, events[a] \in Seq(Event),
           NEW S, S \subseteq DOMAIN events[a], S # {}
    PROVE  (CHOOSE i \in S : \A j \in S : j <= i) \in S
  <1>1. DOMAIN events[a] = 1..Len(events[a]) /\ Len(events[a]) \in Nat
    OBVIOUS
  <1>2. \E i \in S : \A j \in S : j <= i
    BY <1>1, LastExists
  <1> QED
    BY <1>2

\* Without overlap the proof bundle never claims a verdict its evidence does
\* not hold, nor holds evidence of more than it claims (service.py:335-428).
THEOREM BundlesAreConsistent ==
    Spec /\ []NoOverlappingExecution => []ProofBundleConsistent
  <1>1. Inv /\ SerialInv => ProofBundleConsistent
    <2> SUFFICES ASSUME Inv, SerialInv, NEW a \in Stored
                 PROVE  /\ AssuranceLevel(a) = "verified" <=>
                               VerificationResult(a) = "verified"
                        /\ VerificationResult(a) # NoValue =>
                               AssuranceLevel(a) # "observed"
      BY DEF ProofBundleConsistent
    <2>1. a \in ActionIds /\ events[a] \in Seq(Event) /\ VerdictLog(a)
      BY StoredIsRecord DEF Inv, TypeOK, SerialInv
    <2> DEFINE terminal == Positions(a, TERMINAL_VERIFICATION_STATUSES)
               attempts == Positions(a, {"verification_pending"})
               LastOf(s) == CHOOSE i \in s : \A j \in s : j <= i
               result == VerificationResult(a)
    <2>2. terminal # {} => LastOf(terminal) \in terminal
      BY <2>1, LastEventIsThere DEF Positions
    <2>3. attempts # {} => LastOf(attempts) \in attempts
      BY <2>1, LastEventIsThere DEF Positions
    <2>4. result = IF terminal # {} THEN events[a][LastOf(terminal)].type
                   ELSE IF attempts # {} THEN events[a][LastOf(attempts)].type
                   ELSE NoValue
      BY DEF VerificationResult
    <2> HIDE DEF LastOf, result
    <2>5. HasEvent(a, "provider_accepted") <=>
              actions[a].status \in AcceptedStatuses
      BY <2>1, HasEventMeans
         DEF VerdictLog, AcceptedStatuses, VERIFIABLE_STATUSES
    <2>6. CASE terminal # {}
      <3>1. result = actions[a].status
            /\ result \in TERMINAL_VERIFICATION_STATUSES
        BY <2>1, <2>2, <2>4, <2>6 DEF Positions, VerdictLog
      <3> QED
        BY <2>5, <3>1 DEF AssuranceLevel, result, AcceptedStatuses
    <2>7. CASE terminal = {}
      <3>1. actions[a].status # "verified"
        BY <2>1, <2>7 DEF VerdictLog, Positions, TERMINAL_VERIFICATION_STATUSES
      <3>2. result # "verified"
        BY <2>3, <2>4, <2>7, NoValueAssumption DEF Positions, ActionStatus
      <3>3. result # NoValue => actions[a].status \in AcceptedStatuses
        BY <2>1, <2>3, <2>4, <2>7
           DEF Positions, VerdictLog, AcceptedStatuses, VERIFIABLE_STATUSES
      <3> QED
        BY <2>5, <3>1, <3>2, <3>3 DEF AssuranceLevel, result
    <2> QED
      BY <2>6, <2>7
  <1> QED
    BY <1>1, SerialInvHolds, PTL

-----------------------------------------------------------------------------
(* ActionService implements ActionContract while executions do not overlap. *)

\* How far an action of each status has come.
LEMMA PhaseValues ==
    /\ PhaseOfStatus("approval_required") = "awaiting"
    /\ PhaseOfStatus("approved") = "granted"
    /\ \A s \in {"denied", "rejected", "precondition_failed"} :
          PhaseOfStatus(s) = "refused"
    /\ \A s \in VERIFIABLE_STATUSES : PhaseOfStatus(s) = "accepted"
    /\ \A s \in TERMINAL_VERIFICATION_STATUSES : PhaseOfStatus(s) = s
  BY DEF PhaseOfStatus, VERIFIABLE_STATUSES, TERMINAL_VERIFICATION_STATUSES

\* A step that leaves actions and receipts alone is invisible.
LEMMA InvisibleStep ==
    ASSUME UNCHANGED <<actions, executions>>
    PROVE  UNCHANGED Contract!vars
  BY DEF Contract!vars, phaseBar, intentBar, writtenBar, Stored, KeyOf

\* A transition moves the phase of its action and no intent.
LEMMA TransitionMapped ==
    ASSUME TypeOK, NEW a \in Stored, NEW type \in LaterTypes,
           NEW role \in Roles \cup {"approver", "verifier"},
           Transition(a, type, role)
    PROVE  /\ phaseBar' = [phaseBar EXCEPT ![a] =
                               PhaseOfStatus(StatusAfter(type))]
           /\ UNCHANGED intentBar
           /\ phaseBar[a] = PhaseOfStatus(actions[a].status)
           /\ intentBar[a] = KeyOf(a)
  <1>1. /\ Stored' = Stored /\ a \in ActionIds
        /\ \A b \in ActionIds : b # a => actions'[b] = actions[b]
        /\ actions'[a].status = StatusAfter(type)
        /\ \A b \in Stored : KeyOf(b)' = KeyOf(b)
    BY TransitionEffect, StoredIsRecord
  <1>2. UNCHANGED intentBar
    BY <1>1 DEF intentBar
  <1>3. \A b \in ActionIds : phaseBar'[b] =
            IF b = a THEN PhaseOfStatus(StatusAfter(type)) ELSE phaseBar[b]
    BY <1>1 DEF phaseBar
  <1>4. phaseBar' = [phaseBar EXCEPT ![a] = PhaseOfStatus(StatusAfter(type))]
    BY <1>1, <1>3 DEF phaseBar
  <1> QED
    BY <1>1, <1>2, <1>4 DEF phaseBar, intentBar

\* Only a recorded acceptance of the key's own action is a receipt of the key.
LEMMA ReceiptIsOwn ==
    ASSUME Inv, NEW a \in Stored, KeyOf(a) \in writtenBar
    PROVE  executions[KeyOf(a)] = a
  <1>1. /\ executions[KeyOf(a)] \in Stored
        /\ KeyOf(executions[KeyOf(a)]) = KeyOf(a)
    BY DEF Inv, ReceiptsMatchLog, writtenBar
  <1> QED
    BY <1>1 DEF Inv, OneActionPerKey

\* Every step of the service is a step of the contract, or invisible to it.
LEMMA StepImplements ==
    Inv /\ SerialInv /\ [Next]_vars => [Contract!Next]_(Contract!vars)
  <1> SUFFICES ASSUME Inv, SerialInv, [Next]_vars
               PROVE  [Contract!Next]_(Contract!vars)
    OBVIOUS
  <1>0. TypeOK
    BY DEF Inv
  <1>1. ASSUME NEW t \in Tenants, NEW p \in Proposal, NEW role \in Roles,
               NEW c \in Contexts, Propose(t, p, role, c)
        PROVE  Contract!Next
    <2> DEFINE d == EvaluatePolicy(p.action_type, role, c.mode, c.order_value,
                                   c.value_limit, c.has_conflict)
               rec == [proposal |-> p, proposer_role |-> role, tenant |-> t,
                       status |-> d.status, required_role |-> d.required_role]
               k == <<t, p.key>>
    <2>1. PICK a \in ActionIds \ Stored :
            /\ actions' = [actions EXCEPT ![a] = rec]
            /\ idempotency[k] = NoValue
            /\ UNCHANGED executions
      BY <1>1 DEF Propose
    <2>2. /\ d.status \in {"denied", "approval_required"}
          /\ rec.status = d.status
          /\ <<rec.tenant, rec.proposal.key>> = k
          /\ k \in Tenants \X Keys
      BY PolicyVerdict DEF Proposal
    <2>3. d.required_role \in {"operations", NoValue}
      BY PolicyVerdict
    <2>4. rec # NoValue
      BY <2>2, <2>3, NoValueAssumption DEF StoredAction, ActionStatus
    <2> HIDE DEF d, rec, k
    <2>5. /\ a \in ActionIds /\ a \notin Stored /\ actions'[a] = rec
          /\ \A b \in ActionIds : b # a => actions'[b] = actions[b]
          /\ Stored' = Stored \cup {a}
      BY <1>0, <2>1, <2>4 DEF TypeOK, Stored
    <2>6. \A b \in ActionIds : intentBar[b] # k
      <3>1. \A b \in Stored : KeyOf(b) # k /\ b \in ActionIds
        BY <2>1, NoValueAssumption DEF Inv, OneActionPerKey, Stored
      <3> QED
        BY <2>2, <3>1, NoValueAssumption DEF intentBar
    <2>7. /\ KeyOf(a)' = k
          /\ \A b \in ActionIds : b # a => KeyOf(b)' = KeyOf(b)
      BY <2>2, <2>5 DEF KeyOf
    <2>8. intentBar' = [intentBar EXCEPT ![a] = k]
      BY <2>5, <2>7 DEF intentBar
    <2>9. /\ phaseBar[a] = "absent"
          /\ phaseBar' = [phaseBar EXCEPT ![a] = PhaseOfStatus(d.status)]
      BY <2>2, <2>5 DEF phaseBar
    <2>10. PhaseOfStatus(d.status) \in {"awaiting", "refused"}
      BY <2>2, PhaseValues
    <2>11. UNCHANGED writtenBar
      BY <2>1 DEF writtenBar
    <2>12. Contract!Submit(a, k)
      BY <2>6, <2>8, <2>9, <2>10, <2>11 DEF Contract!Submit, Contract!Move
    <2> QED
      BY <2>2, <2>5, <2>12 DEF Contract!Next
  <1>2. ASSUME NEW t \in Tenants, NEW a \in ActionIds, NEW role \in Roles,
               Approve(t, a, role)
        PROVE  Contract!Next
    <2> DEFINE e == ApprovalEvent(actions[a].required_role,
                                  actions[a].proposal, role, StateOf(a))
    <2>1. /\ a \in Stored /\ actions[a].status = "approval_required"
          /\ Transition(a, e, role) /\ UNCHANGED executions
      BY <1>2 DEF Approve, Owns
    <2>2. /\ e \in LaterTypes
          /\ StatusAfter(e) \in {"denied", "precondition_failed", "approved"}
      BY ApprovalVerdict DEF LaterTypes
    <2> HIDE DEF e
    <2>3. PhaseOfStatus(StatusAfter(e)) \in {"granted", "refused"}
      BY <2>2, PhaseValues
    <2>4. /\ phaseBar' = [phaseBar EXCEPT ![a] = PhaseOfStatus(StatusAfter(e))]
          /\ phaseBar[a] = "awaiting" /\ UNCHANGED <<intentBar, writtenBar>>
      BY <1>0, <2>1, <2>2, TransitionMapped, PhaseValues DEF writtenBar
    <2> QED
      BY <2>3, <2>4 DEF Contract!Next, Contract!Decide, Contract!Move
  <1>3. ASSUME NEW t \in Tenants, NEW a \in ActionIds, Reject(t, a)
        PROVE  Contract!Next
    <2>1. /\ a \in Stored /\ actions[a].status = "approval_required"
          /\ Transition(a, "rejected", "approver") /\ UNCHANGED executions
          /\ "rejected" \in LaterTypes /\ StatusAfter("rejected") = "rejected"
      BY <1>3 DEF Reject, Owns, LaterTypes, StatusAfter
    <2>2. /\ phaseBar' = [phaseBar EXCEPT ![a] = "refused"]
          /\ phaseBar[a] = "awaiting" /\ UNCHANGED <<intentBar, writtenBar>>
      BY <1>0, <2>1, TransitionMapped, PhaseValues DEF writtenBar
    <2> QED
      BY <2>2 DEF Contract!Next, Contract!Decide, Contract!Move
  <1>4. ASSUME NEW th \in Threads, ProviderAccepts(th)
        PROVE  Contract!Next
    <2>1. PICK a \in Stored : a = inflight[th]
      BY <1>4 DEF ProviderAccepts, Inv, FreshIdsAreUnused
    <2>2. /\ Transition(a, "provider_accepted", "system")
          /\ executions' = [executions EXCEPT ![KeyOf(a)] = a]
          /\ a \in ActionIds /\ KeyOf(a) \in Tenants \X Keys
      BY <1>0, <1>4, <2>1, StoredIsRecord
         DEF ProviderAccepts, KeyOf, StoredAction, Proposal
    <2>3. actions[a].status = "approved"
      BY <2>1 DEF SerialInv, WaitingAreApproved, InFlight
    <2>4. /\ "provider_accepted" \in LaterTypes /\ "system" \in Roles
          /\ StatusAfter("provider_accepted") = "provider_accepted"
          /\ "provider_accepted" \in VERIFIABLE_STATUSES
      BY DEF LaterTypes, StatusAfter, Roles, ProposerRoles, VERIFIABLE_STATUSES
    <2>5. /\ phaseBar' = [phaseBar EXCEPT ![a] = "accepted"]
          /\ phaseBar[a] = "granted" /\ UNCHANGED intentBar
          /\ intentBar[a] = KeyOf(a)
      BY <1>0, <2>2, <2>3, <2>4, TransitionMapped, PhaseValues
    <2>6. KeyOf(a) \notin writtenBar
      <3>1. ~ HasEvent(a, "provider_accepted")
        BY <2>2, <2>3, HasEventMeans
           DEF SerialInv, VerdictLog, AcceptedStatuses, VERIFIABLE_STATUSES,
               TERMINAL_VERIFICATION_STATUSES
      <3> QED
        BY <3>1, ReceiptIsOwn DEF Inv, ReceiptsMatchLog
    <2>7. writtenBar' = writtenBar \cup {KeyOf(a)}
      BY <1>0, <2>2, NoValueAssumption DEF writtenBar, TypeOK
    <2> QED
      BY <2>2, <2>5, <2>6, <2>7 DEF Contract!Next, Contract!Accept, Contract!Move
  <1>5. ASSUME NEW t \in Tenants, NEW a \in ActionIds, NEW final \in BOOLEAN,
               Verify(t, a, final)
        PROVE  [Contract!Next]_(Contract!vars)
    <2> DEFINE e == VerificationEvent(StateOf(a), final)
    <2>1. /\ a \in Stored /\ actions[a].status \in VERIFIABLE_STATUSES
          /\ Transition(a, e, "verifier") /\ UNCHANGED executions
      BY <1>5 DEF Verify, Owns
    <2>2. /\ e \in LaterTypes /\ StatusAfter(e) = e
          /\ e \in {"verification_pending"} \cup TERMINAL_VERIFICATION_STATUSES
      BY VerificationVerdict DEF LaterTypes
    <2> HIDE DEF e
    <2>3. /\ phaseBar' = [phaseBar EXCEPT ![a] = PhaseOfStatus(e)]
          /\ phaseBar[a] = "accepted" /\ UNCHANGED <<intentBar, writtenBar>>
      BY <1>0, <2>1, <2>2, TransitionMapped, PhaseValues DEF writtenBar
    <2>4. CASE e = "verification_pending"
      <3>1. PhaseOfStatus(e) = phaseBar[a]
        BY <2>3, <2>4, PhaseValues DEF VERIFIABLE_STATUSES
      <3>2. UNCHANGED phaseBar
        BY <2>3, <3>1 DEF phaseBar
      <3> QED
        BY <2>3, <3>2 DEF Contract!vars
    <2>5. CASE e \in TERMINAL_VERIFICATION_STATUSES
      <3>1. PhaseOfStatus(e) \in Contract!Verdicts
        BY <2>5, PhaseValues
           DEF Contract!Verdicts, TERMINAL_VERIFICATION_STATUSES
      <3> QED
        BY <2>3, <3>1 DEF Contract!Next, Contract!Settle, Contract!Move
    <2> QED
      BY <2>2, <2>4, <2>5
  <1>6. ASSUME NEW th \in Threads, NEW t \in Tenants, NEW a \in ActionIds,
               ExecuteStart(th, t, a)
        PROVE  UNCHANGED Contract!vars
    BY <1>6, InvisibleStep DEF ExecuteStart
  <1>7. ASSUME NEW t \in Tenants, NEW a \in ActionIds, ExecuteIneligible(t, a)
        PROVE  UNCHANGED Contract!vars
    BY <1>7, InvisibleStep DEF ExecuteIneligible
  <1>8. ASSUME NEW th \in Threads, ProviderFails(th)
        PROVE  UNCHANGED Contract!vars
    BY <1>8, InvisibleStep DEF ProviderFails
  <1>9. ASSUME NEW t \in Tenants, NEW o \in Orders, Observe(t, o)
        PROVE  UNCHANGED Contract!vars
    BY <1>9, InvisibleStep DEF Observe
  <1>10. CASE UNCHANGED vars
    BY <1>10, InvisibleStep DEF vars
  <1> QED
    BY <1>1, <1>2, <1>3, <1>4, <1>5, <1>6, <1>7, <1>8, <1>9, <1>10 DEF Next

\* The service keeps the gateway's contract while no two executions of one
\* action overlap: one action and one accepted write per key, a decision
\* before the write, one final verdict after it (the whole of service.py).
THEOREM KeepsContract ==
    Spec /\ []NoOverlappingExecution => ImplementsContract
  <1>1. Init => Contract!Init
    BY DEF Init, Contract!Init, phaseBar, intentBar, writtenBar, Stored
  <1> QED
    BY <1>1, SerialInvHolds, StepImplements, PTL
       DEF Spec, ImplementsContract, Contract!Spec

\* With a single executor thread the hypothesis of the three holds.
THEOREM OneExecutorNeverOverlaps ==
    ASSUME \A th1, th2 \in Threads : th1 = th2
    PROVE  Spec => []NoOverlappingExecution
  <1>1. Init => NoOverlappingExecution
    BY DEF NoOverlappingExecution
  <1>2. NoOverlappingExecution /\ [Next]_vars => NoOverlappingExecution'
    BY DEF NoOverlappingExecution
  <1> QED
    BY <1>1, <1>2, PTL DEF Spec
=============================================================================
