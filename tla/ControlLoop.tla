------------------------------ MODULE ControlLoop ------------------------------
(***************************************************************************)
(* The loop from an observation to a verified write, in one process without*)
(* persistence: the API as the demo drives it, and the worker that shares  *)
(* its services in the rehearsal.  Sources report an order to the World    *)
(* State, an agent looks at it and proposes a cancellation, a person       *)
(* approves, the provider is called, and what is read back is compiled     *)
(* before the action is judged.                                            *)
(*                                                                         *)
(* The World State is that of WorldStateRules, the decisions are those of  *)
(* ActionRules.  One order with one attribute, its status; proposals come  *)
(* from operations, and each is executed through one request at a time     *)
(* (ActionService has the rest of an action's life).  The provider is what *)
(* execute and the readers are given: a ShopifyConnector applies a write at*)
(* once, Shopify itself and the rehearsal's faults need not.               *)
(***************************************************************************)
EXTENDS WorldStateRules

Actions == INSTANCE ActionRules

CONSTANTS
    Order,       \* the order, the only entity
    ActionIds,   \* actions still to be proposed
    Reports,     \* ids that callers give their observations
    ReadBack,    \* the id ShopifyConnector.normalize gives every reading
    Polls        \* ids of the worker's readings, each minted once

ASSUME ControlLoopAssumption ==
    /\ Entities = {Order} /\ Attributes = {"status"}
    /\ Values \subseteq Actions!OrderStatuses /\ {"open", "cancelled"} \subseteq Values
    /\ "shopify" \in Connectors
    /\ ObservationIds = Reports \cup {ReadBack} \cup Polls

-----------------------------------------------------------------------------
(* Values.                                                                 *)

\* history: what an agent or an approver can know of the order.
Sight == [version : Nat \ {0}, status : Values, resolutions : SUBSET ConflictIds]

\* What the event of a verification tells of the reading it rests on.
ReadEvidence == [read : Values, known : BOOLEAN, observed : Values, commit : CommitIds]

Action == [status : Actions!ActionStatus, saw : Sight,
           proposal : [expected_version : Nat \ {0}, expected_status : {"open", NoValue}],
           evidence : ReadEvidence \cup {NoValue}]

Reading == [action : ActionIds, read : Values, known : BOOLEAN,
            state : EntityState \cup {NoValue}]

\* The absent value is none of the values it may stand in for.
ASSUME NoValueAssumption ==
    /\ NoValue \notin Values \cup Connectors \cup {Operator} /\ NoValue \notin Attribute
    /\ NoValue \notin EntityState /\ NoValue \notin Commit
    /\ NoValue \notin Conflict /\ NoValue \notin ConflictIds
    /\ NoValue \notin Sight /\ NoValue \notin ReadEvidence /\ NoValue \notin [status : Values]
    /\ NoValue \notin Action /\ NoValue \notin Reading

VARIABLES
    svc,         \* the WorldStateService
    minted,      \* commit ids drawn so far
    provider,    \* what the order is at Shopify
    view,        \* what the agent last saw of the order
    actions,     \* status of the actions, what was seen and what was read
    reading      \* the read-back that the API or the worker is busy with

vars == <<svc, minted, provider, view, actions, reading>>

Readers == {"api", "worker"}

NextId == minted + 1

\* The state of the order as the action service gets it.
StateOf(w) ==
    IF w.states[Order] = NoValue THEN NoValue
    ELSE [version |-> w.states[Order].version,
          status |-> ValuesOf(w.states[Order].attributes)["status"],
          fulfillment |-> "unfulfilled"]

Resolutions(w) == {i \in ConflictIds : w.conflicts[i] # NoValue /\ w.conflicts[i].status = "resolved"}

\* What somebody who looks at the order gets to know.
Seen(w) == [version |-> StateOf(w).version, status |-> StateOf(w).status,
            resolutions |-> Resolutions(w)]

Ingests(o) ==
    /\ svc' = Ingest(svc, o, NextId)
    /\ minted' = IF svc'.latest = NextId THEN NextId ELSE minted

-----------------------------------------------------------------------------
(* The World State's side.                                                 *)

\* What a source may send: Shopify what the order is or once was, perhaps
\* late, under an id of its own or the connector's; others whatever they hold.
Sendable(o) ==
    /\ o.id \in IF o.connector = "shopify" THEN Reports \cup {ReadBack} ELSE Reports
    /\ o.payload["status"] # NoValue
    /\ o.connector = "shopify" => o.payload["status"] \in {"open", provider}

\* POST /v1/observations.
Observe(o) ==
    /\ Sendable(o)
    /\ Ingests(o)
    /\ UNCHANGED <<provider, view, actions, reading>>

\* POST /v1/conflicts/{conflict_id}/resolve.
ResolveConflict(i, value) ==
    /\ svc.conflicts[i] # NoValue
    /\ svc' = Resolve(svc, i, value, NextId)
    /\ minted' = IF svc'.latest = NextId THEN NextId ELSE minted
    /\ UNCHANGED <<provider, view, actions, reading>>

\* GET /v1/orders/{order_id}, by the agent.
Look ==
    /\ svc.states[Order] # NoValue
    /\ view' = Seen(svc)
    /\ UNCHANGED <<svc, minted, provider, actions, reading>>

\* Somebody cancels the order at Shopify, or a write accepted earlier arrives.
Cancelled ==
    /\ provider' = "cancelled"
    /\ UNCHANGED <<svc, minted, view, actions, reading>>

-----------------------------------------------------------------------------
(* Actions.                                                                *)

\* has_conflict_for, from the index of open conflicts.
HasConflict == \E n \in Attributes : svc.open[<<Order, n>>] # NoValue

Verdict(has_conflict) ==
    Actions!EvaluatePolicy("cancel_order", "operations", "demo_proposal", NoValue,
                           NoValue, has_conflict).status

\* The proposal names the version that the agent saw and, if it likes, the status.
Propose(a, expected_status) ==
    /\ actions[a] = NoValue /\ view # NoValue
    /\ actions' = [actions EXCEPT ![a] =
           [status |-> Verdict(HasConflict), saw |-> view,
            proposal |-> [expected_version |-> view.version,
                          expected_status |-> expected_status],
            evidence |-> NoValue]]
    /\ UNCHANGED <<svc, minted, provider, view, reading>>

\* approve_action_impl looks the order up and approves.
Approve(a, role) ==
    /\ actions[a] # NoValue /\ actions[a].status = "approval_required"
    /\ actions' = [actions EXCEPT ![a].status = Actions!StatusAfter(
           Actions!ApprovalEvent("operations", actions[a].proposal, role, StateOf(svc)))]
    /\ UNCHANGED <<svc, minted, provider, view, reading>>

\* execute with cancel_order: the write may be applied now, later or never,
\* and the answer may be an acceptance or an error.
Execute(a, accepted) ==
    /\ actions[a] # NoValue /\ actions[a].status = "approved"
    /\ Actions!EligibleTestOrder(StateOf(svc))
    /\ provider' \in {provider, "cancelled"}
    /\ actions' = IF accepted THEN [actions EXCEPT ![a].status = "provider_accepted"]
                  ELSE actions
    /\ UNCHANGED <<svc, minted, view, reading>>

-----------------------------------------------------------------------------
(* Read-back.  The handler and the worker both read the order, compile what*)
(* they read, and judge the action by the state that the compilation gave  *)
(* them: three calls, between which anything may happen.                   *)

\* read_order.  The worker polls what is pending; the API whatever is asked.
BeginRead(r, a) ==
    /\ reading[r] = NoValue /\ actions[a] # NoValue
    /\ r = "worker" => actions[a].status \in Actions!VERIFIABLE_STATUSES
    /\ reading' = [reading EXCEPT ![r] =
           [action |-> a, read |-> provider, known |-> FALSE, state |-> NoValue]]
    /\ UNCHANGED <<svc, minted, provider, view, actions>>

ReadingIds(r) == IF r = "api" THEN {ReadBack} ELSE Polls \ svc.seen

\* normalize and ingest; a reading carries no timestamp and counts as fresh.
CompileRead(r) ==
    /\ reading[r] # NoValue /\ reading[r].state = NoValue
    /\ \E id \in ReadingIds(r) :
         /\ Ingests([id |-> id, connector |-> "shopify", entity |-> Order,
                     freshness |-> "fresh",
                     payload |-> [n \in Attributes |-> reading[r].read]])
         /\ reading' = [reading EXCEPT ![r].known = (id \in svc.seen),
                                       ![r].state = svc'.states[Order]]
    /\ UNCHANGED <<provider, view, actions>>

\* A slip: the evidence names the newest commit of the order.
EvidenceOfLatest(q) ==
    [read |-> q.read, known |-> q.known, observed |-> ValuesOf(q.state.attributes)["status"],
     commit |-> svc.states[Order].commit]

Evidence(q) ==
    [read |-> q.read, known |-> q.known, observed |-> ValuesOf(q.state.attributes)["status"],
     commit |-> q.state.commit]

\* verify; it raises for an action that is not verifiable any more.
Judge(r, is_final_attempt) ==
    LET q == reading[r]
        a == q.action
    IN  /\ q # NoValue /\ q.state # NoValue
        /\ r = "api" => is_final_attempt
        /\ actions' =
               IF actions[a].status \notin Actions!VERIFIABLE_STATUSES THEN actions
               ELSE [actions EXCEPT
                   ![a].status = Actions!VerificationEvent(
                       [status |-> Evidence(q).observed], is_final_attempt),
                   ![a].evidence = Evidence(q)]
        /\ reading' = [reading EXCEPT ![r] = NoValue]
        /\ UNCHANGED <<svc, minted, provider, view>>

\* action_proof: the commit that the event of a verdict names.
ProofCommit(a) ==
    IF actions[a].status \in {"verified", "state_diverged"}
       /\ actions[a].evidence.commit \in DOMAIN svc.commits
    THEN svc.commits[actions[a].evidence.commit] ELSE NoValue

-----------------------------------------------------------------------------
Init ==
    /\ svc = EmptyService
    /\ minted = 0
    /\ provider = "open"
    /\ view = NoValue
    /\ actions = [a \in ActionIds |-> NoValue]
    /\ reading = [r \in Readers |-> NoValue]

Next ==
    \/ \E o \in Observation : Observe(o)
    \/ \E i \in ConflictIds, value \in Values : ResolveConflict(i, value)
    \/ Look
    \/ Cancelled
    \/ \E a \in ActionIds, expected_status \in {"open", NoValue} : Propose(a, expected_status)
    \/ \E a \in ActionIds, role \in {"operations", "finance"} : Approve(a, role)
    \/ \E a \in ActionIds, accepted \in BOOLEAN : Execute(a, accepted)
    \/ \E r \in Readers, a \in ActionIds : BeginRead(r, a)
    \/ \E r \in Readers : CompileRead(r)
    \/ \E r \in Readers, is_final_attempt \in BOOLEAN : Judge(r, is_final_attempt)

Spec == Init /\ [][Next]_vars

-----------------------------------------------------------------------------
(* Properties.                                                             *)

\* Every variable has its type.
TypeOK ==
    /\ svc.states[Order] \in EntityState \cup {NoValue}
    /\ \A c \in DOMAIN svc.commits : svc.commits[c] \in Commit
    /\ minted \in Nat /\ provider \in {"open", "cancelled"}
    /\ view \in Sight \cup {NoValue}
    /\ actions \in [ActionIds -> Action \cup {NoValue}]
    /\ reading \in [Readers -> Reading \cup {NoValue}]

\* An approval rests on what the proposer saw: in between the order had no
\* other status and no dispute about it was decided, be it for the status it
\* had (the version of ingest and resolve_conflict, compared by approve).
ApprovalsRestOnWhatWasSeen ==
    [][\A a \in ActionIds :
          actions'[a] # actions[a] /\ actions'[a].status = "approved" =>
              /\ StateOf(svc).status = actions[a].saw.status
              /\ Resolutions(svc) = actions[a].saw.resolutions]_vars

\* A verdict that says otherwise than the order read back at Shopify is not a
\* silent one: the reading is on record as a side of a conflict, unless an
\* earlier observation had its id already.
OverruledReadsAreOnRecord ==
    \A a \in ActionIds :
        LET e == IF actions[a] = NoValue THEN NoValue ELSE actions[a].evidence IN
        e # NoValue /\ ~e.known /\ (e.read = "cancelled") # (actions[a].status = "verified") =>
            \E i \in ConflictIds :
                /\ svc.conflicts[i] # NoValue
                /\ \E k \in DOMAIN svc.conflicts[i].candidates :
                      /\ svc.conflicts[i].candidates[k].value = e.read
                      /\ svc.conflicts[i].candidates[k].connector = "shopify"

\* A proof bundle of a verdict shows a commit, and this commit left the order
\* with the status that the verdict was given for, whatever was compiled while
\* the action was judged (verify and action_proof).
ProofCommitShowsVerdict ==
    \A a \in ActionIds :
        actions[a] # NoValue /\ actions[a].status \in {"verified", "state_diverged"} =>
            /\ ProofCommit(a) # NoValue
            /\ ProofCommit(a).after["status"] = actions[a].evidence.observed
            /\ actions[a].status = "verified" <=> ProofCommit(a).after["status"] = "cancelled"

\* docs/mvp-design.md:749-752 promise a protective status "rather than a false
\* `verified`".  The verdict is taken from the World State, where a fresh
\* value of another source outweighs the reading.
VerifiedMeansCancelled ==
    \A a \in ActionIds :
        actions[a] # NoValue /\ actions[a].status = "verified" => provider = "cancelled"

\* docs/mvp-design.md:709, "Policy and preconditions are rechecked immediately
\* before execution."  The policy's conflict gate is asked for a proposal only.
NoWriteUnderConflict ==
    [][\A a \in ActionIds, accepted \in BOOLEAN : Execute(a, accepted) => ~HasConflict]_vars
=============================================================================
