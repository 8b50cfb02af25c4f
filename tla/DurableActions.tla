----------------------------- MODULE DurableActions -----------------------------
(***************************************************************************)
(* The actions of one tenant with persistence enabled.  Every process (an  *)
(* API, the verifier worker) keeps an ActionService of its own over the    *)
(* one table action_event.  A handler of api/app.py and a sweep of         *)
(* worker/verifier.py run alike: fetch the rows and restore those that are *)
(* news, change the memory, insert the events of the action that are not   *)
(* yet in the table.  Between these steps other threads and processes run, *)
(* an insert may fail and a process may crash and start with no memory.    *)
(*                                                                         *)
(* The verdicts of policy, approval, eligibility and verification depend on*)
(* World State, which is left out: each may be any the code can give.      *)
(***************************************************************************)
EXTENDS ActionRules, Sequences, FiniteSets

CONSTANTS
    Processes,     \* processes that hold an ActionService
    ApiThreads,    \* request threads of API processes
    WorkerThreads, \* the threads that sweep, one per worker process
    ProcessOf,     \* the process of a thread
    Verifiers,     \* threads that verify: the workers, and API threads asked to
    ActionIds,     \* identifiers still to be minted by uuid4
    Keys,          \* idempotency keys a caller may choose
    InOrder,       \* TRUE: unsorted rows arrive in the order of their insertion
    MaxEvents,     \* bound on the events in existence
    MaxCalls       \* bound on the writes the provider applies for one key

Threads == ApiThreads \cup WorkerThreads

ASSUME ThreadsAssumption ==
    /\ IsFiniteSet(Threads) /\ ApiThreads \cap WorkerThreads = {}
    /\ ProcessOf \in [Threads -> Processes]
    /\ Verifiers \subseteq Threads
    /\ NoValue \notin ActionIds \cup ActionStatus
ASSUME BoundsAssumption ==
    InOrder \in BOOLEAN /\ MaxEvents \in Nat /\ MaxCalls \in Nat

VARIABLES
    table,     \* rows of action_event, in the order of their insertion
    mem,       \* the ActionService of a process
    thread,    \* where a thread is in its handler or sweep
    effects    \* cancellations the provider applied under a key

vars == <<table, mem, thread, effects>>

-----------------------------------------------------------------------------
(* Values.                                                                 *)

EventIds == 1..MaxEvents

\* Of a row: identity and hash link, action and key, type, the status restore
\* gives the action, and the stage of a precondition failure.
Event == [id : EventIds, prev : EventIds \cup {NoValue}, action : ActionIds,
          key : Keys, type : {"policy_evaluated", "approval_denied"} \cup ActionStatus,
          status : ActionStatus, stage : {"lifecycle", "execution"}]

Memory == [log : [ActionIds -> Seq(Event)],
           status : [ActionIds -> ActionStatus \cup {NoValue}],
           keys : [Keys -> ActionIds \cup {NoValue}],
           receipts : SUBSET Keys]

EmptyMemory == [log |-> [a \in ActionIds |-> <<>>],
                status |-> [a \in ActionIds |-> NoValue],
                keys |-> [k \in Keys |-> NoValue],
                receipts |-> {}]

\* todo holds the positions of fetched rows that are still to be restored,
\* upto the length of the table when they were fetched.
Idle == [phase |-> "idle", action |-> NoValue, todo |-> {}, upto |-> 0]

ElementsOf(s) == {s[i] : i \in DOMAIN s}
KnownBy(m) == UNION {ElementsOf(m.log[a]) : a \in ActionIds}
IdsOf(m) == {e.id : e \in KnownBy(m)}
RowIds == {e.id : e \in ElementsOf(table)}
UsedIds == RowIds \cup UNION {IdsOf(mem[p]) : p \in Processes}
UsedActions == {e.action : e \in ElementsOf(table)} \cup
    UNION {{a \in ActionIds : mem[p].status[a] # NoValue} : p \in Processes}

\* uuid4: an identifier nobody knows.
FreshId == CHOOSE i \in EventIds \ UsedIds : \A j \in EventIds \ UsedIds : i <= j

-----------------------------------------------------------------------------
(* An ActionService's memory.                                              *)

Last(s) == s[Len(s)]
KeyOf(m, a) == m.log[a][1].key

\* The event enters the log; it sets neither status nor receipt.
Logged(m, e) == [m EXCEPT !.log[e.action] = Append(@, e)]

\* What the service's methods, and restore, make of an event.
Recorded(m, e) ==
    [Logged(m, e) EXCEPT
        !.status[e.action] = e.status,
        !.keys[e.key] = IF e.type = "policy_evaluated" THEN e.action ELSE @,
        !.receipts = IF e.type = "provider_accepted" THEN @ \cup {e.key} ELSE @]

\* Slip: the events after the first are logged, their status is not taken over.
RestoredWithoutStatus(m, e) ==
    IF \/ e.id \in IdsOf(m)
       \/ e.type # "policy_evaluated" /\ m.status[e.action] = NoValue
    THEN m
    ELSE IF e.type = "policy_evaluated" THEN Recorded(m, e)
    ELSE [Recorded(m, e) EXCEPT !.status = m.status]

\* restore: an event already known is skipped, and so is one of an action
\* whose policy evaluation has not been seen.
Restored(m, e) ==
    IF \/ e.id \in IdsOf(m)
       \/ e.type # "policy_evaluated" /\ m.status[e.action] = NoValue
    THEN m ELSE Recorded(m, e)

NewEvent(m, a, k, type, status, stage) ==
    [id |-> FreshId, action |-> a, key |-> k, type |-> type, status |-> status,
     stage |-> stage,
     prev |-> IF m.log[a] = <<>> THEN NoValue ELSE Last(m.log[a]).id]

-----------------------------------------------------------------------------
(* Fetching and restoring.                                                 *)

MemoryOf(th) == mem[ProcessOf[th]]

News(th) == {i \in DOMAIN table : table[i].id \notin IdsOf(MemoryOf(th))}

\* Slip: a process restores only before it knows any action.
LoadOnce(th) ==
    /\ thread[th].phase = "idle"
    /\ thread' = [thread EXCEPT ![th] =
          [Idle EXCEPT !.phase = "ready", !.upto = Len(table),
                       !.todo = IF IdsOf(MemoryOf(th)) = {} THEN News(th) ELSE {}]]
    /\ UNCHANGED <<table, mem, effects>>

\* restore_actions and pending_actions: the query.
Load(th) ==
    /\ thread[th].phase = "idle"
    /\ thread' = [thread EXCEPT ![th] =
          [Idle EXCEPT !.phase = "ready", !.upto = Len(table), !.todo = News(th)]]
    /\ UNCHANGED <<table, mem, effects>>

\* ... and one round of their loop.  The query has no ORDER BY.
RestoreRow(th) ==
    \E i \in thread[th].todo :
        /\ InOrder => \A j \in thread[th].todo : i <= j
        /\ thread' = [thread EXCEPT ![th].todo = @ \ {i}]
        /\ mem' = [mem EXCEPT ![ProcessOf[th]] = Restored(@, table[i])]
        /\ UNCHANGED <<table, effects>>

Ready(th) == thread[th].phase = "ready" /\ thread[th].todo = {}

\* A status, a list or a proof was asked for, the request was refused, or the
\* sweep found nothing left to verify.
Finish(th) ==
    /\ Ready(th)
    /\ thread' = [thread EXCEPT ![th] = Idle]
    /\ UNCHANGED <<table, mem, effects>>

\* The thread goes on to save the events of an action.
Saving(th, a) ==
    thread' = [thread EXCEPT ![th] = [Idle EXCEPT !.phase = "saving", !.action = a]]

\* propose, approve, reject and execute that find their work done already
\* return the outcome on record, and their handlers save it.
Repeat(th, a) ==
    /\ th \in ApiThreads /\ Ready(th)
    /\ MemoryOf(th).status[a] # NoValue
    /\ Saving(th, a)
    /\ UNCHANGED <<table, mem, effects>>

-----------------------------------------------------------------------------
(* The handlers' work in memory.                                           *)

Record(th, a, type) ==
    /\ UsedIds # EventIds
    /\ LET m == MemoryOf(th) IN
       mem' = [mem EXCEPT ![ProcessOf[th]] = Recorded(m,
           NewEvent(m, a, KeyOf(m, a), type, StatusAfter(type), "lifecycle"))]

\* Slip: the key is not looked up.
ProposeAgain(th, k) ==
    /\ th \in ApiThreads /\ Ready(th)
    /\ UsedIds # EventIds
    /\ \E a \in ActionIds \ UsedActions :
         LET m == MemoryOf(th) IN
         /\ mem' = [mem EXCEPT ![ProcessOf[th]] = Recorded(m,
                NewEvent(m, a, k, "policy_evaluated", "approval_required", "lifecycle"))]
         /\ Saving(th, a)
    /\ UNCHANGED <<table, effects>>

Propose(th, k) ==
    /\ th \in ApiThreads /\ Ready(th)
    /\ MemoryOf(th).keys[k] = NoValue
    /\ UsedIds # EventIds
    /\ \E a \in ActionIds \ UsedActions, decision \in {"approval_required", "denied"} :
         LET m == MemoryOf(th) IN
         /\ mem' = [mem EXCEPT ![ProcessOf[th]] = Recorded(m,
                NewEvent(m, a, k, "policy_evaluated", decision, "lifecycle"))]
         /\ Saving(th, a)
    /\ UNCHANGED <<table, effects>>

Approve(th, a) ==
    /\ th \in ApiThreads /\ Ready(th)
    /\ MemoryOf(th).status[a] = "approval_required"
    /\ \E type \in {"approval_denied", "precondition_failed", "approved"} :
          Record(th, a, type)
    /\ Saving(th, a)
    /\ UNCHANGED <<table, effects>>

\* Slip: an approval already given can be rejected.
RejectApproved(th, a) ==
    /\ th \in ApiThreads /\ Ready(th)
    /\ MemoryOf(th).status[a] \in {"approval_required", "approved"}
    /\ Record(th, a, "rejected")
    /\ Saving(th, a)
    /\ UNCHANGED <<table, effects>>

Reject(th, a) ==
    /\ th \in ApiThreads /\ Ready(th)
    /\ MemoryOf(th).status[a] = "approval_required"
    /\ Record(th, a, "rejected")
    /\ Saving(th, a)
    /\ UNCHANGED <<table, effects>>

\* Slips: an accepted action is executed again; approval is not awaited.
MayExecuteAgain(m, a) == m.status[a] \in {"approved"} \cup VERIFIABLE_STATUSES

MayExecuteUnapproved(m, a) ==
    /\ m.status[a] \in {"approval_required", "approved"}
    /\ KeyOf(m, a) \notin m.receipts

MayExecute(m, a) ==
    /\ m.status[a] = "approved"
    /\ KeyOf(m, a) \notin m.receipts

\* execute up to the provider call, for an order still eligible.
ExecuteStart(th, a) ==
    /\ th \in ApiThreads /\ Ready(th)
    /\ MayExecute(MemoryOf(th), a)
    /\ effects[KeyOf(MemoryOf(th), a)] < MaxCalls
    /\ thread' = [thread EXCEPT ![th].phase = "calling", ![th].action = a]
    /\ UNCHANGED <<table, mem, effects>>

\* The failure is logged but the request ends in an error: nothing is saved.
ExecuteIneligible(th, a) ==
    /\ th \in ApiThreads /\ Ready(th)
    /\ MayExecute(MemoryOf(th), a)
    /\ UsedIds # EventIds
    /\ LET m == MemoryOf(th) IN
       mem' = [mem EXCEPT ![ProcessOf[th]] = Logged(m,
           NewEvent(m, a, KeyOf(m, a), "precondition_failed",
                    "precondition_failed", "execution"))]
    /\ thread' = [thread EXCEPT ![th] = Idle]
    /\ UNCHANGED <<table, effects>>

\* execute after the provider call, if the process lived to see the answer.
ProviderAccepts(th) ==
    /\ thread[th].phase = "calling"
    /\ Record(th, thread[th].action, "provider_accepted")
    /\ effects' = [effects EXCEPT ![KeyOf(MemoryOf(th), thread[th].action)] = @ + 1]
    /\ Saving(th, thread[th].action)
    /\ UNCHANGED table

\* The call raised instead, whether or not the write was applied; the request
\* ends in an error.
ProviderFails(th) ==
    /\ thread[th].phase = "calling"
    /\ \E applied \in {0, 1} :
         effects' = [effects EXCEPT ![KeyOf(MemoryOf(th), thread[th].action)] = @ + applied]
    /\ thread' = [thread EXCEPT ![th] = Idle]
    /\ UNCHANGED <<table, mem>>

\* Slip: a verdict on record is given once more.
VerifyAgain(th, a) ==
    /\ th \in Verifiers /\ Ready(th)
    /\ MemoryOf(th).status[a] \in
          VERIFIABLE_STATUSES \cup TERMINAL_VERIFICATION_STATUSES
    /\ Record(th, a, "verified")
    /\ Saving(th, a)
    /\ UNCHANGED <<table, effects>>

\* verify: the API gives a verdict at once, the worker may poll on.
Verify(th, a) ==
    /\ th \in Verifiers /\ Ready(th)
    /\ MemoryOf(th).status[a] \in VERIFIABLE_STATUSES
    /\ \E type \in TERMINAL_VERIFICATION_STATUSES \cup {"verification_pending"} :
          /\ type = "verification_pending" => th \in WorkerThreads
          /\ Record(th, a, type)
    /\ Saving(th, a)
    /\ UNCHANGED <<table, effects>>

-----------------------------------------------------------------------------
(* Saving, failing and crashing.                                           *)

\* The log of the action at hand, and the places in it of events that are not
\* among the rows.
LogAtHand(th) == MemoryOf(th).log[thread[th].action]
Unsaved(th) == {n \in DOMAIN LogAtHand(th) : LogAtHand(th)[n].id \notin RowIds}

\* The n-th of a set of places, counted from the first.
Nth(S, n) == CHOOSE i \in S : Cardinality({j \in S : j < i}) = n - 1

\* The events at these places, in their order.
EventsAt(log, places) == [n \in 1..Cardinality(places) |-> log[Nth(places, n)]]

\* The worker goes on with its sweep, without restoring again.
AfterSaving(th) == IF th \in WorkerThreads THEN [Idle EXCEPT !.phase = "ready"] ELSE Idle

\* Slip: only the newest event is inserted.
SaveNewest(th) ==
    /\ thread[th].phase = "saving"
    /\ table' = table \o
          EventsAt(LogAtHand(th), {n \in Unsaved(th) : n = Len(LogAtHand(th))})
    /\ thread' = [thread EXCEPT ![th] = AfterSaving(th)]
    /\ UNCHANGED <<mem, effects>>

\* persist_action_events and commit.
Save(th) ==
    /\ thread[th].phase = "saving"
    /\ table' = table \o EventsAt(LogAtHand(th), Unsaved(th))
    /\ thread' = [thread EXCEPT ![th] = AfterSaving(th)]
    /\ UNCHANGED <<mem, effects>>

\* The transaction is rolled back, the memory is not.  (A worker dies of it.)
SaveFails(th) ==
    /\ th \in ApiThreads
    /\ thread[th].phase = "saving"
    /\ thread' = [thread EXCEPT ![th] = Idle]
    /\ UNCHANGED <<table, mem, effects>>

\* A process stops, and starts again without memory.  A provider call it was
\* waiting for may have been applied.
Crash(p) ==
    /\ mem[p] # EmptyMemory
    /\ mem' = [mem EXCEPT ![p] = EmptyMemory]
    /\ thread' = [th \in Threads |-> IF ProcessOf[th] = p THEN Idle ELSE thread[th]]
    /\ \E applied \in SUBSET {th \in Threads :
                                 ProcessOf[th] = p /\ thread[th].phase = "calling"} :
         effects' = [k \in Keys |-> effects[k] + Cardinality(
             {th \in applied : KeyOf(MemoryOf(th), thread[th].action) = k})]
    /\ UNCHANGED table

-----------------------------------------------------------------------------
Init ==
    /\ table = <<>>
    /\ mem = [p \in Processes |-> EmptyMemory]
    /\ thread = [th \in Threads |-> Idle]
    /\ effects = [k \in Keys |-> 0]

Next ==
    \/ \E th \in Threads :
         \/ Load(th) \/ RestoreRow(th) \/ Finish(th)
         \/ ProviderAccepts(th) \/ ProviderFails(th)
         \/ Save(th) \/ SaveFails(th)
    \/ \E th \in Threads, k \in Keys : Propose(th, k)
    \/ \E th \in Threads, a \in ActionIds :
         \/ Repeat(th, a) \/ Approve(th, a) \/ Reject(th, a)
         \/ ExecuteStart(th, a) \/ ExecuteIneligible(th, a) \/ Verify(th, a)
    \/ \E p \in Processes : Crash(p)

Spec == Init /\ [][Next]_vars

-----------------------------------------------------------------------------
(* Properties.                                                             *)

\* The rows are events, every memory is one, and no identifier is used twice
\* in the table or in a log.
TypeOK ==
    /\ table \in Seq(Event)
    /\ mem \in [Processes -> Memory]
    /\ thread \in [Threads -> [phase : {"idle", "ready", "calling", "saving"},
                               action : ActionIds \cup {NoValue},
                               todo : SUBSET DOMAIN table, upto : 0..Len(table)]]
    /\ effects \in [Keys -> Nat]
    /\ Cardinality(RowIds) = Len(table)
    /\ \A p \in Processes, a \in ActionIds :
          Cardinality(ElementsOf(mem[p].log[a])) = Len(mem[p].log[a])

\* The hash links of the table never point at a row that is not there:
\* whatever crashes or fails, a row's predecessor was inserted before it.
RowsFollowTheirPredecessor ==
    \A i \in DOMAIN table :
        \/ table[i].prev = NoValue /\ table[i].type = "policy_evaluated"
        \/ \E j \in 1..(i - 1) : /\ table[j].id = table[i].prev
                                 /\ table[j].action = table[i].action

\* Row i has an earlier row of its action with one of these types and status.
After(i, type, status) ==
    \E j \in 1..(i - 1) : /\ table[j].action = table[i].action
                          /\ table[j].type = type
                          /\ table[j].status = status

\* An auditor who reads the table finds every cause before its consequence:
\* verdict after acceptance, acceptance after approval, approval after policy.
CausesAreRecordedFirst ==
    \A i \in DOMAIN table :
        /\ table[i].type \in TERMINAL_VERIFICATION_STATUSES \cup {"verification_pending"} =>
              After(i, "provider_accepted", "provider_accepted")
        /\ table[i].type = "provider_accepted" => After(i, "approved", "approved")
        /\ table[i].type \in {"approved", "approval_denied", "rejected"} =>
              After(i, "policy_evaluated", "approval_required")

\* When a handler decides, its process knows every row that was committed
\* before the handler began (restore_actions before every decision).
DecidesOnCommittedHistory ==
    \A th \in Threads : Ready(th) =>
        \A i \in 1..thread[th].upto : table[i].id \in IdsOf(MemoryOf(th))

HasRow(a, types) == \E i \in DOMAIN table : table[i].action = a /\ table[i].type \in types

\* The table never shows an action both refused by a person and accepted by
\* the provider; a rejected action ends at "rejected" (docs/mvp-design.md 8).
RefusedIsNeverAccepted ==
    \A a \in ActionIds :
        ~(HasRow(a, {"rejected", "approval_denied"}) /\ HasRow(a, {"provider_accepted"}))

\* One action is settled by one verdict: no attempt is made from a status that
\* is not verifiable (VERIFIABLE_STATUSES).
OneVerdict ==
    \A i, j \in DOMAIN table :
        /\ table[i].type \in TERMINAL_VERIFICATION_STATUSES
        /\ table[j].type \in TERMINAL_VERIFICATION_STATUSES
        /\ table[i].action = table[j].action
        => i = j

\* Two processes that know the same events of an action give the same answer
\* about it, unless an execution was refused: that failure leaves the status
\* alone where it happens and sets it where it is restored.
SameEventsSameStatus ==
    \A p, q \in Processes, a \in ActionIds :
        ElementsOf(mem[p].log[a]) = ElementsOf(mem[q].log[a]) =>
            \/ mem[p].status[a] = mem[q].status[a]
            \/ \E e \in ElementsOf(mem[p].log[a]) : e.stage = "execution"

\* A key belongs to one action, whoever retries the proposal and whenever.
OneRecordedActionPerKey ==
    \A i, j \in DOMAIN table : table[i].key = table[j].key => table[i].action = table[j].action

\* Reusing a key cannot duplicate the effect (docs/mvp-design.md 14.4).
EffectIsNotDuplicated == \A k \in Keys : effects[k] <= 1

\* A retry returns the outcome when the key has been accepted
\* (docs/mvp-design.md 7.9): no provider call starts once the handler could
\* have read the acceptance.
AcceptanceIsHonoured ==
    \A th \in Threads : thread[th].phase = "calling" =>
        \A i \in 1..thread[th].upto :
            table[i].type = "provider_accepted" => table[i].action # thread[th].action
=============================================================================
