-------------------------------- MODULE Verifier --------------------------------
(***************************************************************************)
(* The verification worker of reality_layer.worker.verifier over the table *)
(* action_event: a sweep restores the actions, takes those that a provider *)
(* accepted in the order of their proposal, and polls the order of one     *)
(* after the other with bounded backoff until it has a verdict.  An        *)
(* exception is caught nowhere in the loop, so it ends the process; the    *)
(* platform starts it again with an empty memory.                          *)
(*                                                                         *)
(* What is stored of an action is its status.  The World State between the *)
(* read and the verdict is taken to follow the read (ControlLoop drops     *)
(* this), and nobody else verifies (DurableActions drops that).  Time is   *)
(* counted in ticks from the start of a polling loop; intervals are whole  *)
(* numbers of them.                                                        *)
(***************************************************************************)
EXTENDS ActionRules, Sequences

CONSTANTS
    Proposed,     \* the actions, in the order of their proposal
    Fragile,      \* those whose order may become unreadable for good
    Configurations, \* settings a worker may be started with
    ReadTicks,    \* the longest that a read and its compilation take
    SaveTicks,    \* the longest that a transaction for the events takes
    MaxFaults     \* bound on failures that a restart overcomes

Actions == {Proposed[i] : i \in DOMAIN Proposed}

Settings == [max_attempts : Nat, timeout : Nat, initial_interval : Nat,
             backoff_factor : Nat, max_interval : Nat]

ASSUME VerifierAssumption ==
    /\ Proposed \in Seq(Actions) /\ Fragile \subseteq Actions
    /\ Configurations \subseteq Settings
    /\ ReadTicks \in Nat /\ SaveTicks \in Nat /\ MaxFaults \in Nat
    /\ NoValue \notin ActionStatus

VARIABLES
    settings,   \* the worker's settings, which never change
    order,      \* the order of an action at the provider
    table,      \* the status that the stored events of an action give
    memory,     \* its status in the worker's ActionService, once known
    worker,     \* where the worker is in its loops
    faults      \* failures so far

vars == <<settings, order, table, memory, worker, faults>>

-----------------------------------------------------------------------------
(* The polling loop's arithmetic.                                          *)

Least(m, n) == IF m <= n THEN m ELSE n

Attempts == IF settings.max_attempts >= 1 THEN settings.max_attempts ELSE 1

\* What is left of the time, in which the next read should begin.
Remaining(elapsed) ==
    IF elapsed <= settings.timeout THEN settings.timeout - elapsed ELSE 0

\* Slip: the interval is not shortened to what is left.
NextPauseUncapped(interval, elapsed) == interval

NextPause(interval, elapsed) == Least(interval, Remaining(elapsed))

Backoff(interval) ==
    Least(interval * settings.backoff_factor, settings.max_interval)

IsFinal(attempt, elapsed) == attempt >= Attempts \/ elapsed >= settings.timeout

-----------------------------------------------------------------------------
(* Places in the loops.                                                    *)

Idle == [phase |-> "idle", todo |-> {}, attempt |-> 0, elapsed |-> 0,
         interval |-> 0, is_final |-> FALSE]

\* run_once goes to the first action of its list, or is done with it.  The list
\* holds places in Proposed, in their order.
PollFirst(todo) ==
    IF todo = {} THEN Idle
    ELSE [Idle EXCEPT !.phase = "read", !.todo = todo, !.attempt = 1,
                      !.interval = settings.initial_interval]

First(todo) == CHOOSE i \in todo : \A j \in todo : i <= j

Current == Proposed[First(worker.todo)]

Rest == worker.todo \ {First(worker.todo)}

Forgotten == [a \in Actions |-> NoValue]

\* An exception that nothing catches ends the process and its memory.
ProcessEnds ==
    /\ worker' = [Idle EXCEPT !.phase = "down"]
    /\ memory' = Forgotten

-----------------------------------------------------------------------------
(* Sweeps.                                                                 *)

\* restore skips the events it knows: after the acceptance all others are the
\* worker's own.
Restored ==
    [a \in Actions |->
        IF memory[a] \in {NoValue, "approved"} THEN table[a] ELSE memory[a]]

Pending(statuses) ==
    {i \in DOMAIN Proposed : statuses[Proposed[i]] \in VERIFIABLE_STATUSES}

\* Slip: the log is read once, by the first sweep of a process.
SweepKnown ==
    /\ worker.phase = "idle"
    /\ memory' = IF memory = Forgotten THEN table ELSE memory
    /\ worker' = PollFirst(Pending(memory'))
    /\ UNCHANGED <<settings, order, table, faults>>

\* pending_actions restores what is stored and lists what awaits a verdict.
Sweep ==
    /\ worker.phase = "idle"
    /\ memory' = Restored
    /\ worker' = PollFirst(Pending(memory'))
    /\ UNCHANGED <<settings, order, table, faults>>

\* One attempt: the order is read and compiled, and the action judged.
Read ==
    /\ worker.phase = "read" /\ worker.attempt <= Attempts
    /\ order[Current] # "unreadable"
    /\ \E ticks \in 0..ReadTicks :
         LET elapsed == worker.elapsed + ticks
             is_final == IsFinal(worker.attempt, elapsed)
         IN  /\ memory' = [memory EXCEPT ![Current] =
                    VerificationEvent([status |-> order[Current]], is_final)]
             /\ worker' = [worker EXCEPT !.phase = "save", !.elapsed = elapsed,
                                         !.is_final = is_final]
    /\ UNCHANGED <<settings, order, table, faults>>

\* The read raises, for this order every time.
ReadRaises ==
    /\ worker.phase = "read" /\ order[Current] = "unreadable"
    /\ ProcessEnds
    /\ UNCHANGED <<settings, order, table, faults>>

\* Slip: a failing transaction is logged and the loop goes on.
SaveOrGoOn ==
    /\ worker.phase = "save"
    /\ table' \in {table, [table EXCEPT ![Current] = memory[Current]]}
    /\ worker' = IF worker.is_final THEN PollFirst(Rest)
                 ELSE [worker EXCEPT !.phase = "sleep"]
    /\ UNCHANGED <<settings, order, memory, faults>>

\* Slip: the deadline is looked at once more before the pause.
SaveUnlessLate ==
    /\ worker.phase = "save"
    /\ table' = [table EXCEPT ![Current] = memory[Current]]
    /\ \E ticks \in 0..SaveTicks :
          LET elapsed == worker.elapsed + ticks
          IN  worker' = IF worker.is_final \/ elapsed >= settings.timeout
                        THEN PollFirst(Rest)
                        ELSE [worker EXCEPT !.phase = "sleep", !.elapsed = elapsed]
    /\ UNCHANGED <<settings, order, memory, faults>>

\* _persist_events, and then the next action or the pause before the next read.
Save ==
    /\ worker.phase = "save"
    /\ table' = [table EXCEPT ![Current] = memory[Current]]
    /\ IF memory[Current] \in TERMINAL_VERIFICATION_STATUSES \/ worker.is_final
       THEN worker' = PollFirst(Rest)
       ELSE \E ticks \in 0..SaveTicks :
              LET elapsed == worker.elapsed + ticks
              IN  worker' = [worker EXCEPT !.phase = "sleep", !.elapsed = elapsed,
                                           !.interval = NextPause(@, elapsed)]
    /\ UNCHANGED <<settings, order, memory, faults>>

Sleep ==
    /\ worker.phase = "sleep"
    /\ worker' = [worker EXCEPT !.phase = "read", !.attempt = @ + 1,
                                !.elapsed = @ + worker.interval,
                                !.interval = Backoff(@)]
    /\ UNCHANGED <<settings, order, table, memory, faults>>

\* A read, a transaction or the process fails, and would not the next time.
Fault ==
    /\ worker.phase # "down" /\ faults < MaxFaults
    /\ faults' = faults + 1
    /\ ProcessEnds
    /\ UNCHANGED <<settings, order, table>>

\* build_worker: new services, nothing in memory.
Restart ==
    /\ worker.phase = "down"
    /\ worker' = Idle
    /\ UNCHANGED <<settings, order, table, memory, faults>>

-----------------------------------------------------------------------------
(* The API and the provider.                                               *)

\* execute_action stores the acceptance; a provider may apply the write then,
\* later or never.
Accept(a) ==
    /\ table[a] = "approved"
    /\ table' = [table EXCEPT ![a] = "provider_accepted"]
    /\ order' \in {order, [order EXCEPT ![a] = "cancelled"]}
    /\ UNCHANGED <<settings, memory, worker, faults>>

Apply(a) ==
    /\ table[a] # "approved" /\ order[a] = "open"
    /\ order' = [order EXCEPT ![a] = "cancelled"]
    /\ UNCHANGED <<settings, table, memory, worker, faults>>

\* The provider answers 404 from now on, or with an order without a status.
BecomeUnreadable(a) ==
    /\ a \in Fragile /\ order[a] # "unreadable"
    /\ order' = [order EXCEPT ![a] = "unreadable"]
    /\ UNCHANGED <<settings, table, memory, worker, faults>>

-----------------------------------------------------------------------------
Init ==
    /\ settings \in Configurations
    /\ order = [a \in Actions |-> "open"]
    /\ table = [a \in Actions |-> "approved"]
    /\ memory = Forgotten
    /\ worker = Idle
    /\ faults = 0

WorkerStep == Sweep \/ Read \/ ReadRaises \/ Save \/ Sleep \/ Restart

Next ==
    \/ WorkerStep
    \/ Fault
    \/ \E a \in Actions : Accept(a) \/ Apply(a) \/ BecomeUnreadable(a)

\* run_forever never waits for anybody, and the platform restarts what ended.
Fairness == WF_vars(WorkerStep)

Spec == Init /\ [][Next]_vars

FairSpec == Spec /\ Fairness

-----------------------------------------------------------------------------
(* Properties.                                                             *)

\* Every variable has its type.
TypeOK ==
    /\ settings \in Configurations
    /\ order \in [Actions -> {"open", "cancelled", "unreadable"}]
    /\ table \in [Actions -> ActionStatus]
    /\ memory \in [Actions -> ActionStatus \cup {NoValue}]
    /\ worker \in [phase : {"idle", "read", "save", "sleep", "down"},
                   todo : SUBSET DOMAIN Proposed, attempt : Nat, elapsed : Nat,
                   interval : Nat, is_final : BOOLEAN]
    /\ worker.phase \in {"read", "save", "sleep"} => worker.todo # {}
    /\ faults \in 0..MaxFaults

\* No action holds up the sweep for longer than the timeout, one read and one
\* transaction, whatever the intervals, and none is read more often than
\* max_attempts, or once when that is zero (verify_action).
BudgetIsKept ==
    worker.phase \in {"read", "save", "sleep"} =>
        /\ worker.attempt \in 1..Attempts
        /\ worker.elapsed <= settings.timeout + SaveTicks + ReadTicks

\* What the worker decides is stored before it turns to anything else: between
\* two transactions no verdict is in its memory alone, where the next sweep
\* would take the action for settled (_persist_events and run_forever).
VerdictsAreStored ==
    \A a \in Actions :
        memory[a] \in TERMINAL_VERIFICATION_STATUSES =>
            table[a] = memory[a] \/ (worker.phase = "save" /\ a = Current)

\* A polling loop that runs to its end leaves a stored verdict, also when the
\* budget is zero or the deadline passes between two attempts.
PollingEndsInVerdict ==
    [][worker.todo # {} /\ worker'.todo # worker.todo /\ worker'.phase # "down"
       => table'[Current] \in TERMINAL_VERIFICATION_STATUSES]_vars

\* An action awaits a verdict whose order cannot be read, and is polled first.
Blocked(i) ==
    \E j \in 1..i : /\ order[Proposed[j]] = "unreadable"
                    /\ table[Proposed[j]] \in VERIFIABLE_STATUSES

\* Every accepted action gets a verdict, whatever fails now and then, unless it
\* or an action before it has an order that cannot be read.
ReadableActionsAreSettled ==
    \A i \in DOMAIN Proposed :
        table[Proposed[i]] \in VERIFIABLE_STATUSES ~>
            (table[Proposed[i]] \in TERMINAL_VERIFICATION_STATUSES \/ Blocked(i))

\* verifier.py:6-8: the worker "retries with bounded exponential backoff until
\* the state is confirmed (verified), contradicts the expectation
\* (state_diverged), or the attempt/time budget is exhausted
\* (verification_failed)".  A read that raises uses up no budget.
AcceptedActionsAreSettled ==
    \A a \in Actions :
        table[a] \in VERIFIABLE_STATUSES ~> table[a] \in TERMINAL_VERIFICATION_STATUSES
=============================================================================
