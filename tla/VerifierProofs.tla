----------------------------- MODULE VerifierProofs -----------------------------
(***************************************************************************)
(* What the worker does for every list of actions, every setting and any   *)
(* length of reads and transactions.                                       *)
(***************************************************************************)
EXTENDS Verifier, WellFoundedInduction, TLAPS

-----------------------------------------------------------------------------
(* The operators.                                                          *)

\* A set of places has a first one.
LEMMA FirstIsInSet ==
    ASSUME NEW S, S \subseteq Nat, S # {}
    PROVE  First(S) \in S
  <1> DEFINE less == {p \in Nat \X Nat : p[1] < p[2]}
  <1>1. IsWellFoundedOn(less, Nat)
    BY NatLessThanWellFounded DEF OpToRel
  <1>2. \A i, j \in Nat : j < i => <<j, i>> \in less
    OBVIOUS
  <1> HIDE DEF less
  <1>3. PICK i \in S : \A j \in S : ~ (<<j, i>> \in less)
    BY <1>1, WFMin
  <1>4. ASSUME NEW j \in S
        PROVE  i <= j
    <2>1. i \in Nat /\ j \in Nat
      OBVIOUS
    <2>2. ~ (j < i)
      BY <1>2, <1>3, <2>1, Zenon
    <2> QED
      BY <2>1, <2>2
  <1> QED
    BY <1>4 DEF First

\* A verdict is a status; the last attempt gives a final one.
LEMMA VerificationVerdict ==
    ASSUME NEW state, NEW is_final
    PROVE  /\ VerificationEvent(state, is_final) \in ActionStatus
           /\ is_final => VerificationEvent(state, is_final)
                              \in TERMINAL_VERIFICATION_STATUSES
           /\ VerificationEvent(state, is_final) # "approved"
  BY DEF VerificationEvent, TERMINAL_VERIFICATION_STATUSES, ActionStatus

LEMMA SettingsAreNumbers ==
    ASSUME settings \in Configurations
    PROVE  /\ settings.timeout \in Nat /\ settings.max_attempts \in Nat
           /\ settings.initial_interval \in Nat /\ settings.max_interval \in Nat
           /\ settings.backoff_factor \in Nat
           /\ Attempts \in Nat /\ Attempts >= 1
  BY VerifierAssumption DEF Settings, Attempts

\* The pause ends at the deadline, or at once when that has passed.
LEMMA PauseEndsInTime ==
    ASSUME settings \in Configurations, NEW interval \in Nat, NEW elapsed \in Nat
    PROVE  /\ Remaining(elapsed) \in Nat
           /\ NextPause(interval, elapsed) \in Nat
           /\ NextPause(interval, elapsed) <= Remaining(elapsed)
           /\ \A n \in Nat : n <= Remaining(elapsed) =>
                  elapsed + n <= settings.timeout \/ elapsed + n = elapsed
  BY SettingsAreNumbers DEF Remaining, NextPause, Least

LEMMA BackoffIsNumber ==
    ASSUME settings \in Configurations, NEW interval \in Nat
    PROVE  Backoff(interval) \in Nat
  <1>1. settings.backoff_factor \in Nat /\ settings.max_interval \in Nat
    BY SettingsAreNumbers
  <1>2. \A m, n \in Nat : m * n \in Nat
    OBVIOUS
  <1>3. interval * settings.backoff_factor \in Nat
    BY <1>1, <1>2
  <1> HIDE <1>2
  <1> DEFINE longer == interval * settings.backoff_factor
  <1>4. longer \in Nat
    BY <1>3
  <1> HIDE DEF longer
  <1>5. Least(longer, settings.max_interval) \in Nat
    BY <1>1, <1>4 DEF Least
  <1> QED
    BY <1>5 DEF Backoff, longer

-----------------------------------------------------------------------------
(* The inductive invariant.  BudgetIsKept is not inductive: that the next   *)
(* attempt is still within the budget follows from what was left when the   *)
(* pause was cut.                                                           *)

Polling == worker.phase \in {"read", "save", "sleep"}

\* Between polling loops the list is empty.
RestsWithoutList == ~Polling => worker.todo = {}

\* Before a read there is an attempt left, and time but for one transaction.
BudgetBeforeRead ==
    worker.phase = "read" =>
        worker.attempt <= Attempts /\ worker.elapsed <= settings.timeout + SaveTicks

\* A read that was not final leaves an attempt and time; a final one a verdict.
BudgetBeforeSave ==
    worker.phase = "save" =>
        /\ worker.attempt <= Attempts
        /\ worker.elapsed <= settings.timeout + SaveTicks + ReadTicks
        /\ ~worker.is_final =>
              worker.attempt < Attempts /\ worker.elapsed < settings.timeout
        /\ worker.is_final => memory[Current] \in TERMINAL_VERIFICATION_STATUSES
        /\ memory[Current] \in ActionStatus

BudgetBeforeSleep ==
    worker.phase = "sleep" =>
        /\ worker.attempt < Attempts
        /\ worker.elapsed <= settings.timeout + SaveTicks
        /\ worker.interval <= Remaining(worker.elapsed)

\* What the worker knows is what is stored, but for the verdict in hand and for
\* an approval that may have become an acceptance.
MemoryFollowsTable ==
    \A a \in Actions :
        \/ memory[a] \in {NoValue, "approved"}
        \/ memory[a] = table[a]
        \/ worker.phase = "save" /\ a = Current

Inv ==
    /\ TypeOK
    /\ RestsWithoutList
    /\ Polling => worker.attempt >= 1
    /\ BudgetBeforeRead /\ BudgetBeforeSave /\ BudgetBeforeSleep
    /\ MemoryFollowsTable

Places == DOMAIN Proposed

WorkerType ==
    [phase : {"idle", "read", "save", "sleep", "down"}, todo : SUBSET Places,
     attempt : Nat, elapsed : Nat, interval : Nat, is_final : BOOLEAN]

LEMMA PlacesAreNumbers == Places \subseteq Nat /\ \A i \in Places : Proposed[i] \in Actions
  BY VerifierAssumption DEF Places, Actions

\* The list of a polling worker is not empty, so it has a current action.
LEMMA CurrentIsAction ==
    ASSUME TypeOK, Polling
    PROVE  First(worker.todo) \in worker.todo /\ Current \in Actions
  <1>1. worker.todo \subseteq Places /\ worker.todo # {}
    BY DEF TypeOK, Polling, Places
  <1> QED
    BY <1>1, FirstIsInSet, PlacesAreNumbers DEF Current

\* The start of a polling loop, or its absence, is in order.
LEMMA PollFirstIsInOrder ==
    ASSUME settings \in Configurations, NEW todo \in SUBSET Places
    PROVE  /\ PollFirst(todo) \in WorkerType
           /\ PollFirst(todo).phase \in {"idle", "read"}
           /\ PollFirst(todo).phase = "idle" => PollFirst(todo).todo = {}
           /\ PollFirst(todo).phase = "read" =>
                 /\ PollFirst(todo).todo # {}
                 /\ PollFirst(todo).attempt = 1 /\ PollFirst(todo).elapsed = 0
  <1>1. CASE todo = {}
    BY <1>1 DEF PollFirst, Idle, WorkerType
  <1>2. CASE todo # {}
    <2>1. PollFirst(todo) =
              [phase |-> "read", todo |-> todo, attempt |-> 1, elapsed |-> 0,
               interval |-> settings.initial_interval, is_final |-> FALSE]
      BY <1>2 DEF PollFirst, Idle
    <2> QED
      BY <1>2, <2>1, SettingsAreNumbers DEF WorkerType
  <1> QED
    BY <1>1, <1>2

-----------------------------------------------------------------------------
(* The actions keep the invariant.                                         *)

\* A step that leaves the settings alone leaves the budget alone.
LEMMA BudgetIsConstant ==
    ASSUME settings' = settings
    PROVE  Attempts' = Attempts /\ \A e : Remaining(e)' = Remaining(e)
  BY DEF Attempts, Remaining

\* What is left to show for a worker that polls nothing.
LEMMA AtRest ==
    ASSUME TypeOK', worker'.phase \in {"idle", "down"}, worker'.todo = {},
           \A a \in Actions : memory'[a] \in {NoValue, "approved"} \/ memory'[a] = table'[a]
    PROVE  Inv'
  BY DEF Inv, Polling, RestsWithoutList, BudgetBeforeRead, BudgetBeforeSave,
         BudgetBeforeSleep, MemoryFollowsTable

\* What is left to show for a worker that is about to read.
LEMMA AboutToRead ==
    ASSUME TypeOK', worker'.phase = "read", worker'.attempt >= 1,
           worker'.attempt <= Attempts', worker'.elapsed <= settings'.timeout + SaveTicks,
           \A a \in Actions : memory'[a] \in {NoValue, "approved"} \/ memory'[a] = table'[a]
    PROVE  Inv'
  BY DEF Inv, Polling, RestsWithoutList, BudgetBeforeRead, BudgetBeforeSave,
         BudgetBeforeSleep, MemoryFollowsTable

\* Both together: the worker starts to poll a list, or is done.
LEMMA StartsPolling ==
    ASSUME TypeOK, settings' = settings, NEW todo \in SUBSET Places,
           worker' = PollFirst(todo), TypeOK',
           \A a \in Actions : memory'[a] \in {NoValue, "approved"} \/ memory'[a] = table'[a]
    PROVE  Inv'
  <1>1. settings \in Configurations
    BY DEF TypeOK
  <1>2. CASE worker'.phase = "idle"
    BY <1>1, <1>2, PollFirstIsInOrder, AtRest
  <1>3. CASE worker'.phase = "read"
    <2>1. worker'.attempt = 1 /\ worker'.elapsed = 0
      BY <1>1, <1>3, PollFirstIsInOrder
    <2>2. Attempts' >= 1 /\ Attempts' \in Nat /\ settings'.timeout + SaveTicks >= 0
      BY <1>1, SettingsAreNumbers, BudgetIsConstant, VerifierAssumption
    <2> QED
      BY <1>3, <2>1, <2>2, AboutToRead
  <1> QED
    BY <1>1, <1>2, <1>3, PollFirstIsInOrder

\* The types of a worker that starts to poll.
LEMMA StartsPollingTypes ==
    ASSUME TypeOK, NEW todo \in SUBSET Places, worker' = PollFirst(todo),
           settings' = settings, order' = order, faults' = faults,
           table' \in [Actions -> ActionStatus],
           memory' \in [Actions -> ActionStatus \cup {NoValue}]
    PROVE  TypeOK'
  <1>1. settings \in Configurations
    BY DEF TypeOK
  <1>2. worker' \in WorkerType /\ (worker'.phase \in {"read", "save", "sleep"} => worker'.todo # {})
    BY <1>1, PollFirstIsInOrder
  <1> QED
    BY <1>1, <1>2 DEF TypeOK, WorkerType, Places

LEMMA SweepKeepsInv ==
    ASSUME Inv, Sweep
    PROVE  Inv'
  <1>1. TypeOK /\ settings' = settings /\ order' = order /\ table' = table
        /\ faults' = faults /\ worker' = PollFirst(Pending(memory')) /\ memory' = Restored
    BY DEF Inv, Sweep
  <1>2. Pending(memory') \in SUBSET Places
    BY DEF Pending, Places
  <1>3. \A a \in Actions : memory[a] \in {NoValue, "approved"} \/ memory[a] = table[a]
    BY DEF Inv, MemoryFollowsTable, Sweep
  <1>4. \A a \in Actions : memory'[a] = table'[a]
    BY <1>1, <1>3 DEF Restored
  <1>5. memory' \in [Actions -> ActionStatus \cup {NoValue}]
    BY <1>1 DEF Restored, TypeOK
  <1>6. TypeOK'
    BY <1>1, <1>2, <1>5, StartsPollingTypes DEF TypeOK
  <1> QED
    BY <1>1, <1>2, <1>4, <1>6, StartsPolling

LEMMA ReadKeepsInv ==
    ASSUME Inv, Read
    PROVE  Inv'
  <1>1. TypeOK /\ Polling /\ settings \in Configurations
    BY DEF Inv, Read, Polling, TypeOK
  <1>2. PICK ticks \in 0..ReadTicks :
            /\ memory' = [memory EXCEPT ![Current] =
                   VerificationEvent([status |-> order[Current]],
                                     IsFinal(worker.attempt, worker.elapsed + ticks))]
            /\ worker' = [worker EXCEPT !.phase = "save", !.elapsed = worker.elapsed + ticks,
                   !.is_final = IsFinal(worker.attempt, worker.elapsed + ticks)]
    BY DEF Read
  <1> DEFINE elapsed == worker.elapsed + ticks
             is_final == IsFinal(worker.attempt, elapsed)
             verdict == VerificationEvent([status |-> order[Current]], is_final)
  <1>3. Current \in Actions /\ worker.todo # {}
    BY <1>1, CurrentIsAction DEF TypeOK, Polling
  <1>4. settings' = settings /\ order' = order /\ table' = table /\ faults' = faults
    BY DEF Read
  <1>5. /\ worker.attempt \in Nat /\ worker.elapsed \in Nat /\ elapsed \in Nat
        /\ elapsed <= worker.elapsed + ReadTicks /\ is_final \in BOOLEAN
    BY <1>1, VerifierAssumption DEF TypeOK, IsFinal
  <1>6. verdict \in ActionStatus /\ (is_final => verdict \in TERMINAL_VERIFICATION_STATUSES)
    BY VerificationVerdict
  <1>7. ~is_final => worker.attempt < Attempts /\ elapsed < settings.timeout
    BY <1>1, <1>5, SettingsAreNumbers DEF IsFinal
  <1>8. /\ worker.attempt >= 1 /\ worker.attempt <= Attempts
        /\ elapsed <= settings.timeout + SaveTicks + ReadTicks
    <2>1. worker.phase = "read" /\ worker.attempt <= Attempts
      BY DEF Read
    <2>2. worker.attempt >= 1 /\ worker.elapsed <= settings.timeout + SaveTicks
      BY <1>1, <2>1 DEF Inv, BudgetBeforeRead, Polling
    <2>3. settings.timeout \in Nat /\ SaveTicks \in Nat /\ ReadTicks \in Nat
      BY <1>1, SettingsAreNumbers, VerifierAssumption
    <2> QED
      BY <1>5, <2>1, <2>2, <2>3
  <1> HIDE DEF elapsed, is_final, verdict
  <1>9. /\ worker' = [worker EXCEPT !.phase = "save", !.elapsed = elapsed, !.is_final = is_final]
        /\ memory' = [memory EXCEPT ![Current] = verdict]
    BY <1>2 DEF elapsed, is_final, verdict
  <1>10. worker \in WorkerType
    BY <1>1 DEF TypeOK, WorkerType, Places
  <1>11. /\ worker' \in WorkerType /\ worker'.phase = "save" /\ worker'.todo = worker.todo
         /\ worker'.attempt = worker.attempt /\ worker'.elapsed = elapsed
         /\ worker'.is_final = is_final
    BY <1>5, <1>9, <1>10 DEF WorkerType
  <1>12. Current' = Current /\ memory'[Current'] = verdict
    BY <1>1, <1>3, <1>9, <1>11 DEF Current, TypeOK
  <1>13. TypeOK'
    BY <1>1, <1>3, <1>4, <1>6, <1>9, <1>11 DEF TypeOK, WorkerType, Places
  <1>14. BudgetBeforeSave'
    BY <1>4, <1>6, <1>7, <1>8, <1>11, <1>12, BudgetIsConstant DEF BudgetBeforeSave
  <1>15. MemoryFollowsTable'
    BY <1>1, <1>3, <1>4, <1>9, <1>11, <1>12 DEF Inv, MemoryFollowsTable, TypeOK, Read
  <1> QED
    BY <1>8, <1>11, <1>13, <1>14, <1>15
       DEF Inv, Polling, RestsWithoutList, BudgetBeforeRead, BudgetBeforeSleep

\* The next attempt is within the budget, since the pause was cut to it.
LEMMA SaveKeepsInv ==
    ASSUME Inv, Save
    PROVE  Inv'
  <1>1. /\ TypeOK /\ Polling /\ settings \in Configurations /\ worker.phase = "save"
        /\ settings' = settings /\ order' = order /\ memory' = memory /\ faults' = faults
        /\ table' = [table EXCEPT ![Current] = memory[Current]]
    BY DEF Inv, Save, Polling, TypeOK
  <1>2. Current \in Actions /\ worker.todo # {} /\ memory[Current] \in ActionStatus
    BY <1>1, CurrentIsAction DEF TypeOK, Inv, BudgetBeforeSave
  <1>3. /\ table' \in [Actions -> ActionStatus]
        /\ \A a \in Actions : memory'[a] \in {NoValue, "approved"} \/ memory'[a] = table'[a]
    BY <1>1, <1>2 DEF Inv, MemoryFollowsTable, TypeOK
  <1>4. CASE memory[Current] \in TERMINAL_VERIFICATION_STATUSES \/ worker.is_final
    <2>1. worker' = PollFirst(Rest)
      BY <1>4 DEF Save
    <2>2. Rest \in SUBSET Places
      BY <1>1 DEF Rest, TypeOK, Places
    <2>3. TypeOK'
      BY <1>1, <1>3, <2>1, <2>2, StartsPollingTypes DEF TypeOK
    <2> QED
      BY <1>1, <1>3, <2>1, <2>2, <2>3, StartsPolling
  <1>5. CASE ~ (memory[Current] \in TERMINAL_VERIFICATION_STATUSES \/ worker.is_final)
    <2>1. PICK ticks \in 0..SaveTicks :
              worker' = [worker EXCEPT !.phase = "sleep",
                             !.elapsed = worker.elapsed + ticks,
                             !.interval = NextPause(worker.interval, worker.elapsed + ticks)]
      BY <1>5 DEF Save
    <2> DEFINE elapsed == worker.elapsed + ticks
               pause == NextPause(worker.interval, elapsed)
    <2>2. /\ worker \in WorkerType /\ worker.interval \in Nat /\ worker.elapsed \in Nat
          /\ elapsed \in Nat /\ elapsed <= worker.elapsed + SaveTicks
      BY <1>1, VerifierAssumption DEF TypeOK, WorkerType, Places
    <2>3. pause \in Nat /\ pause <= Remaining(elapsed)
      BY <1>1, <2>2, PauseEndsInTime
    <2>4. /\ worker.attempt < Attempts /\ worker.attempt >= 1
          /\ worker.elapsed < settings.timeout
      BY <1>1, <1>5 DEF Inv, BudgetBeforeSave, Polling
    <2>5. elapsed <= settings.timeout + SaveTicks
      BY <1>1, <2>2, <2>4, SettingsAreNumbers, VerifierAssumption
    <2>6. worker' = [worker EXCEPT !.phase = "sleep", !.elapsed = elapsed, !.interval = pause]
      BY <2>1
    <2> HIDE DEF elapsed, pause
    <2>7. /\ worker' \in WorkerType /\ worker'.phase = "sleep" /\ worker'.todo = worker.todo
          /\ worker'.attempt = worker.attempt /\ worker'.elapsed = elapsed
          /\ worker'.interval = pause
      BY <2>2, <2>3, <2>6 DEF WorkerType
    <2>8. TypeOK'
      BY <1>1, <1>2, <1>3, <2>7 DEF TypeOK, WorkerType, Places
    <2>9. BudgetBeforeSleep'
      BY <1>1, <2>3, <2>4, <2>5, <2>7, BudgetIsConstant DEF BudgetBeforeSleep
    <2> QED
      BY <1>2, <1>3, <2>4, <2>7, <2>8, <2>9
         DEF Inv, Polling, RestsWithoutList, BudgetBeforeRead, BudgetBeforeSave,
             MemoryFollowsTable
  <1> QED
    BY <1>4, <1>5

LEMMA SleepKeepsInv ==
    ASSUME Inv, Sleep
    PROVE  Inv'
  <1>1. /\ TypeOK /\ settings \in Configurations /\ worker.phase = "sleep"
        /\ settings' = settings /\ order' = order /\ memory' = memory
        /\ faults' = faults /\ table' = table /\ worker.todo # {}
        /\ worker' = [worker EXCEPT !.phase = "read", !.attempt = worker.attempt + 1,
                          !.elapsed = worker.elapsed + worker.interval,
                          !.interval = Backoff(worker.interval)]
    BY DEF Inv, Sleep, TypeOK
  <1>2. /\ worker \in WorkerType /\ worker.interval \in Nat /\ worker.elapsed \in Nat
        /\ worker.attempt \in Nat
    BY <1>1 DEF TypeOK, WorkerType, Places
  <1>3. Backoff(worker.interval) \in Nat
    BY <1>1, <1>2, BackoffIsNumber
  <1>4. /\ worker.attempt < Attempts /\ worker.elapsed <= settings.timeout + SaveTicks
        /\ worker.interval <= Remaining(worker.elapsed)
    BY <1>1 DEF Inv, BudgetBeforeSleep
  <1>5. worker.elapsed + worker.interval <= settings.timeout + SaveTicks
    <2>1. \/ worker.elapsed + worker.interval <= settings.timeout
          \/ worker.elapsed + worker.interval = worker.elapsed
      BY <1>1, <1>2, <1>4, PauseEndsInTime
    <2> QED
      BY <1>1, <1>2, <1>4, <2>1, SettingsAreNumbers, VerifierAssumption
  <1>6. /\ worker' \in WorkerType /\ worker'.phase = "read" /\ worker'.todo = worker.todo
        /\ worker'.attempt = worker.attempt + 1
        /\ worker'.elapsed = worker.elapsed + worker.interval
    <2> DEFINE attempt == worker.attempt + 1
               elapsed == worker.elapsed + worker.interval
               interval == Backoff(worker.interval)
    <2>1. attempt \in Nat /\ elapsed \in Nat /\ interval \in Nat
      BY <1>2, <1>3
    <2>2. worker' = [worker EXCEPT !.phase = "read", !.attempt = attempt,
                                   !.elapsed = elapsed, !.interval = interval]
      BY <1>1
    <2> HIDE DEF attempt, elapsed, interval
    <2>3. /\ worker' \in WorkerType /\ worker'.phase = "read"
          /\ worker'.todo = worker.todo
          /\ worker'.attempt = attempt /\ worker'.elapsed = elapsed
      BY <1>2, <2>1, <2>2 DEF WorkerType
    <2> QED
      BY <2>3 DEF attempt, elapsed
  <1>7. TypeOK'
    BY <1>1, <1>6 DEF TypeOK, WorkerType, Places
  <1>8. worker'.attempt >= 1 /\ worker'.attempt <= Attempts'
    BY <1>1, <1>2, <1>4, <1>6, SettingsAreNumbers, BudgetIsConstant
  <1>9. \A a \in Actions : memory'[a] \in {NoValue, "approved"} \/ memory'[a] = table'[a]
    BY <1>1 DEF Inv, MemoryFollowsTable
  <1> QED
    BY <1>1, <1>5, <1>6, <1>7, <1>8, <1>9, AboutToRead

\* Without a process nothing is polled and nothing known.
LEMMA EndKeepsInv ==
    ASSUME Inv, ProcessEnds, settings' = settings, order' = order, table' = table,
           faults' \in 0..MaxFaults
    PROVE  Inv'
  <1>1. /\ worker'.phase = "down" /\ worker'.todo = {} /\ worker' \in WorkerType
        /\ memory' = Forgotten
    BY DEF ProcessEnds, Idle, WorkerType
  <1>2. TypeOK'
    BY <1>1 DEF Inv, TypeOK, WorkerType, Places, Forgotten
  <1>3. \A a \in Actions : memory'[a] = NoValue
    BY <1>1 DEF Forgotten
  <1> QED
    BY <1>1, <1>2, <1>3, AtRest

LEMMA RestartKeepsInv ==
    ASSUME Inv, Restart
    PROVE  Inv'
  <1>1. worker'.phase = "idle" /\ worker'.todo = {} /\ worker' \in WorkerType
    BY DEF Restart, Idle, WorkerType
  <1>2. TypeOK'
    BY <1>1 DEF Inv, TypeOK, Restart, WorkerType, Places
  <1>3. \A a \in Actions : memory'[a] \in {NoValue, "approved"} \/ memory'[a] = table'[a]
    BY DEF Inv, MemoryFollowsTable, Restart
  <1> QED
    BY <1>1, <1>2, <1>3, AtRest

\* The API changes nothing the worker decides by: what it accepts was approved.
LEMMA OthersKeepInv ==
    ASSUME Inv, NEW a \in Actions, Accept(a) \/ Apply(a) \/ BecomeUnreadable(a)
    PROVE  Inv'
  <1>1. /\ settings' = settings /\ memory' = memory /\ worker' = worker /\ faults' = faults
        /\ \A b \in Actions : table'[b] = table[b] \/ (table[b] = "approved" /\ b = a)
    BY DEF Accept, Apply, BecomeUnreadable, Inv, TypeOK
  <1>2. TypeOK'
    BY <1>1 DEF Inv, TypeOK, Accept, Apply, BecomeUnreadable, ActionStatus
  <1>3. Current' = Current
    BY <1>1 DEF Current
  <1>4. MemoryFollowsTable'
    BY <1>1, <1>3 DEF Inv, MemoryFollowsTable
  <1>5. BudgetBeforeRead' /\ BudgetBeforeSave' /\ BudgetBeforeSleep'
    BY <1>1, <1>3, BudgetIsConstant
       DEF Inv, BudgetBeforeRead, BudgetBeforeSave, BudgetBeforeSleep
  <1> QED
    BY <1>1, <1>2, <1>4, <1>5 DEF Inv, Polling, RestsWithoutList

LEMMA InitHasInv ==
    ASSUME Init
    PROVE  Inv
  <1>1. worker.phase = "idle" /\ worker.todo = {} /\ worker \in WorkerType
    BY DEF Init, Idle, WorkerType
  <1>2. TypeOK
    BY <1>1, VerifierAssumption DEF Init, TypeOK, WorkerType, Places, Forgotten, ActionStatus
  <1>3. \A a \in Actions : memory[a] = NoValue
    BY DEF Init, Forgotten
  <1> QED
    BY <1>1, <1>2, <1>3 DEF Inv, Polling, RestsWithoutList, BudgetBeforeRead,
       BudgetBeforeSave, BudgetBeforeSleep, MemoryFollowsTable

LEMMA NextKeepsInv ==
    ASSUME Inv, [Next]_vars
    PROVE  Inv'
  <1>1. CASE Sweep
    BY <1>1, SweepKeepsInv
  <1>2. CASE Read
    BY <1>2, ReadKeepsInv
  <1>3. CASE ReadRaises
    BY <1>3, EndKeepsInv DEF ReadRaises, Inv, TypeOK
  <1>4. CASE Save
    BY <1>4, SaveKeepsInv
  <1>5. CASE Sleep
    BY <1>5, SleepKeepsInv
  <1>6. CASE Restart
    BY <1>6, RestartKeepsInv
  <1>7. CASE Fault
    <2>1. faults' \in 0..MaxFaults
      BY <1>7, VerifierAssumption DEF Fault, Inv, TypeOK
    <2> QED
      BY <1>7, <2>1, EndKeepsInv DEF Fault
  <1>8. CASE \E a \in Actions : Accept(a) \/ Apply(a) \/ BecomeUnreadable(a)
    BY <1>8, OthersKeepInv
  <1>9. CASE UNCHANGED vars
    <2>1. /\ settings' = settings /\ order' = order /\ table' = table
          /\ memory' = memory /\ worker' = worker /\ faults' = faults
      BY <1>9 DEF vars
    <2>2. Current' = Current
      BY <2>1 DEF Current
    <2> QED
      BY <2>1, <2>2, BudgetIsConstant DEF Inv, TypeOK, Polling, RestsWithoutList,
         BudgetBeforeRead, BudgetBeforeSave, BudgetBeforeSleep, MemoryFollowsTable
  <1> QED
    BY <1>1, <1>2, <1>3, <1>4, <1>5, <1>6, <1>7, <1>8, <1>9 DEF Next, WorkerStep

\* The inductive invariant holds of every state the worker reaches.
THEOREM InvHolds == Spec => []Inv
  <1>1. Init => Inv
    BY InitHasInv
  <1>2. Inv /\ [Next]_vars => Inv'
    BY NextKeepsInv
  <1> QED
    BY <1>1, <1>2, PTL DEF Spec

-----------------------------------------------------------------------------
(* The properties.                                                         *)

\* Every variable keeps its type (the fields of VerifierConfig, the statuses of
\* ActionStatus, the loops of verify_action and run_once).
THEOREM TypeCorrect == Spec => []TypeOK
  <1>1. Inv => TypeOK
    BY DEF Inv
  <1> QED
    BY <1>1, InvHolds, PTL

\* verify_action holds up a sweep for no longer than the timeout, one read and
\* one transaction, and reads no more often than max_attempts, for all settings.
THEOREM BudgetHolds == Spec => []BudgetIsKept
  <1>1. Inv => BudgetIsKept
    <2> SUFFICES ASSUME Inv, Polling
                 PROVE  /\ worker.attempt \in 1..Attempts
                        /\ worker.elapsed <= settings.timeout + SaveTicks + ReadTicks
      BY DEF BudgetIsKept, Polling
    <2>1. /\ settings \in Configurations /\ worker.attempt \in Nat
          /\ worker.elapsed \in Nat /\ worker.attempt >= 1
      BY DEF Inv, TypeOK
    <2>2. settings.timeout \in Nat /\ Attempts \in Nat /\ SaveTicks \in Nat /\ ReadTicks \in Nat
      BY <2>1, SettingsAreNumbers, VerifierAssumption
    <2>3. worker.attempt <= Attempts
      BY <2>1, <2>2 DEF Inv, Polling, BudgetBeforeRead, BudgetBeforeSave, BudgetBeforeSleep
    <2>4. \/ worker.elapsed <= settings.timeout + SaveTicks
          \/ worker.elapsed <= settings.timeout + SaveTicks + ReadTicks
      BY DEF Inv, Polling, BudgetBeforeRead, BudgetBeforeSave, BudgetBeforeSleep
    <2> QED
      BY <2>1, <2>2, <2>3, <2>4
  <1> QED
    BY <1>1, InvHolds, PTL

\* A verdict in the worker's memory is stored, or is the one being stored, so
\* that no later sweep passes over an action without a stored verdict
\* (_persist_events before anything else).
THEOREM VerdictsHold == Spec => []VerdictsAreStored
  <1>1. Inv => VerdictsAreStored
    <2>1. \A s \in TERMINAL_VERIFICATION_STATUSES : s # "approved" /\ s # NoValue
      BY VerifierAssumption DEF TERMINAL_VERIFICATION_STATUSES, ActionStatus
    <2> QED
      BY <2>1 DEF Inv, MemoryFollowsTable, VerdictsAreStored
  <1> QED
    BY <1>1, InvHolds, PTL

\* However the budget runs out, the worker leaves an action only with a stored
\* verdict or with its process (the final attempt of verify_action).
THEOREM PollingHolds == Spec => PollingEndsInVerdict
  <1> DEFINE Left == /\ worker.todo # {} /\ worker'.todo # worker.todo
                     /\ worker'.phase # "down"
             Verdict == table'[Current] \in TERMINAL_VERIFICATION_STATUSES
  <1>1. ASSUME Inv, [Next]_vars, Left
        PROVE  Verdict
    <2>1. TypeOK /\ worker \in WorkerType
      BY <1>1 DEF Inv, TypeOK, WorkerType, Places
    <2>2. Polling
      BY <1>1 DEF Inv, RestsWithoutList
    <2>3. Save
      <3>1. worker.phase # "idle" /\ worker.phase # "down"
        BY <2>2 DEF Polling
      <3>2. ~Read /\ ~Sleep
        BY <1>1, <2>1 DEF Read, Sleep, WorkerType
      <3>3. ~Sweep /\ ~Restart
        BY <3>1 DEF Sweep, Restart
      <3>4. ~ReadRaises /\ ~Fault
        BY <1>1 DEF ReadRaises, Fault, ProcessEnds, Idle
      <3>5. ~UNCHANGED vars /\ \A a \in Actions : ~Accept(a) /\ ~Apply(a) /\ ~BecomeUnreadable(a)
        BY <1>1 DEF vars, Accept, Apply, BecomeUnreadable
      <3> QED
        BY <1>1, <3>2, <3>3, <3>4, <3>5 DEF Next, WorkerStep
    <2>4. memory[Current] \in TERMINAL_VERIFICATION_STATUSES
      <3>1. CASE worker.is_final
        BY <1>1, <2>3, <3>1 DEF Inv, BudgetBeforeSave, Save
      <3>2. CASE ~ (memory[Current] \in TERMINAL_VERIFICATION_STATUSES \/ worker.is_final)
        BY <1>1, <2>1, <2>3, <3>2 DEF Save, WorkerType
      <3> QED
        BY <3>1, <3>2
    <2>5. Current \in Actions
      BY <2>1, <2>2, CurrentIsAction
    <2> QED
      BY <2>1, <2>3, <2>4, <2>5 DEF Save, TypeOK
  <1>2. Inv /\ [Next]_vars => [Left => Verdict]_vars
    BY <1>1
  <1> QED
    BY <1>2, InvHolds, PTL DEF Spec, PollingEndsInVerdict
=============================================================================
