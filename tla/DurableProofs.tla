------------------------------ MODULE DurableProofs ------------------------------
(***************************************************************************)
(* What holds of the stored log and of the memories beside it, for every   *)
(* deployment, whatever crashes or fails.                                  *)
(***************************************************************************)
EXTENDS DurableActions, FiniteSetTheorems, SequenceTheorems,
        WellFoundedInduction, TLAPS

-----------------------------------------------------------------------------
(* The inductive invariant.  None of the properties is inductive: that a   *)
(* row's cause is inserted before it follows from the order of the log it  *)
(* is copied from, and that order from what the status of an action says   *)
(* of its log.                                                             *)

Rows == ElementsOf(table)
Everything == Rows \cup UNION {KnownBy(mem[p]) : p \in Processes}

VerificationTypes == TERMINAL_VERIFICATION_STATUSES \cup {"verification_pending"}
RefusalTypes == {"rejected", "approval_denied"}
LaterTypes == VerificationTypes \cup RefusalTypes
    \cup {"precondition_failed", "approved", "provider_accepted"}

IsPolicy(e) == e.type = "policy_evaluated"

\* The type of an event settles its status, but for the policy's decision.
WellFormed(e) ==
    \/ /\ IsPolicy(e)
       /\ e.status \in {"approval_required", "denied"}
       /\ e.stage = "lifecycle"
    \/ /\ e.type \in LaterTypes
       /\ e.status = StatusAfter(e.type)
       /\ e.stage = "execution" => e.type = "precondition_failed"

\* Two events of one action agree on its key; an action is evaluated once.
Agree(e, f) ==
    /\ e.id = f.id => e = f
    /\ e.action = f.action => e.key = f.key
    /\ e.action = f.action /\ IsPolicy(e) /\ IsPolicy(f) => e = f

EventsAgree ==
    /\ \A e \in Everything : WellFormed(e)
    /\ \A e, f \in Everything : Agree(e, f)

\* S holds an event of the action a with this type and status.
Cause(S, a, type, status) ==
    \E f \in S : f.action = a /\ f.type = type /\ f.status = status

\* S holds what an event of this type rests on.
HasCauses(S, a, type) ==
    /\ type \in VerificationTypes =>
          Cause(S, a, "provider_accepted", "provider_accepted")
    /\ type = "provider_accepted" => Cause(S, a, "approved", "approved")
    /\ type \in {"approved"} \cup RefusalTypes =>
          Cause(S, a, "policy_evaluated", "approval_required")

\* S holds what must come before e.
Supported(e, S) ==
    /\ \/ e.prev = NoValue /\ IsPolicy(e)
       \/ \E f \in S : f.id = e.prev /\ f.action = e.action
    /\ IsPolicy(e) \/ \E f \in S : f.action = e.action /\ IsPolicy(f)
    /\ HasCauses(S, e.action, e.type)

Before(s, n) == {s[i] : i \in 1..(n - 1)}

RowsAreSupported == \A n \in DOMAIN table : Supported(table[n], Before(table, n))

\* What is in a log is a row already, or is preceded by what it rests on.
LogIsSupported(log, rows) ==
    \A n \in DOMAIN log : log[n] \in rows \/ Supported(log[n], rows \cup Before(log, n))

LogsAreSupported ==
    \A p \in Processes, a \in ActionIds : LogIsSupported(mem[p].log[a], Rows)

Distinct(s) == \A i, j \in DOMAIN s : s[i].id = s[j].id => i = j

\* What status, keys and receipts say of the log of an action.
LogFits(m, a) ==
    /\ \A i \in DOMAIN m.log[a] : m.log[a][i].action = a
    /\ Distinct(m.log[a])
    /\ m.log[a] = <<>> <=> m.status[a] = NoValue
    /\ m.log[a] # <<>> =>
          /\ IsPolicy(m.log[a][1])
          /\ \E i \in DOMAIN m.log[a] : m.log[a][i].status = m.status[a]
    /\ m.status[a] = "approval_required" =>
          \A i \in DOMAIN m.log[a] :
              IsPolicy(m.log[a][i]) \/ m.log[a][i].stage = "execution"
    /\ \A i \in DOMAIN m.log[a] :
          /\ m.log[a][i].type = "provider_accepted" => m.log[a][i].key \in m.receipts
          /\ IsPolicy(m.log[a][i]) => m.keys[m.log[a][i].key] # NoValue

MemoriesFit == \A p \in Processes, a \in ActionIds : LogFits(mem[p], a)

\* A thread that calls or saves has an action, and what it calls for is approved.
ThreadsFit ==
    \A th \in Threads :
        /\ thread[th].phase \in {"calling", "saving"} => thread[th].action \in ActionIds
        /\ thread[th].phase = "calling" =>
              \E e \in KnownBy(MemoryOf(th)) :
                  /\ e.action = thread[th].action
                  /\ e.type = "approved"

Types ==
    /\ table \in Seq(Event)
    /\ mem \in [Processes -> Memory]
    /\ thread \in [Threads -> [phase : {"idle", "ready", "calling", "saving"},
                               action : ActionIds \cup {NoValue},
                               todo : SUBSET DOMAIN table, upto : 0..Len(table)]]
    /\ effects \in [Keys -> Nat]

\* What the table and the memories are said to hold.
Stored ==
    /\ table \in Seq(Event)
    /\ mem \in [Processes -> Memory]
    /\ Distinct(table)
    /\ EventsAgree
    /\ RowsAreSupported
    /\ MemoriesFit
    /\ LogsAreSupported

Inv == Types /\ Stored /\ ThreadsFit

-----------------------------------------------------------------------------
(* Rows that arrive in order are never dropped.                            *)

Knows(th, i) == table[i].id \in IdsOf(MemoryOf(th))

RowsAreRestored ==
    \A th \in Threads : thread[th].phase = "ready" =>
        \A i \in 1..thread[th].upto : i \in thread[th].todo \/ Knows(th, i)

OrderInv == Inv /\ RowsAreRestored /\ AcceptanceIsHonoured

-----------------------------------------------------------------------------
(* One API process: it alone writes anything but verdicts.                 *)

ApiProcess == CHOOSE p \in Processes : \A th \in ApiThreads : ProcessOf[th] = p

OneApiProcess == \E p \in Processes : \A th \in ApiThreads : ProcessOf[th] = p

ApiKnowsDecisions ==
    \A th \in ApiThreads : thread[th].phase = "ready" =>
        \A i \in DOMAIN table :
            i \in thread[th].todo \/ Knows(th, i) \/ table[i].type \in VerificationTypes

OnlyApiCalls ==
    \A th \in Threads : thread[th].phase = "calling" => th \in ApiThreads

OthersOnlyVerify ==
    \A p \in Processes \ {ApiProcess} : \A e \in KnownBy(mem[p]) :
        e \in Rows \/ e.type \in VerificationTypes

Decided == Rows \cup KnownBy(mem[ApiProcess])

\* An action is not refused and approved; a key has one action.
Compatible(e, f) ==
    /\ e.action = f.action /\ e.type \in RefusalTypes => f.type # "approved"
    /\ e.key = f.key => e.action = f.action

DecisionsAreCompatible == \A e, f \in Decided : Compatible(e, f)

OneApiInv ==
    /\ OrderInv
    /\ ApiKnowsDecisions
    /\ OnlyApiCalls
    /\ OthersOnlyVerify
    /\ DecisionsAreCompatible

-----------------------------------------------------------------------------
(* One request at a time, and one process that verifies: the events of an  *)
(* action come in the order of its lifecycle, in the table and in every    *)
(* memory.                                                                 *)

\* How far an event takes its action.
Rank(e) ==
    IF IsPolicy(e) THEN 0
    ELSE IF e.type = "provider_accepted" THEN 2
    ELSE IF e.type = "verification_pending" THEN 3
    ELSE IF e.type \in TERMINAL_VERIFICATION_STATUSES THEN 4
    ELSE 1

Follows(f, e) == e.action = f.action => Rank(e) <= Rank(f)

OneRequest == \A t1, t2 \in ApiThreads : t1 = t2

VerifyingProcess == CHOOSE p \in Processes : \A th \in Verifiers : ProcessOf[th] = p

OneVerifyingProcess == \E p \in Processes : \A th \in Verifiers : ProcessOf[th] = p

\* An action is decided once, accepted once and settled once.
Single(e, f) ==
    /\ e.action = f.action /\ Rank(e) = Rank(f)
    /\ \/ Rank(e) \in {2, 4}
       \/ Rank(e) = 1 /\ e.stage = "lifecycle" /\ f.stage = "lifecycle"
    => e = f

StepsAreSingle == \A e, f \in Everything : Single(e, f)

Sorted(s) == \A i, j \in DOMAIN s : i < j => Follows(s[j], s[i])

\* The status is that of the last event, but for refused executions.
Current(m, a) ==
    m.log[a] # <<>> =>
        \E n \in DOMAIN m.log[a] :
            /\ m.status[a] = m.log[a][n].status
            /\ \A k \in DOMAIN m.log[a] : n < k => m.log[a][k].stage = "execution"

LogsAreSorted ==
    \A p \in Processes, a \in ActionIds : Sorted(mem[p].log[a]) /\ Current(mem[p], a)

\* What a process has not saved follows the rows, and they what it knows.
UnsavedFollow ==
    \A p \in Processes : \A e \in KnownBy(mem[p]) \ Rows : \A f \in Rows : Follows(e, f)

UnknownFollow ==
    \A p \in Processes : \A e \in KnownBy(mem[p]) : \A f \in Rows \ KnownBy(mem[p]) : Follows(f, e)

VerifierKnowsVerdicts ==
    \A th \in Verifiers : thread[th].phase # "idle" =>
        \A i \in DOMAIN table :
            i \in thread[th].todo \/ Knows(th, i) \/ table[i].type \notin VerificationTypes

OthersDoNotVerify ==
    \A p \in Processes \ {VerifyingProcess} : \A e \in KnownBy(mem[p]) :
        e \in Rows \/ e.type \notin VerificationTypes

\* A call is made for an action that nobody knows as accepted.
CallIsFirst ==
    \A th \in Threads : thread[th].phase = "calling" =>
        /\ \A e \in Everything :
              e.action = thread[th].action => e.type # "provider_accepted"
        /\ \A e \in Rows : e.action = thread[th].action => e \in KnownBy(MemoryOf(th))

\* What is still to be restored was fetched.
TodoIsFetched ==
    \A th \in Threads : \A i \in thread[th].todo :
        thread[th].phase = "ready" /\ i \in 1..thread[th].upto

EventsInOrder ==
    /\ StepsAreSingle
    /\ Sorted(table)
    /\ LogsAreSorted
    /\ UnsavedFollow
    /\ UnknownFollow

SerialInv ==
    /\ OneApiInv
    /\ TodoIsFetched
    /\ EventsInOrder
    /\ VerifierKnowsVerdicts
    /\ OthersDoNotVerify
    /\ CallIsFirst

-----------------------------------------------------------------------------
(* The operators.                                                          *)

\* A set of numbers has a least one.
LEMMA LeastExists ==
    ASSUME NEW S, S \subseteq Nat, S # {}
    PROVE  \E i \in S : \A j \in S : i <= j
  <1> DEFINE less == {p \in Nat \X Nat : p[1] < p[2]}
  <1>1. IsWellFoundedOn(less, Nat)
    BY NatLessThanWellFounded DEF OpToRel
  <1>2. \A i, j \in Nat : j < i => <<j, i>> \in less
    OBVIOUS
  <1> HIDE DEF less
  <1>3. PICK i \in S : \A j \in S : ~ (<<j, i>> \in less)
    BY <1>1, WFMin
  <1>4. ASSUME NEW j \in S
        PROVE  i <= j
    <2>1. i \in Nat /\ j \in Nat
      OBVIOUS
    <2>2. ~ (j < i)
      BY <1>2, <1>3, <2>1, Zenon
    <2> QED
      BY <2>1, <2>2
  <1> QED
    BY <1>4

\* A minted identifier is one that no row and no memory has.
LEMMA FreshIdIsFresh ==
    ASSUME Types, UsedIds # EventIds
    PROVE  FreshId \in EventIds /\ \A e \in Everything : e.id # FreshId
  <1>1. \A e \in Everything : e \in Event
    BY ElementOfSeq, LenProperties
    DEF Types, Everything, Rows, ElementsOf, KnownBy, Memory
  <1>2. \A e \in Everything : e.id \in UsedIds
    BY DEF Everything, Rows, UsedIds, RowIds, IdsOf
  <1>3. \A i \in UsedIds : \E e \in Everything : e.id = i
    BY DEF Everything, Rows, UsedIds, RowIds, IdsOf
  <1>4. UsedIds \subseteq EventIds
    BY <1>1, <1>3 DEF Event
  <1>5. EventIds \ UsedIds # {}
    <2>1. \E i \in EventIds : i \notin UsedIds
      BY <1>4, Zenon
    <2> QED
      BY <2>1
  <1>6. EventIds \ UsedIds \subseteq Nat
    BY BoundsAssumption DEF EventIds
  <1>7. FreshId \in EventIds \ UsedIds
    BY <1>5, <1>6, LeastExists DEF FreshId
  <1> QED
    BY <1>2, <1>7

\* An absent value is neither an action nor a status.
LEMMA AbsentIsNone == NoValue \notin ActionIds /\ NoValue \notin ActionStatus
  BY ThreadsAssumption

\* A status follows from a well-formed event's type.
LEMMA StatusOfEvent ==
    ASSUME NEW e, WellFormed(e)
    PROVE  /\ e.status = "approval_required" => IsPolicy(e)
           /\ e.status = "approved" => e.type = "approved"
           /\ e.type = "approved" => e.status = "approved"
           /\ e.status = "provider_accepted" => e.type = "provider_accepted"
           /\ e.type = "provider_accepted" => e.status = "provider_accepted"
           /\ e.status = "verification_pending" => e.type = "verification_pending"
  BY DEF WellFormed, IsPolicy, StatusAfter, LaterTypes, VerificationTypes,
         RefusalTypes, TERMINAL_VERIFICATION_STATUSES

\* What appending one event does to a log.
LEMMA AppendFacts ==
    ASSUME NEW S, NEW s \in Seq(S), NEW e \in S, NEW t, t = Append(s, e)
    PROVE  /\ t \in Seq(S)
           /\ Len(s) \in Nat /\ DOMAIN s = 1..Len(s)
           /\ DOMAIN t = 1..(Len(s) + 1)
           /\ t # <<>> /\ t[Len(s) + 1] = e
           /\ \A i \in DOMAIN s : i \in DOMAIN t /\ t[i] = s[i]
           /\ \A i \in DOMAIN t : i \in DOMAIN s \/ i = Len(s) + 1
  OBVIOUS

LEMMA AppendElements ==
    ASSUME NEW S, NEW s \in Seq(S), NEW e \in S
    PROVE  ElementsOf(Append(s, e)) = ElementsOf(s) \cup {e}
  <1> DEFINE t == Append(s, e)
  <1>1. /\ DOMAIN t = 1..(Len(s) + 1) /\ Len(s) \in Nat
        /\ t[Len(s) + 1] = e
        /\ \A i \in DOMAIN s : i \in DOMAIN t /\ t[i] = s[i]
        /\ \A i \in DOMAIN t : i \in DOMAIN s \/ i = Len(s) + 1
    BY AppendFacts
  <1> HIDE DEF t
  <1>2. ASSUME NEW x \in ElementsOf(t)
        PROVE  x \in ElementsOf(s) \cup {e}
    BY <1>1, <1>2 DEF ElementsOf
  <1>3. ASSUME NEW x \in ElementsOf(s) \cup {e}
        PROVE  x \in ElementsOf(t)
    <2>1. Len(s) + 1 \in DOMAIN t
      BY <1>1
    <2> QED
      BY <1>1, <1>3, <2>1 DEF ElementsOf
  <1> QED
    BY <1>2, <1>3 DEF t

LEMMA KnownMeansLogged ==
    ASSUME NEW m, NEW e
    PROVE  e \in KnownBy(m) <=>
               \E a \in ActionIds : \E i \in DOMAIN m.log[a] : m.log[a][i] = e
  BY DEF KnownBy, ElementsOf

\* A memory that logs an event is a memory; only the log of the event's action
\* grows, by the event, and the memory knows one event more.
LEMMA LoggedFields ==
    ASSUME NEW m \in Memory, NEW e \in Event
    PROVE  LET r == Logged(m, e) IN
           /\ r \in Memory
           /\ r.log[e.action] = Append(m.log[e.action], e)
           /\ \A a \in ActionIds \ {e.action} : r.log[a] = m.log[a]
           /\ r.status = m.status /\ r.keys = m.keys /\ r.receipts = m.receipts
  <1>1. e.action \in ActionIds /\ m.log \in [ActionIds -> Seq(Event)]
    BY DEF Memory, Event
  <1>2. Append(m.log[e.action], e) \in Seq(Event)
    BY <1>1, AppendFacts
  <1> QED
    BY <1>1, <1>2 DEF Logged, Memory

LEMMA RecordedFields ==
    ASSUME NEW m \in Memory, NEW e \in Event
    PROVE  LET r == Recorded(m, e) IN
           /\ r \in Memory
           /\ r.log[e.action] = Append(m.log[e.action], e)
           /\ \A a \in ActionIds \ {e.action} : r.log[a] = m.log[a]
           /\ r.status[e.action] = e.status
           /\ \A a \in ActionIds \ {e.action} : r.status[a] = m.status[a]
           /\ \A k \in Keys : r.keys[k] = m.keys[k] \/ r.keys[k] = e.action
           /\ IsPolicy(e) => r.keys[e.key] = e.action
           /\ m.receipts \subseteq r.receipts
           /\ e.type = "provider_accepted" => e.key \in r.receipts
  <1> DEFINE l == Logged(m, e)
  <1>1. /\ l \in Memory
        /\ l.log[e.action] = Append(m.log[e.action], e)
        /\ \A a \in ActionIds \ {e.action} : l.log[a] = m.log[a]
        /\ l.status = m.status /\ l.keys = m.keys /\ l.receipts = m.receipts
    BY LoggedFields
  <1>2. Recorded(m, e) =
            [l EXCEPT
                !.status[e.action] = e.status,
                !.keys[e.key] = IF e.type = "policy_evaluated" THEN e.action ELSE @,
                !.receipts = IF e.type = "provider_accepted" THEN @ \cup {e.key} ELSE @]
    BY DEF Recorded
  <1>3. e.action \in ActionIds /\ e.key \in Keys /\ e.status \in ActionStatus
    BY DEF Event
  <1>4. /\ l.status \in [ActionIds -> ActionStatus \cup {NoValue}]
        /\ l.keys \in [Keys -> ActionIds \cup {NoValue}]
        /\ l.receipts \in SUBSET Keys
    BY <1>1 DEF Memory
  <1> DEFINE r == Recorded(m, e)
  <1> HIDE DEF l
  <1>5. /\ r.log = l.log
        /\ r.status = [l.status EXCEPT ![e.action] = e.status]
        /\ r.keys = [l.keys EXCEPT ![e.key] =
                        IF e.type = "policy_evaluated" THEN e.action ELSE @]
        /\ r.receipts = IF e.type = "provider_accepted"
                        THEN l.receipts \cup {e.key} ELSE l.receipts
    BY <1>1, <1>2 DEF Memory
  <1>6. r \in Memory
    <2>1. r = [log |-> r.log, status |-> r.status,
               keys |-> r.keys, receipts |-> r.receipts]
      BY <1>1, <1>2 DEF Memory
    <2> HIDE DEF r
    <2>2. r.status \in [ActionIds -> ActionStatus \cup {NoValue}]
      BY <1>3, <1>4, <1>5
    <2>3. r.keys \in [Keys -> ActionIds \cup {NoValue}]
      BY <1>3, <1>4, <1>5
    <2>4. r.receipts \in SUBSET Keys
      BY <1>3, <1>4, <1>5
    <2>5. r.log \in [ActionIds -> Seq(Event)]
      BY <1>1, <1>5 DEF Memory
    <2> QED
      BY <2>1, <2>2, <2>3, <2>4, <2>5 DEF Memory
  <1> HIDE DEF r
  <1>7. r.log[e.action] = Append(m.log[e.action], e)
        /\ \A a \in ActionIds \ {e.action} : r.log[a] = m.log[a]
    BY <1>1, <1>5
  <1>8. r.status[e.action] = e.status
        /\ \A a \in ActionIds \ {e.action} : r.status[a] = m.status[a]
    BY <1>1, <1>3, <1>4, <1>5
  <1>9. /\ \A k \in Keys : r.keys[k] = m.keys[k] \/ r.keys[k] = e.action
        /\ IsPolicy(e) => r.keys[e.key] = e.action
    BY <1>1, <1>3, <1>4, <1>5 DEF IsPolicy
  <1>10. /\ m.receipts \subseteq r.receipts
         /\ e.type = "provider_accepted" => e.key \in r.receipts
    BY <1>1, <1>5
  <1> QED
    BY <1>6, <1>7, <1>8, <1>9, <1>10 DEF r

\* What a memory knows after its log of an action has grown.
LEMMA KnownGrows ==
    ASSUME NEW m \in Memory, NEW r \in Memory, NEW e \in Event,
           r.log[e.action] = Append(m.log[e.action], e),
           \A a \in ActionIds \ {e.action} : r.log[a] = m.log[a]
    PROVE  KnownBy(r) = KnownBy(m) \cup {e}
  <1>1. e.action \in ActionIds /\ m.log[e.action] \in Seq(Event)
    BY DEF Memory, Event
  <1>2. ElementsOf(r.log[e.action]) = ElementsOf(m.log[e.action]) \cup {e}
    BY <1>1, AppendElements
  <1>3. ASSUME NEW x
        PROVE  x \in KnownBy(r) <=> x \in KnownBy(m) \cup {e}
    BY <1>1, <1>2 DEF KnownBy
  <1> QED
    BY <1>3

\* A new event at the end of a log that fits: the log still fits.
LEMMA AppendedLogFits ==
    ASSUME NEW m \in Memory, NEW r \in Memory, NEW e \in Event,
           LET a == e.action IN
           /\ LogFits(m, a)
           /\ r.log[a] = Append(m.log[a], e)
           /\ \/ r.status[a] = e.status
              \/ r.status[a] = m.status[a] /\ e.stage = "execution"
           /\ e.id \notin IdsOf(m)
           /\ WellFormed(e)
           /\ IsPolicy(e) <=> m.log[a] = <<>>
           /\ \A k \in Keys : m.keys[k] # NoValue => r.keys[k] # NoValue
           /\ IsPolicy(e) => r.keys[e.key] # NoValue
           /\ m.receipts \subseteq r.receipts
           /\ e.type = "provider_accepted" => e.key \in r.receipts
    PROVE  LogFits(r, e.action)
  <1> DEFINE a == e.action
  <1> DEFINE s == m.log[a]
  <1> DEFINE t == r.log[a]
  <1>1. /\ a \in ActionIds /\ e.status \in ActionStatus /\ e.key \in Keys
        /\ s \in Seq(Event) /\ t = Append(s, e)
    BY DEF Memory, Event
  <1>2. /\ DOMAIN s = 1..Len(s) /\ Len(s) \in Nat
        /\ DOMAIN t = 1..(Len(s) + 1)
        /\ t # <<>> /\ t[Len(s) + 1] = e
        /\ \A i \in DOMAIN s : i \in DOMAIN t /\ t[i] = s[i] /\ s[i] \in Event
        /\ \A i \in DOMAIN t : i \in DOMAIN s \/ i = Len(s) + 1
    <2> HIDE DEF s, t, a
    <2>1. e \in Event
      OBVIOUS
    <2>2. \A i \in DOMAIN s : s[i] \in Event
      BY <1>1, ElementOfSeq, LenProperties, Zenon
    <2> QED
      BY <1>1, <2>1, <2>2, AppendFacts
  <1>3. s = <<>> <=> Len(s) = 0
    BY <1>1
  <1>4. r.status[a] # NoValue
    <2>1. e.status # NoValue
      BY <1>1, AbsentIsNone
    <2>2. CASE r.status[a] = e.status
      BY <2>1, <2>2
    <2>3. CASE r.status[a] = m.status[a] /\ e.stage = "execution"
      <3>1. ~IsPolicy(e)
        BY <2>3 DEF WellFormed, IsPolicy
      <3> QED
        BY <2>3, <3>1 DEF LogFits
    <2> QED
      BY <2>2, <2>3
  <1>5. \A i \in DOMAIN s : s[i].id \in IdsOf(m)
    BY <1>1 DEF IdsOf, KnownBy, ElementsOf
  <1>5a. /\ \A i \in DOMAIN s : s[i].action = a
         /\ Distinct(s)
         /\ s # <<>> => IsPolicy(s[1])
    BY Zenon DEF LogFits
  <1> HIDE DEF s, t, a
  <1>6. \A i \in DOMAIN t : t[i].action = a
    <2>1. e.action = a
      BY DEF a
    <2> QED
      BY <1>2, <1>5a, <2>1
  <1>7. Distinct(t)
    <2>1. Distinct(s)
      BY <1>5a
    <2>2. \A i \in DOMAIN s : s[i].id # e.id
      BY <1>5
    <2> QED
      BY <1>2, <2>1, <2>2 DEF Distinct
  <1>8. IsPolicy(t[1])
    <2>1. CASE s = <<>>
      <3>1. IsPolicy(e)
        BY <2>1 DEF s, a
      <3> QED
        BY <1>2, <1>3, <2>1, <3>1
    <2>2. CASE s # <<>>
      <3>1. IsPolicy(s[1]) /\ 1 \in DOMAIN s
        BY <1>2, <1>3, <1>5a, <2>2
      <3> QED
        BY <1>2, <3>1
    <2> QED
      BY <2>1, <2>2
  <1>9. \E i \in DOMAIN t : t[i].status = r.status[a]
    <2>1. CASE r.status[a] = e.status
      BY <1>2, <2>1
    <2>2. CASE r.status[a] = m.status[a] /\ e.stage = "execution"
      <3>1. ~IsPolicy(e)
        BY <2>2 DEF WellFormed, IsPolicy
      <3>2. s # <<>>
        BY <3>1 DEF s, a
      <3>3. PICK i \in DOMAIN s : s[i].status = m.status[a]
        BY <3>2 DEF LogFits, s, a
      <3> QED
        BY <1>2, <2>2, <3>3
    <2> QED
      BY <2>1, <2>2 DEF a
  <1>10. ASSUME r.status[a] = "approval_required", NEW i \in DOMAIN t
         PROVE  IsPolicy(t[i]) \/ t[i].stage = "execution"
    <2>1. CASE r.status[a] = e.status
      <3>1. IsPolicy(e)
        BY <1>10, <2>1, StatusOfEvent
      <3>2. s = <<>>
        BY <3>1 DEF s, a
      <3> QED
        BY <1>2, <1>3, <3>1, <3>2
    <2>2. CASE r.status[a] = m.status[a] /\ e.stage = "execution"
      <3>1. \A j \in DOMAIN s : IsPolicy(s[j]) \/ s[j].stage = "execution"
        BY <1>10, <2>2 DEF LogFits, s, a
      <3> QED
        BY <1>2, <2>2, <3>1
    <2> QED
      BY <2>1, <2>2 DEF a
  <1>11. ASSUME NEW i \in DOMAIN t
         PROVE  /\ t[i].type = "provider_accepted" => t[i].key \in r.receipts
                /\ IsPolicy(t[i]) => r.keys[t[i].key] # NoValue
    <2>1. CASE i \in DOMAIN s
      <3>1. /\ s[i].type = "provider_accepted" => s[i].key \in m.receipts
            /\ IsPolicy(s[i]) => m.keys[s[i].key] # NoValue
        BY <2>1 DEF LogFits, s, a
      <3>2. s[i].key \in Keys /\ t[i] = s[i]
        BY <1>2, <2>1 DEF Event
      <3> QED
        BY <3>1, <3>2
    <2>2. CASE i = Len(s) + 1
      BY <1>2, <2>2
    <2> QED
      BY <1>2, <2>1, <2>2
  <1>12. t # <<>>
    BY <1>2
  <1>13. /\ \A i \in DOMAIN r.log[a] : r.log[a][i].action = a
         /\ Distinct(r.log[a]) /\ r.log[a] # <<>>
         /\ IsPolicy(r.log[a][1])
         /\ \E i \in DOMAIN r.log[a] : r.log[a][i].status = r.status[a]
         /\ r.status[a] = "approval_required" =>
              \A i \in DOMAIN r.log[a] :
                  IsPolicy(r.log[a][i]) \/ r.log[a][i].stage = "execution"
         /\ \A i \in DOMAIN r.log[a] :
              /\ r.log[a][i].type = "provider_accepted" => r.log[a][i].key \in r.receipts
              /\ IsPolicy(r.log[a][i]) => r.keys[r.log[a][i].key] # NoValue
    BY <1>6, <1>7, <1>8, <1>9, <1>10, <1>11, <1>12 DEF t
  <1> QED
    BY <1>4, <1>13, Zenon DEF LogFits, a

\* The logs of other actions fit as before.
LEMMA OtherLogFits ==
    ASSUME NEW m \in Memory, NEW r \in Memory, NEW a \in ActionIds,
           LogFits(m, a),
           r.log[a] = m.log[a], r.status[a] = m.status[a],
           \A k \in Keys : m.keys[k] # NoValue => r.keys[k] # NoValue,
           m.receipts \subseteq r.receipts
    PROVE  LogFits(r, a)
  <1>1. \A i \in DOMAIN r.log[a] : r.log[a][i].key \in Keys
    <2>1. r.log[a] \in Seq(Event)
      BY DEF Memory
    <2>2. \A i \in DOMAIN r.log[a] : r.log[a][i] \in Event
      BY <2>1, ElementOfSeq, LenProperties
    <2> QED
      BY <2>2 DEF Event
  <1> QED
    BY <1>1 DEF LogFits

\* What supports an event among few supports it among more.
LEMMA SupportGrows ==
    ASSUME NEW e, NEW S, NEW T, S \subseteq T, Supported(e, S)
    PROVE  Supported(e, T)
  BY DEF Supported, HasCauses, Cause

LEMMA BeforeInAppended ==
    ASSUME NEW S, NEW s \in Seq(S), NEW e \in S
    PROVE  /\ Before(Append(s, e), Len(s) + 1) = ElementsOf(s)
           /\ \A n \in DOMAIN s : Before(Append(s, e), n) = Before(s, n)
  <1> DEFINE t == Append(s, e)
  <1>1. /\ DOMAIN s = 1..Len(s) /\ Len(s) \in Nat
        /\ \A i \in DOMAIN s : t[i] = s[i]
    BY AppendFacts
  <1> HIDE DEF t
  <1>2. Before(t, Len(s) + 1) = ElementsOf(s)
    <2>1. (Len(s) + 1) - 1 = Len(s)
      BY <1>1
    <2> QED
      BY <1>1, <2>1 DEF Before, ElementsOf
  <1>3. ASSUME NEW n \in DOMAIN s
        PROVE  Before(t, n) = Before(s, n)
    <2>1. \A i \in 1..(n - 1) : t[i] = s[i]
      BY <1>1
    <2> QED
      BY <2>1 DEF Before
  <1> QED
    BY <1>2, <1>3 DEF t

\* An event that agrees with every other may be added to them.
LEMMA AgreementGrows ==
    ASSUME EventsAgree, NEW e, WellFormed(e),
           \A f \in Everything : Agree(e, f),
           Everything' \subseteq Everything \cup {e}
    PROVE  EventsAgree'
  <1>1. \A f \in Everything \cup {e} : WellFormed(f)
    BY DEF EventsAgree
  <1>2. ASSUME NEW f \in Everything \cup {e}, NEW g \in Everything \cup {e}
        PROVE  Agree(f, g)
    <2>1. CASE f \in Everything /\ g \in Everything
      BY <2>1 DEF EventsAgree
    <2>2. CASE f = e /\ g \in Everything
      BY <2>2
    <2>3. CASE f \in Everything /\ g = e
      <3>1. Agree(e, f)
        BY <2>3
      <3> QED
        BY <2>3, <3>1 DEF Agree
    <2>4. CASE f = e /\ g = e
      BY <2>4 DEF Agree
    <2> QED
      BY <2>1, <2>2, <2>3, <2>4
  <1> QED
    BY <1>1, <1>2 DEF EventsAgree

\* An event that the memory of p may take in: it was fetched, or is new.
Admissible(p, e) ==
    /\ e \in Event
    /\ e.id \notin IdsOf(mem[p])
    /\ IsPolicy(e) <=> mem[p].log[e.action] = <<>>
    /\ WellFormed(e)
    /\ \A f \in Everything : Agree(e, f)
    /\ e \in Rows \/ Supported(e, Rows \cup ElementsOf(mem[p].log[e.action]))

\* The process p comes to know the event e; nothing else is learnt or stored.
Learned(p, e) ==
    /\ table' = table
    /\ \A q \in Processes \ {p} : mem'[q] = mem[q]
    /\ KnownBy(mem'[p]) = KnownBy(mem[p]) \cup {e}

\* ... as the last event of its action's log, and how the status follows.
Grows(p, e) ==
    /\ e \in Event
    /\ mem'[p].log[e.action] = Append(mem[p].log[e.action], e)
    /\ \/ mem'[p].status[e.action] = e.status
       \/ /\ mem'[p].status[e.action] = mem[p].status[e.action]
          /\ e.stage = "execution" /\ mem[p].log[e.action] # <<>>
    /\ \A b \in ActionIds \ {e.action} :
          mem'[p].log[b] = mem[p].log[b] /\ mem'[p].status[b] = mem[p].status[b]

\* ... and nobody has known it before.
Adds(p, e) == Grows(p, e) /\ \A f \in Everything : f.id # e.id

LEMMA LogGrows ==
    ASSUME Stored, NEW p \in Processes, NEW e \in Event, NEW r,
           \/ r = Recorded(mem[p], e)
           \/ r = Logged(mem[p], e) /\ e.stage = "execution" /\ mem[p].log[e.action] # <<>>,
           mem' = [mem EXCEPT ![p] = r]
    PROVE  Grows(p, e)
  <1>1. mem[p] \in Memory /\ mem'[p] = r
    BY DEF Stored
  <1>2. CASE r = Recorded(mem[p], e)
    <2>1. /\ r.log[e.action] = Append(mem[p].log[e.action], e)
          /\ r.status[e.action] = e.status
          /\ \A b \in ActionIds \ {e.action} :
                r.log[b] = mem[p].log[b] /\ r.status[b] = mem[p].status[b]
      BY <1>1, <1>2, RecordedFields
    <2> QED
      BY <1>1, <2>1 DEF Grows
  <1>3. CASE r = Logged(mem[p], e) /\ e.stage = "execution" /\ mem[p].log[e.action] # <<>>
    <2>1. /\ r.log[e.action] = Append(mem[p].log[e.action], e)
          /\ r.status = mem[p].status
          /\ \A b \in ActionIds \ {e.action} : r.log[b] = mem[p].log[b]
      BY <1>1, <1>3, LoggedFields
    <2> QED
      BY <1>1, <1>3, <2>1 DEF Grows
  <1> QED
    BY <1>2, <1>3

\* A process adds one event to its memory.
LEMMA LearningKeepsStored ==
    ASSUME Stored, NEW p \in Processes, NEW e, Admissible(p, e), NEW r,
           \/ r = Recorded(mem[p], e)
           \/ r = Logged(mem[p], e) /\ e.stage = "execution",
           table' = table, mem' = [mem EXCEPT ![p] = r]
    PROVE  Stored' /\ Learned(p, e)
  <1> DEFINE m == mem[p]
  <1> DEFINE a == e.action
  <1>0. /\ e \in Event
        /\ e.id \notin IdsOf(mem[p])
        /\ IsPolicy(e) <=> mem[p].log[e.action] = <<>>
        /\ WellFormed(e)
        /\ \A f \in Everything : Agree(e, f)
        /\ e \in Rows \/ Supported(e, Rows \cup ElementsOf(mem[p].log[e.action]))
    BY DEF Admissible
  <1>1. m \in Memory /\ a \in ActionIds /\ e.key \in Keys /\ e.status \in ActionStatus
    BY <1>0 DEF Stored, Event
  <1>2. mem'[p] = r /\ \A q \in Processes \ {p} : mem'[q] = mem[q]
    BY DEF Stored
  <1>3. /\ r \in Memory
        /\ r.log[a] = Append(m.log[a], e)
        /\ \A b \in ActionIds \ {a} : r.log[b] = m.log[b] /\ r.status[b] = m.status[b]
        /\ \/ r.status[a] = e.status
           \/ r.status[a] = m.status[a] /\ e.stage = "execution"
        /\ \A k \in Keys : m.keys[k] # NoValue => r.keys[k] # NoValue
        /\ IsPolicy(e) => r.keys[e.key] # NoValue
        /\ m.receipts \subseteq r.receipts
        /\ e.type = "provider_accepted" => e.key \in r.receipts
    <2>1. CASE r = Recorded(m, e)
      BY <1>0, <1>1, <2>1, RecordedFields, AbsentIsNone
    <2>2. CASE r = Logged(m, e) /\ e.stage = "execution"
      <3>1. ~IsPolicy(e) /\ e.type # "provider_accepted"
        BY <1>0, <2>2 DEF WellFormed, IsPolicy, LaterTypes
      <3> QED
        BY <1>0, <1>1, <2>2, <3>1, LoggedFields
    <2> QED
      BY <2>1, <2>2
  <1> HIDE DEF m, a
  <1>4. KnownBy(r) = KnownBy(m) \cup {e}
    <2>1. /\ r.log[e.action] = Append(m.log[e.action], e)
          /\ \A b \in ActionIds \ {e.action} : r.log[b] = m.log[b]
      BY <1>3 DEF a
    <2> QED
      BY <1>0, <1>1, <1>3, <2>1, KnownGrows
  <1>5. mem' \in [Processes -> Memory]
    BY <1>3 DEF Stored
  <1>6. Rows' = Rows
    BY DEF Rows
  <1>7. EventsAgree'
    <2>1. ASSUME NEW q \in Processes
          PROVE  KnownBy(mem'[q]) \subseteq KnownBy(mem[q]) \cup {e}
      BY <1>2, <1>4 DEF m
    <2>2. Everything' \subseteq Everything \cup {e}
      BY <1>6, <2>1 DEF Everything
    <2> QED
      BY <1>0, <2>2, AgreementGrows DEF Stored
  <1>8. MemoriesFit'
    <2>1. ASSUME NEW q \in Processes, NEW b \in ActionIds
          PROVE  LogFits(mem'[q], b)
      <3>1. CASE q # p
        BY <1>2, <3>1 DEF Stored, MemoriesFit
      <3>2. CASE q = p /\ b # a
        <4>1. LogFits(m, b)
          BY <3>2 DEF Stored, MemoriesFit, m
        <4> QED
          BY <1>1, <1>2, <1>3, <3>2, <4>1, OtherLogFits
      <3>3. CASE q = p /\ b = a
        <4>1. LogFits(m, a)
          BY <1>1 DEF Stored, MemoriesFit, m
        <4>2. LogFits(r, a)
          BY <1>0, <1>1, <1>3, <4>1, AppendedLogFits DEF m, a
        <4> QED
          BY <1>2, <3>3, <4>2
      <3> QED
        BY <3>1, <3>2, <3>3
    <2> QED
      BY <2>1 DEF MemoriesFit
  <1>9. LogsAreSupported'
    <2>1. ASSUME NEW q \in Processes, NEW b \in ActionIds
          PROVE  LogIsSupported(mem'[q].log[b], Rows')
      <3>1. CASE q # p \/ b # a
        <4>1. mem'[q].log[b] = mem[q].log[b]
          BY <1>2, <1>3, <3>1 DEF m
        <4>2. LogIsSupported(mem[q].log[b], Rows)
          BY DEF Stored, LogsAreSupported
        <4> QED
          BY <1>6, <4>1, <4>2
      <3>2. CASE q = p /\ b = a
        <4> DEFINE s == m.log[a]
        <4> DEFINE t == r.log[a]
        <4>1. s \in Seq(Event) /\ t = Append(s, e)
          BY <1>0, <1>1, <1>3 DEF Memory
        <4>2. /\ Len(s) \in Nat /\ t[Len(s) + 1] = e
              /\ \A n \in DOMAIN s : t[n] = s[n]
              /\ \A n \in DOMAIN t : n \in DOMAIN s \/ n = Len(s) + 1
          BY <1>0, <4>1, AppendFacts
        <4>3. /\ Before(t, Len(s) + 1) = ElementsOf(s)
              /\ \A n \in DOMAIN s : Before(t, n) = Before(s, n)
          BY <1>0, <4>1, BeforeInAppended
        <4>4. LogIsSupported(s, Rows)
          BY <1>1 DEF Stored, LogsAreSupported, m
        <4>5. e \in Rows \/ Supported(e, Rows \cup ElementsOf(s))
          BY <1>0 DEF m, a
        <4> HIDE DEF s, t
        <4>6. LogIsSupported(t, Rows)
          BY <4>2, <4>3, <4>4, <4>5 DEF LogIsSupported
        <4> QED
          BY <1>2, <1>6, <3>2, <4>6 DEF t
      <3> QED
        BY <3>1, <3>2
    <2> QED
      BY <2>1 DEF LogsAreSupported
  <1>10. table' \in Seq(Event) /\ Distinct(table)' /\ RowsAreSupported'
    BY DEF Stored, Distinct, RowsAreSupported, Before
  <1> QED
    BY <1>2, <1>4, <1>5, <1>7, <1>8, <1>9, <1>10 DEF Stored, m, Learned

\* Counting the smaller places numbers the places of a finite set from the
\* first to the last.
LEMMA NthPlaces ==
    ASSUME NEW S, S \subseteq Nat, IsFiniteSet(S)
    PROVE  /\ Cardinality(S) \in Nat
           /\ \A n \in 1..Cardinality(S) : Nth(S, n) \in S
           /\ \A i \in S : \E n \in 1..Cardinality(S) : Nth(S, n) = i
           /\ \A n, m \in 1..Cardinality(S) : n < m <=> Nth(S, n) < Nth(S, m)
  <1> DEFINE below(i) == {j \in S : j < i}
  <1> DEFINE rank(i) == Cardinality(below(i))
  <1> DEFINE c == Cardinality(S)
  <1>1. c \in Nat
    BY FS_CardinalityType
  <1>2. ASSUME NEW i \in S
        PROVE  rank(i) \in Nat /\ rank(i) < c
    <2>1. below(i) \in SUBSET S /\ i \notin below(i)
      OBVIOUS
    <2>2. IsFiniteSet(below(i)) /\ rank(i) <= c /\ (c = rank(i) => S = below(i))
      BY <2>1, FS_Subset
    <2>3. rank(i) \in Nat
      BY <2>2, FS_CardinalityType
    <2>4. rank(i) # c
      BY <2>1, <2>2
    <2> HIDE DEF c, rank
    <2> QED
      BY <1>1, <2>2, <2>3, <2>4
  <1>3. ASSUME NEW i \in S, NEW k \in S, i < k
        PROVE  rank(i) < rank(k)
    <2>1. \A j \in S : j < i => j < k
      BY <1>3
    <2> DEFINE A == below(i)
    <2> DEFINE B == below(k)
    <2>2. /\ A \in SUBSET B
          /\ i \notin A /\ i \in B
          /\ B \in SUBSET S
      <3>1. i \in Nat /\ ~(i < i)
        OBVIOUS
      <3>2. A \subseteq B
        BY <2>1
      <3>3. i \in B
        BY <1>3
      <3>4. B \subseteq S
        OBVIOUS
      <3> QED
        BY <3>1, <3>2, <3>3, <3>4
    <2>3. rank(i) = Cardinality(A) /\ rank(k) = Cardinality(B)
      OBVIOUS
    <2> HIDE DEF A, B, rank
    <2>4. IsFiniteSet(B)
      BY <2>2, FS_Subset
    <2>5. Cardinality(A) <= Cardinality(B)
          /\ (Cardinality(B) = Cardinality(A) => B = A)
      BY <2>2, <2>4, FS_Subset
    <2>6. Cardinality(A) # Cardinality(B)
      BY <2>2, <2>5
    <2>7. rank(i) \in Nat /\ rank(k) \in Nat
      BY <1>2
    <2> QED
      BY <2>3, <2>5, <2>6, <2>7
  <1> DEFINE number == [i \in S |-> rank(i) + 1]
  <1>4. \A i \in S : number[i] = rank(i) + 1
    OBVIOUS
  <1> HIDE DEF rank, c
  <1>5. \A i, k \in S : rank(i) = rank(k) => i = k
    <2>1. ASSUME NEW i \in S, NEW k \in S, rank(i) = rank(k)
          PROVE  i = k
      <3>1. i \in Nat /\ k \in Nat /\ rank(i) \in Nat /\ rank(k) \in Nat
        BY <1>2
      <3>2. ~(i < k) /\ ~(k < i)
        BY <1>3, <2>1, <3>1
      <3> QED
        BY <3>1, <3>2
    <2> QED
      BY <2>1
  <1>6. number \in Injection(S, 1..c)
    <2>1. \A i \in S : rank(i) + 1 \in 1..c
      BY <1>1, <1>2
    <2>2. \A i, k \in S : rank(i) + 1 = rank(k) + 1 => i = k
      BY <1>2, <1>5
    <2> QED
      BY <2>1, <2>2 DEF Injection, IsInjective
  <1>7. IsFiniteSet(1..c) /\ Cardinality(1..c) = c
    BY <1>1, FS_Interval
  <1>8. number \in Surjection(S, 1..c)
    BY <1>6, <1>7, FS_Injection DEF c
  <1>9. \A n \in 1..c : \E i \in S : rank(i) = n - 1
    <2>1. ASSUME NEW n \in 1..c
          PROVE  \E i \in S : rank(i) = n - 1
      <3>1. PICK i \in S : number[i] = n
        BY <1>8 DEF Surjection
      <3>2. rank(i) = n - 1
        BY <1>1, <1>2, <1>4, <3>1
      <3> QED
        BY <3>2
    <2> QED
      BY <2>1
  <1>10. \A n \in 1..c : Nth(S, n) \in S /\ rank(Nth(S, n)) = n - 1
    BY <1>9 DEF Nth, rank
  <1>11. ASSUME NEW i \in S
         PROVE  \E n \in 1..c : Nth(S, n) = i
    <2>1. rank(i) + 1 \in 1..c /\ (rank(i) + 1) - 1 = rank(i)
      BY <1>1, <1>2
    <2>2. Nth(S, rank(i) + 1) = i
      BY <1>5, <1>10, <2>1
    <2> QED
      BY <2>1, <2>2
  <1>12. ASSUME NEW n \in 1..c, NEW m \in 1..c
         PROVE  n < m <=> Nth(S, n) < Nth(S, m)
    <2> DEFINE i == Nth(S, n)
    <2> DEFINE k == Nth(S, m)
    <2>1. i \in S /\ k \in S /\ rank(i) = n - 1 /\ rank(k) = m - 1
      BY <1>10
    <2> HIDE DEF i, k
    <2>2. i < k => rank(i) < rank(k)
      BY <1>3, <2>1
    <2>3. k < i => rank(k) < rank(i)
      BY <1>3, <2>1
    <2>4. i \in Nat /\ k \in Nat /\ n \in Int /\ m \in Int
      BY <1>1, <2>1
    <2>5. n < m <=> i < k
      BY <2>1, <2>2, <2>3, <2>4
    <2> QED
      BY <2>5 DEF i, k
  <1> QED
    BY <1>1, <1>10, <1>11, <1>12 DEF c

\* t is rows with the chosen events of a log behind them, in the log's order.
Insertion(rows, log, places, t) ==
    /\ t \in Seq(Event)
    /\ Len(rows) \in Nat /\ DOMAIN rows = 1..Len(rows)
    /\ Len(t) \in Nat /\ DOMAIN t = 1..Len(t) /\ Len(rows) <= Len(t)
    /\ \A i \in DOMAIN rows : i \in DOMAIN t /\ t[i] = rows[i]
    /\ \E place \in [DOMAIN t \ DOMAIN rows -> places] :
         /\ \A i \in DOMAIN t \ DOMAIN rows : t[i] = log[place[i]]
         /\ \A n \in places : \E i \in DOMAIN t \ DOMAIN rows : place[i] = n
         /\ \A i, j \in DOMAIN t \ DOMAIN rows : i < j <=> place[i] < place[j]

\* Arithmetic of positions: rows of the table come before those inserted.
LEMMA PositionsAfter ==
    ASSUME NEW rows, NEW t, NEW r \in Nat, NEW l \in Nat, r <= l,
           DOMAIN rows = 1..r, DOMAIN t = 1..l
    PROVE  /\ \A i \in DOMAIN t \ DOMAIN rows, j \in DOMAIN rows : j \in 1..(i - 1)
           /\ \A i \in DOMAIN rows : \A j \in 1..(i - 1) : j \in DOMAIN rows
           /\ \A i, j \in DOMAIN t : j < i => j \in 1..(i - 1)
           /\ \A i, j \in DOMAIN t : i # j => i < j \/ j < i
  OBVIOUS

LEMMA PositionsBefore ==
    ASSUME NEW s, NEW l \in Nat, DOMAIN s = 1..l
    PROVE  \A n \in DOMAIN s : ~(n < n) /\ \A k \in 1..(n - 1) : k \in DOMAIN s /\ k < n
  OBVIOUS

LEMMA InsertedRows ==
    ASSUME NEW rows \in Seq(Event), NEW log \in Seq(Event),
           NEW places, places \subseteq DOMAIN log,
           NEW t, t = rows \o EventsAt(log, places)
    PROVE  Insertion(rows, log, places, t)
  <1> DEFINE c == Cardinality(places)
  <1> DEFINE at(n) == Nth(places, n)
  <1> DEFINE new == [n \in 1..c |-> log[at(n)]]
  <1> DEFINE l == Len(rows)
  <1>1. places \subseteq Nat /\ IsFiniteSet(places)
    <2>1. DOMAIN log = 1..Len(log) /\ Len(log) \in Nat
      BY LenProperties
    <2>2. IsFiniteSet(DOMAIN log)
      BY <2>1, FS_Interval
    <2>3. places \in SUBSET DOMAIN log
      OBVIOUS
    <2> QED
      BY <2>1, <2>2, <2>3, FS_Subset
  <1>2. /\ c \in Nat
        /\ \A n \in 1..c : at(n) \in places
        /\ \A i \in places : \E n \in 1..c : at(n) = i
        /\ \A n, m \in 1..c : n < m <=> at(n) < at(m)
    BY <1>1, NthPlaces
  <1> HIDE DEF c, at
  <1>3. \A n \in 1..c : log[at(n)] \in Event
    BY <1>2, ElementOfSeq, LenProperties
  <1>4. new \in Seq(Event) /\ Len(new) = c /\ \A n \in 1..c : new[n] = log[at(n)]
    BY <1>2, <1>3
  <1>5. t = rows \o new
    BY DEF EventsAt, c, at
  <1> HIDE DEF new
  <1>6. /\ t \in Seq(Event) /\ Len(t) = l + c
        /\ \A i \in 1..(l + c) : t[i] = IF i <= l THEN rows[i] ELSE new[i - l]
    <2>1. /\ rows \o new \in Seq(Event)
          /\ Len(rows \o new) = Len(rows) + Len(new)
          /\ \A i \in 1..Len(rows) + Len(new) :
                (rows \o new)[i] = IF i <= Len(rows) THEN rows[i] ELSE new[i - Len(rows)]
      BY <1>4, ConcatProperties
    <2> QED
      BY <1>4, <1>5, <2>1
  <1>7. /\ l \in Nat /\ DOMAIN rows = 1..l /\ Len(t) \in Nat /\ DOMAIN t = 1..Len(t)
    BY <1>6, LenProperties
  <1> HIDE DEF l
  <1>8. \A i \in DOMAIN t \ DOMAIN rows : i - l \in 1..c /\ i \in Int /\ t[i] = log[at(i - l)]
    BY <1>2, <1>4, <1>6, <1>7
  <1> DEFINE place == [i \in DOMAIN t \ DOMAIN rows |-> at(i - l)]
  <1>9. place \in [DOMAIN t \ DOMAIN rows -> places]
    BY <1>2, <1>8
  <1>10. \A i \in DOMAIN t \ DOMAIN rows : t[i] = log[place[i]]
    BY <1>8
  <1>11. ASSUME NEW n \in places
         PROVE  \E i \in DOMAIN t \ DOMAIN rows : place[i] = n
    <2>1. PICK k \in 1..c : at(k) = n
      BY <1>2
    <2>2. l + k \in DOMAIN t \ DOMAIN rows /\ (l + k) - l = k
      BY <1>2, <1>6, <1>7
    <2>3. place[l + k] = at((l + k) - l)
      BY <2>2
    <2> QED
      BY <2>1, <2>2, <2>3
  <1>12. ASSUME NEW i \in DOMAIN t \ DOMAIN rows, NEW j \in DOMAIN t \ DOMAIN rows
         PROVE  i < j <=> place[i] < place[j]
    <2>1. i - l \in 1..c /\ j - l \in 1..c /\ i \in Int /\ j \in Int
      BY <1>8
    <2>2. i - l < j - l <=> at(i - l) < at(j - l)
      BY <1>2, <2>1
    <2>3. i < j <=> i - l < j - l
      BY <1>7, <2>1
    <2>4. place[i] = at(i - l) /\ place[j] = at(j - l)
      OBVIOUS
    <2> QED
      BY <2>2, <2>3, <2>4
  <1>13. \A i \in DOMAIN rows : i \in DOMAIN t /\ t[i] = rows[i]
    BY <1>2, <1>6, <1>7
  <1>14. l <= Len(t)
    BY <1>2, <1>6, <1>7
  <1> HIDE DEF place
  <1>15. \E place_ \in [DOMAIN t \ DOMAIN rows -> places] :
           /\ \A i \in DOMAIN t \ DOMAIN rows : t[i] = log[place_[i]]
           /\ \A n \in places : \E i \in DOMAIN t \ DOMAIN rows : place_[i] = n
           /\ \A i, j \in DOMAIN t \ DOMAIN rows : i < j <=> place_[i] < place_[j]
    BY <1>9, <1>10, <1>11, <1>12
  <1> QED
    BY <1>6, <1>7, <1>13, <1>14, <1>15 DEF l, Insertion

\* A save inserts the unsaved events of one action, in their order.
LEMMA SavingKeepsStored ==
    ASSUME Stored, NEW p \in Processes, NEW a \in ActionIds,
           table' = table \o EventsAt(mem[p].log[a],
               {n \in DOMAIN mem[p].log[a] : mem[p].log[a][n].id \notin RowIds}),
           mem' = mem
    PROVE  /\ Stored'
           /\ Len(table) <= Len(table')
           /\ \A i \in DOMAIN table : i \in DOMAIN table' /\ table'[i] = table[i]
           /\ Rows' = Rows \cup {e \in KnownBy(mem[p]) : e.action = a}
  <1> DEFINE log == mem[p].log[a]
  <1> DEFINE places == {n \in DOMAIN log : log[n].id \notin RowIds}
  <1> DEFINE t == table'
  <1> DEFINE fresh == DOMAIN t \ DOMAIN table
  <1>1. log \in Seq(Event)
    BY DEF Stored, Memory
  <1>2. DOMAIN log = 1..Len(log) /\ Len(log) \in Nat /\ \A n \in DOMAIN log : log[n] \in Event
    BY <1>1, ElementOfSeq, LenProperties
  <1>3. Insertion(table, log, places, t)
    <2>1. places \subseteq DOMAIN log /\ t = table \o EventsAt(log, places)
      OBVIOUS
    <2>2. table \in Seq(Event)
      BY DEF Stored
    <2> HIDE DEF places, log, t, fresh
    <2> QED
      BY <1>1, <2>1, <2>2, InsertedRows, Zenon
  <1>4. PICK place :
             /\ \A i \in fresh : place[i] \in places /\ t[i] = log[place[i]]
             /\ \A n \in places : \E i \in fresh : place[i] = n
             /\ \A i, j \in fresh : i < j <=> place[i] < place[j]
    <2> HIDE DEF places, log, t
    <2> QED
      BY <1>3 DEF Insertion
  <1>5. \A n \in places : n \in DOMAIN log /\ log[n].id \notin RowIds
    OBVIOUS
  <1>6. \A n \in DOMAIN log : n \in places \/ log[n].id \in RowIds
    OBVIOUS
  <1>7. \A n \in DOMAIN log : log[n] \in KnownBy(mem[p])
    <2>1. \A n \in DOMAIN log : log[n] \in ElementsOf(mem[p].log[a])
      BY Zenon DEF ElementsOf
    <2> HIDE DEF log
    <2> QED
      BY <2>1, Zenon DEF KnownBy
  <1>8. \A i \in DOMAIN log : log[i].action = a
    BY DEF Stored, MemoriesFit, LogFits
  <1>9. \A n \in DOMAIN log : log[n].id \in RowIds => log[n] \in Rows
    <2>1. ASSUME NEW n \in DOMAIN log, log[n].id \in RowIds
          PROVE  log[n] \in Rows
      <3>1. PICK e \in Rows : e.id = log[n].id
        BY <2>1 DEF RowIds, Rows
      <3>2. e \in Everything /\ log[n] \in Everything
        BY <1>7, <3>1 DEF Everything
      <3>3. Agree(e, log[n])
        BY <3>2 DEF Stored, EventsAgree
      <3> QED
        BY <3>1, <3>3 DEF Agree
    <2> QED
      BY <2>1
  <1>10. \A i \in DOMAIN table : table[i].id \in RowIds /\ table[i] \in Rows
    BY DEF RowIds, Rows, ElementsOf
  <1>11. \A e \in KnownBy(mem[p]) : e.action = a => \E n \in DOMAIN log : e = log[n]
    <2> SUFFICES ASSUME NEW e \in KnownBy(mem[p]), e.action = a
                 PROVE  \E n \in DOMAIN log : e = log[n]
      OBVIOUS
    <2>1. PICK b \in ActionIds : \E n \in DOMAIN mem[p].log[b] : mem[p].log[b][n] = e
      BY KnownMeansLogged
    <2>2. \A n \in DOMAIN mem[p].log[b] : mem[p].log[b][n].action = b
      BY DEF Stored, MemoriesFit, LogFits
    <2>3. e.action = b
      BY <2>1, <2>2, Zenon
    <2> QED
      BY <2>1, <2>3, Zenon
  <1>12. LogIsSupported(log, Rows) /\ Distinct(log)
    BY DEF Stored, LogsAreSupported, MemoriesFit, LogFits
  <1> HIDE DEF log, places, t, fresh
  <1>13. /\ t \in Seq(Event)
         /\ Len(table) \in Nat /\ DOMAIN table = 1..Len(table)
         /\ Len(t) \in Nat /\ DOMAIN t = 1..Len(t) /\ Len(table) <= Len(t)
         /\ \A i \in DOMAIN table : i \in DOMAIN t /\ t[i] = table[i]
    BY <1>3 DEF Insertion
  <1>13a. /\ \A i \in fresh, j \in DOMAIN table : j \in 1..(i - 1)
          /\ \A i \in DOMAIN table : \A j \in 1..(i - 1) : j \in DOMAIN table
          /\ \A i, j \in DOMAIN t : j < i => j \in 1..(i - 1)
          /\ \A i, j \in DOMAIN t : i # j => i < j \/ j < i
    <2> DEFINE r == Len(table)
    <2> DEFINE l == Len(t)
    <2>1. r \in Nat /\ l \in Nat /\ r <= l /\ DOMAIN table = 1..r /\ DOMAIN t = 1..l
      BY <1>13
    <2> HIDE DEF r, l
    <2> QED
      BY <2>1, PositionsAfter, Zenon DEF fresh
  <1>13b. \A n \in DOMAIN log : ~(n < n) /\ \A k \in 1..(n - 1) : k \in DOMAIN log /\ k < n
    <2> DEFINE l == Len(log)
    <2>1. l \in Nat /\ DOMAIN log = 1..l
      BY <1>2
    <2> HIDE DEF l
    <2> QED
      BY <2>1, PositionsBefore, Zenon
  <1>14. Rows' = Rows \cup {e \in KnownBy(mem[p]) : e.action = a}
    <2>1. ASSUME NEW e \in Rows'
          PROVE  e \in Rows \cup {f \in KnownBy(mem[p]) : f.action = a}
      <3>1. PICK i \in DOMAIN t : e = t[i]
        BY DEF Rows, ElementsOf, t
      <3>2. CASE i \in DOMAIN table
        BY <1>13, <1>10, <3>1, <3>2
      <3>3. CASE i \in fresh
        <4>1. place[i] \in DOMAIN log /\ e = log[place[i]]
          BY <1>4, <1>5, <3>1, <3>3
        <4> QED
          BY <1>7, <1>8, <4>1
      <3> QED
        BY <3>1, <3>2, <3>3 DEF fresh
    <2>2. ASSUME NEW e \in Rows
          PROVE  e \in Rows'
      <3>1. PICK i \in DOMAIN table : e = table[i]
        BY DEF Rows, ElementsOf
      <3> QED
        BY <1>13, <3>1 DEF Rows, ElementsOf, t
    <2>3. ASSUME NEW e \in KnownBy(mem[p]), e.action = a
          PROVE  e \in Rows'
      <3>1. PICK n \in DOMAIN log : e = log[n]
        BY <1>11, <2>3
      <3>2. CASE n \in places
        <4>1. PICK i \in fresh : place[i] = n
          BY <1>4, <3>2
        <4>2. i \in DOMAIN t /\ t[i] = e
          BY <1>4, <3>1, <4>1 DEF fresh
        <4> QED
          BY <4>2 DEF Rows, ElementsOf, t
      <3>3. CASE log[n].id \in RowIds
        BY <1>9, <2>2, <3>1, <3>3
      <3> QED
        BY <1>6, <3>2, <3>3
    <2> QED
      BY <2>1, <2>2, <2>3
  <1>15. Distinct(t)
    <2>1. ASSUME NEW i \in DOMAIN t, NEW j \in DOMAIN t, t[i].id = t[j].id
          PROVE  i = j
      <3>1. CASE i \in DOMAIN table /\ j \in DOMAIN table
        BY <1>13, <2>1, <3>1 DEF Stored, Distinct
      <3>2. CASE i \in fresh /\ j \in fresh
        <4>1. /\ place[i] \in DOMAIN log /\ t[i] = log[place[i]]
              /\ place[j] \in DOMAIN log /\ t[j] = log[place[j]]
          BY <1>4, <1>5, <3>2
        <4>2. place[i] = place[j]
          BY <1>12, <2>1, <4>1 DEF Distinct
        <4>3. ~(i < j) /\ ~(j < i)
          <5>1. (i < j <=> place[i] < place[j]) /\ (j < i <=> place[j] < place[i])
            BY <1>4, <3>2, Zenon
          <5>2. ~(place[i] < place[j]) /\ ~(place[j] < place[i])
            BY <1>13b, <4>1, <4>2, Zenon
          <5> QED
            BY <5>1, <5>2
        <4> QED
          BY <1>13a, <4>3, Zenon
      <3>3. CASE i \in DOMAIN table /\ j \in fresh
        <4>1. t[i].id \in RowIds
          BY <1>13, <1>10, <3>3
        <4>2. t[j].id \notin RowIds
          BY <1>4, <1>5, <3>3
        <4> QED
          BY <2>1, <4>1, <4>2
      <3>4. CASE i \in fresh /\ j \in DOMAIN table
        <4>1. t[j].id \in RowIds
          BY <1>13, <1>10, <3>4
        <4>2. t[i].id \notin RowIds
          BY <1>4, <1>5, <3>4
        <4> QED
          BY <2>1, <4>1, <4>2
      <3> QED
        BY <3>1, <3>2, <3>3, <3>4 DEF fresh
    <2> QED
      BY <2>1 DEF Distinct
  <1>16. ASSUME NEW i \in DOMAIN t
         PROVE  Supported(t[i], Before(t, i))
    <2>1. CASE i \in DOMAIN table
      <3>1. \A j \in 1..(i - 1) : t[j] = table[j]
        BY <1>13, <1>13a, <2>1, Zenon
      <3>2. Before(t, i) = Before(table, i)
        BY <3>1 DEF Before
      <3> QED
        BY <1>13, <2>1, <3>2 DEF Stored, RowsAreSupported
    <2>2. CASE i \in fresh
      <3> DEFINE n == place[i]
      <3>1. n \in places /\ n \in DOMAIN log /\ t[i] = log[n] /\ log[n].id \notin RowIds
        BY <1>4, <1>5, <2>2
      <3>2. log[n] \notin Rows
        BY <3>1 DEF Rows, RowIds
      <3>3. Supported(log[n], Rows \cup Before(log, n))
        BY <1>12, <3>1, <3>2 DEF LogIsSupported
      <3>4. Rows \subseteq Before(t, i)
        <4>1. \A j \in DOMAIN table : j \in 1..(i - 1) /\ t[j] = table[j]
          BY <1>13, <1>13a, <2>2, Zenon
        <4> QED
          BY <4>1 DEF Rows, ElementsOf, Before
      <3>5. ASSUME NEW k \in 1..(n - 1)
            PROVE  log[k] \in Before(t, i)
        <4>1. k \in DOMAIN log /\ k < n
          BY <1>13b, <3>1, Zenon
        <4>2. CASE k \in places
          <5>1. PICK j \in fresh : place[j] = k
            BY <1>4, <4>2
          <5>2. j < i
            <6>1. j < i <=> place[j] < place[i]
              BY <1>4, <2>2, <5>1, Zenon
            <6> QED
              BY <4>1, <5>1, <6>1
          <5>3. j \in 1..(i - 1)
            <6>1. i \in DOMAIN t /\ j \in DOMAIN t
              BY <5>1 DEF fresh
            <6> QED
              BY <1>13a, <5>2, <6>1, Zenon
          <5>4. t[j] = log[k]
            BY <1>4, <5>1
          <5> QED
            BY <5>3, <5>4 DEF Before
        <4>3. CASE log[k].id \in RowIds
          BY <1>9, <3>4, <4>1, <4>3
        <4> QED
          BY <1>6, <4>1, <4>2, <4>3
      <3>6. Rows \cup Before(log, n) \subseteq Before(t, i)
        BY <3>4, <3>5 DEF Before
      <3> HIDE DEF n
      <3> QED
        BY <3>1, <3>3, <3>6, SupportGrows
    <2> QED
      BY <2>1, <2>2 DEF fresh
  <1>17. LogsAreSupported'
    <2>1. ASSUME NEW q \in Processes, NEW b \in ActionIds
          PROVE  LogIsSupported(mem[q].log[b], Rows')
      <3> DEFINE s == mem[q].log[b]
      <3>1. LogIsSupported(s, Rows)
        BY DEF Stored, LogsAreSupported
      <3>2. ASSUME NEW n \in DOMAIN s
            PROVE  s[n] \in Rows' \/ Supported(s[n], Rows' \cup Before(s, n))
        <4>1. Rows \subseteq Rows'
          BY <1>14
        <4>2. Rows \cup Before(s, n) \subseteq Rows' \cup Before(s, n)
          BY <4>1
        <4>3. CASE s[n] \in Rows
          BY <4>1, <4>3
        <4>4. CASE Supported(s[n], Rows \cup Before(s, n))
          BY <4>2, <4>4, SupportGrows
        <4> QED
          BY <3>1, <4>3, <4>4 DEF LogIsSupported
      <3> HIDE DEF s
      <3>3. LogIsSupported(s, Rows')
        BY <3>2 DEF LogIsSupported
      <3> QED
        BY <3>3 DEF s
    <2> QED
      BY <2>1 DEF LogsAreSupported
  <1>18. EventsAgree'
    <2>1. Everything' \subseteq Everything
      BY <1>14 DEF Everything
    <2> QED
      BY <2>1 DEF Stored, EventsAgree
  <1>19. MemoriesFit' /\ mem' \in [Processes -> Memory]
    BY DEF Stored, MemoriesFit
  <1>20. RowsAreSupported'
    BY <1>16 DEF RowsAreSupported, t
  <1> QED
    BY <1>13, <1>14, <1>15, <1>17, <1>18, <1>19, <1>20 DEF Stored, t

\* A process that stops forgets what only it knew.
LEMMA CrashKeepsStored ==
    ASSUME Stored, NEW p \in Processes,
           table' = table, mem' = [mem EXCEPT ![p] = EmptyMemory]
    PROVE  /\ Stored'
           /\ KnownBy(mem'[p]) = {}
           /\ \A q \in Processes \ {p} : mem'[q] = mem[q]
  <1> DEFINE r == EmptyMemory
  <1>1. /\ r \in Memory
        /\ \A a \in ActionIds : r.log[a] = <<>> /\ r.status[a] = NoValue
    BY DEF EmptyMemory, Memory
  <1> HIDE DEF r
  <1>2. /\ mem' \in [Processes -> Memory]
        /\ mem'[p] = r
        /\ \A q \in Processes \ {p} : mem'[q] = mem[q]
    BY <1>1 DEF Stored, r
  <1>3. KnownBy(r) = {}
    BY <1>1 DEF KnownBy, ElementsOf
  <1>4. Rows' = Rows
    BY DEF Rows
  <1>5. EventsAgree'
    <2>1. Everything' \subseteq Everything
      BY <1>2, <1>3, <1>4 DEF Everything
    <2> QED
      BY <2>1 DEF Stored, EventsAgree
  <1>6. MemoriesFit'
    <2>1. \A a \in ActionIds : LogFits(r, a)
      BY <1>1, AbsentIsNone DEF LogFits, Distinct, ActionStatus
    <2> QED
      BY <1>2, <2>1 DEF Stored, MemoriesFit
  <1>7. LogsAreSupported'
    <2>1. LogIsSupported(<<>>, Rows)
      BY DEF LogIsSupported
    <2>2. ASSUME NEW q \in Processes, NEW a \in ActionIds
          PROVE  LogIsSupported(mem'[q].log[a], Rows')
      BY <1>1, <1>2, <1>4, <2>1 DEF Stored, LogsAreSupported
    <2> QED
      BY <2>2 DEF LogsAreSupported
  <1>8. table' \in Seq(Event) /\ Distinct(table)' /\ RowsAreSupported'
    BY DEF Stored, Distinct, RowsAreSupported, Before
  <1> QED
    BY <1>2, <1>3, <1>5, <1>6, <1>7, <1>8 DEF Stored

\* The status a process has of an action is that of an event in its log.
LEMMA StatusIsLogged ==
    ASSUME Stored, NEW p \in Processes, NEW a \in ActionIds,
           mem[p].status[a] # NoValue
    PROVE  /\ mem[p].log[a] \in Seq(Event) /\ mem[p].log[a] # <<>>
           /\ \A e \in ElementsOf(mem[p].log[a]) :
                e \in Event /\ e.action = a /\ WellFormed(e) /\ e \in Everything
           /\ \E e \in ElementsOf(mem[p].log[a]) : e.status = mem[p].status[a]
           /\ mem[p].log[a][1] \in ElementsOf(mem[p].log[a])
           /\ IsPolicy(mem[p].log[a][1])
           /\ Last(mem[p].log[a]) \in ElementsOf(mem[p].log[a])
  <1> DEFINE s == mem[p].log[a]
  <1>1. s \in Seq(Event)
    BY DEF Stored, Memory
  <1>2. s # <<>>
    BY DEF Stored, MemoriesFit, LogFits
  <1>3. /\ DOMAIN s = 1..Len(s) /\ Len(s) \in Nat \ {0}
        /\ \A i \in DOMAIN s : s[i] \in Event
    BY <1>1, <1>2, ElementOfSeq, LenProperties, EmptySeq
  <1>4. \A i \in DOMAIN s : s[i].action = a
    BY DEF Stored, MemoriesFit, LogFits
  <1>5. \A e \in ElementsOf(s) : e \in Everything
    BY DEF Everything, KnownBy
  <1>6. \A e \in Everything : WellFormed(e)
    BY DEF Stored, EventsAgree
  <1>7. IsPolicy(s[1]) /\ \E i \in DOMAIN s : s[i].status = mem[p].status[a]
    BY <1>2 DEF Stored, MemoriesFit, LogFits
  <1>8. 1 \in DOMAIN s /\ Len(s) \in DOMAIN s
    BY <1>3
  <1> HIDE DEF s
  <1>9. /\ s[1] \in ElementsOf(s) /\ Last(s) \in ElementsOf(s)
        /\ \E e \in ElementsOf(s) : e.status = mem[p].status[a]
        /\ \A e \in ElementsOf(s) : e \in Event /\ e.action = a
    BY <1>3, <1>4, <1>7, <1>8 DEF ElementsOf, Last
  <1> QED
    BY <1>1, <1>2, <1>5, <1>6, <1>7, <1>9 DEF s

\* What supports an approval, a refusal or a verdict is in the log or the table.
LEMMA StatusHasCause ==
    ASSUME Stored, NEW p \in Processes, NEW a \in ActionIds,
           NEW S, S = Rows \cup ElementsOf(mem[p].log[a])
    PROVE  /\ mem[p].status[a] = "approval_required" =>
                 Cause(S, a, "policy_evaluated", "approval_required")
           /\ mem[p].status[a] = "approved" => Cause(S, a, "approved", "approved")
           /\ mem[p].status[a] \in VERIFIABLE_STATUSES =>
                 Cause(S, a, "provider_accepted", "provider_accepted")
  <1> DEFINE s == mem[p].log[a]
  <1> DEFINE status == mem[p].status[a]
  <1>1. CASE status = NoValue
    <2>1. status \notin ActionStatus
      BY <1>1, AbsentIsNone
    <2> QED
      BY <2>1 DEF ActionStatus, VERIFIABLE_STATUSES
  <1>2. CASE status # NoValue
    <2>1. PICK f \in ElementsOf(s) : f.status = status
      BY <1>2, StatusIsLogged
    <2>2. f \in S /\ f.action = a /\ WellFormed(f)
      BY <1>2, <2>1, StatusIsLogged
    <2>3. status = "approval_required" =>
              Cause(S, a, "policy_evaluated", "approval_required")
      BY <2>1, <2>2, StatusOfEvent DEF Cause, IsPolicy
    <2>4. status = "approved" => Cause(S, a, "approved", "approved")
      BY <2>1, <2>2, StatusOfEvent DEF Cause
    <2>5. status = "provider_accepted" =>
              Cause(S, a, "provider_accepted", "provider_accepted")
      BY <2>1, <2>2, StatusOfEvent DEF Cause
    <2>6. ASSUME status = "verification_pending"
          PROVE  Cause(S, a, "provider_accepted", "provider_accepted")
      <3>1. f.type \in VerificationTypes
        BY <2>1, <2>2, <2>6, StatusOfEvent DEF VerificationTypes
      <3>2. CASE f \in Rows
        <4>1. PICK i \in DOMAIN table : table[i] = f
          BY <3>2 DEF Rows, ElementsOf
        <4>2. Supported(f, Before(table, i))
          BY <4>1 DEF Stored, RowsAreSupported
        <4>3. Before(table, i) \subseteq Rows
          <5>1. DOMAIN table = 1..Len(table) /\ Len(table) \in Nat
            BY LenProperties DEF Stored
          <5> QED
            BY <5>1 DEF Before, Rows, ElementsOf
        <4> QED
          BY <2>2, <3>1, <4>2, <4>3 DEF Supported, HasCauses, Cause
      <3>3. CASE f \notin Rows
        <4>1. PICK i \in DOMAIN s : s[i] = f
          BY <2>1 DEF ElementsOf
        <4>2. Supported(f, Rows \cup Before(s, i))
          BY <3>3, <4>1 DEF Stored, LogsAreSupported, LogIsSupported
        <4>3. Rows \cup Before(s, i) \subseteq S
          <5>1. s \in Seq(Event)
            BY <1>2, StatusIsLogged
          <5>2. DOMAIN s = 1..Len(s) /\ Len(s) \in Nat
            BY <5>1, LenProperties
          <5> QED
            BY <5>2 DEF Before, ElementsOf
        <4> QED
          BY <2>2, <3>1, <4>2, <4>3 DEF Supported, HasCauses, Cause
      <3> QED
        BY <3>2, <3>3
    <2> QED
      BY <2>3, <2>4, <2>5, <2>6 DEF VERIFIABLE_STATUSES
  <1> QED
    BY <1>1, <1>2

\* A new event of an action a process knows is in order, once its cause is.
LEMMA LaterEvent ==
    ASSUME Types, Stored, UsedIds # EventIds,
           NEW p \in Processes, NEW a \in ActionIds, mem[p].status[a] # NoValue,
           NEW type \in LaterTypes, NEW stage \in {"lifecycle", "execution"},
           stage = "execution" => type = "precondition_failed",
           NEW e, e = NewEvent(mem[p], a, KeyOf(mem[p], a), type, StatusAfter(type), stage),
           HasCauses(Rows \cup ElementsOf(mem[p].log[a]), a, type)
    PROVE  /\ Admissible(p, e)
           /\ e.type = type /\ e.action = a /\ e.stage = stage
           /\ e.key = mem[p].log[a][1].key
  <1> DEFINE s == mem[p].log[a]
  <1> DEFINE S == Rows \cup ElementsOf(s)
  <1>1. /\ s # <<>>
        /\ \A f \in ElementsOf(s) : f \in Event /\ f.action = a /\ f \in Everything
        /\ s[1] \in ElementsOf(s) /\ IsPolicy(s[1])
        /\ Last(s) \in ElementsOf(s)
    BY StatusIsLogged
  <1>2. FreshId \in EventIds /\ \A f \in Everything : f.id # FreshId
    BY FreshIdIsFresh
  <1>3. e = [id |-> FreshId, action |-> a, key |-> s[1].key, type |-> type,
             status |-> StatusAfter(type), stage |-> stage, prev |-> Last(s).id]
    BY <1>1 DEF NewEvent, KeyOf
  <1>4. HasCauses(S, a, type)
    OBVIOUS
  <1> HIDE DEF s
  <1>5. s[1].key \in Keys /\ Last(s).id \in EventIds
    BY <1>1 DEF Event
  <1>6. type \in {"policy_evaluated", "approval_denied"} \cup ActionStatus
        /\ StatusAfter(type) \in ActionStatus
    BY DEF LaterTypes, VerificationTypes, RefusalTypes, StatusAfter, ActionStatus,
           TERMINAL_VERIFICATION_STATUSES
  <1>7. e \in Event
    BY <1>2, <1>3, <1>5, <1>6 DEF Event
  <1>8. /\ e.id = FreshId /\ e.action = a /\ e.key = s[1].key /\ e.type = type
        /\ e.status = StatusAfter(type) /\ e.stage = stage /\ e.prev = Last(s).id
    BY <1>3
  <1>9. e.id \notin IdsOf(mem[p])
    BY <1>2, <1>8 DEF IdsOf, Everything
  <1>10. ~IsPolicy(e)
    BY <1>8 DEF IsPolicy, LaterTypes, VerificationTypes, RefusalTypes,
                TERMINAL_VERIFICATION_STATUSES
  <1>11. WellFormed(e)
    BY <1>8 DEF WellFormed
  <1>12. ASSUME NEW f \in Everything
         PROVE  Agree(e, f)
    <2>1. e.id # f.id
      BY <1>2, <1>8
    <2>2. Agree(s[1], f)
      BY <1>1 DEF Stored, EventsAgree
    <2>3. s[1].action = a
      BY <1>1
    <2> QED
      BY <1>8, <1>10, <2>1, <2>2, <2>3 DEF Agree
  <1>13. Supported(e, S)
    <2>1. \E f \in S : f.id = e.prev /\ f.action = e.action
      BY <1>1, <1>8 DEF s
    <2>2. \E f \in S : f.action = e.action /\ IsPolicy(f)
      BY <1>1, <1>8 DEF s
    <2> QED
      BY <1>8, <1>4, <2>1, <2>2 DEF Supported
  <1> QED
    BY <1>1, <1>7, <1>8, <1>9, <1>10, <1>11, <1>12, <1>13 DEF s, Admissible

\* The first event of an action nobody knows is in order.
LEMMA FirstEvent ==
    ASSUME Types, Stored, UsedIds # EventIds,
           NEW p \in Processes, NEW a \in ActionIds \ UsedActions, NEW k \in Keys,
           NEW status \in {"approval_required", "denied"},
           NEW e, e = NewEvent(mem[p], a, k, "policy_evaluated", status, "lifecycle")
    PROVE  /\ Admissible(p, e)
           /\ IsPolicy(e) /\ e.action = a /\ e.key = k
           /\ \A f \in Everything : f.action # a
  <1>1. \A q \in Processes : mem[q].status[a] = NoValue /\ mem[q].log[a] = <<>>
    BY DEF UsedActions, Stored, MemoriesFit, LogFits
  <1>2. ASSUME NEW f \in Everything
        PROVE  f.action # a
    <2>1. CASE f \in Rows
      BY <2>1 DEF UsedActions, Rows
    <2>2. CASE \E q \in Processes : f \in KnownBy(mem[q])
      <3>1. PICK q \in Processes : f \in KnownBy(mem[q])
        BY <2>2
      <3>2. PICK b \in ActionIds : \E i \in DOMAIN mem[q].log[b] : mem[q].log[b][i] = f
        BY <3>1, KnownMeansLogged
      <3>3. f.action = b
        BY <3>2 DEF Stored, MemoriesFit, LogFits
      <3> QED
        BY <1>1, <3>2, <3>3
    <2> QED
      BY <2>1, <2>2 DEF Everything
  <1>3. FreshId \in EventIds /\ \A f \in Everything : f.id # FreshId
    BY FreshIdIsFresh
  <1>4. e = [id |-> FreshId, action |-> a, key |-> k, type |-> "policy_evaluated",
             status |-> status, stage |-> "lifecycle", prev |-> NoValue]
    BY <1>1 DEF NewEvent
  <1>5. e \in Event
    BY <1>3, <1>4 DEF Event, ActionStatus
  <1>6. /\ e.id = FreshId /\ e.action = a /\ e.key = k /\ e.type = "policy_evaluated"
        /\ e.status = status /\ e.stage = "lifecycle" /\ e.prev = NoValue
    BY <1>4
  <1>7. e.id \notin IdsOf(mem[p])
    BY <1>3, <1>6 DEF IdsOf, Everything
  <1>8. WellFormed(e) /\ IsPolicy(e)
    BY <1>6 DEF WellFormed, IsPolicy
  <1>9. \A f \in Everything : Agree(e, f)
    BY <1>2, <1>3, <1>6 DEF Agree
  <1>10. \A S : Supported(e, S)
    BY <1>6, <1>8 DEF Supported, HasCauses, VerificationTypes, RefusalTypes,
                      TERMINAL_VERIFICATION_STATUSES
  <1> QED
    BY <1>1, <1>2, <1>5, <1>6, <1>7, <1>8, <1>9, <1>10 DEF Admissible

-----------------------------------------------------------------------------
(* What the steps do to the table and the memories.                        *)

LEMMA StoredStays ==
    ASSUME Stored, table' = table, mem' = mem
    PROVE  Stored'
  <1>1. Rows' = Rows
    BY DEF Rows
  <1>2. Everything' = Everything
    BY <1>1 DEF Everything
  <1>3. EventsAgree'
    BY <1>2 DEF Stored, EventsAgree
  <1>4. RowsAreSupported'
    BY DEF Stored, RowsAreSupported
  <1>5. MemoriesFit'
    BY DEF Stored, MemoriesFit
  <1>6. LogsAreSupported'
    BY <1>1 DEF Stored, LogsAreSupported
  <1> QED
    BY <1>3, <1>4, <1>5, <1>6 DEF Stored

LEMMA RestoreRowEffect ==
    ASSUME Inv, NEW th \in Threads, NEW i \in thread[th].todo,
           table' = table,
           mem' = [mem EXCEPT ![ProcessOf[th]] = Restored(@, table[i])]
    PROVE  LET p == ProcessOf[th]
               e == table[i]
           IN  /\ Stored'
               /\ \/ mem' = mem
                  \/ Learned(p, e) /\ Grows(p, e) /\ e.id \notin IdsOf(mem[p])
               /\ IsPolicy(e) \/ mem[p].status[e.action] # NoValue =>
                      e.id \in IdsOf(mem'[p])
  <1> DEFINE p == ProcessOf[th]
  <1> DEFINE e == table[i]
  <1> DEFINE m == mem[p]
  <1>1. p \in Processes /\ i \in DOMAIN table
    BY ThreadsAssumption DEF Inv, Types
  <1>2. e \in Event /\ e \in Rows /\ e \in Everything
    BY <1>1, ElementOfSeq, LenProperties DEF Inv, Types, Rows, Everything, ElementsOf
  <1>3. e.action \in ActionIds
    BY <1>2 DEF Event
  <1>4. mem' = [mem EXCEPT ![p] = Restored(m, e)]
    BY <1>1
  <1> HIDE DEF e, p
  <1>5. CASE e.id \in IdsOf(m) \/ (~IsPolicy(e) /\ m.status[e.action] = NoValue)
    <2>1. mem' = mem
      BY <1>1, <1>4, <1>5 DEF Inv, Stored, Restored, IsPolicy
    <2>2. Stored'
      BY <2>1, StoredStays DEF Inv
    <2>3. IsPolicy(e) \/ m.status[e.action] # NoValue => e.id \in IdsOf(mem'[p])
      BY <1>5, <2>1
    <2> QED
      BY <2>1, <2>2, <2>3 DEF e, p
  <1>6. CASE e.id \notin IdsOf(m) /\ (IsPolicy(e) \/ m.status[e.action] # NoValue)
    <2> DEFINE r == Recorded(m, e)
    <2>1. mem' = [mem EXCEPT ![p] = r]
      BY <1>4, <1>6 DEF Restored, IsPolicy
    <2>2. IsPolicy(e) <=> m.log[e.action] = <<>>
      <3>1. m.log[e.action] = <<>> <=> m.status[e.action] = NoValue
        BY <1>1, <1>3 DEF Inv, Stored, MemoriesFit, LogFits
      <3>2. ASSUME IsPolicy(e), m.log[e.action] # <<>>
            PROVE  FALSE
        <4> DEFINE f == m.log[e.action][1]
        <4>1. f \in ElementsOf(m.log[e.action]) /\ IsPolicy(f)
              /\ f.action = e.action /\ f \in Everything
          BY <1>1, <1>3, <3>1, <3>2, StatusIsLogged DEF Inv
        <4>2. Agree(e, f)
          BY <1>2, <4>1 DEF Inv, Stored, EventsAgree
        <4>3. e = f
          BY <3>2, <4>1, <4>2 DEF Agree
        <4>4. e.id \in IdsOf(m)
          BY <1>3, <4>1, <4>3 DEF IdsOf, KnownBy
        <4> QED
          BY <1>6, <4>4
      <3> QED
        BY <1>6, <3>1, <3>2
    <2>3. WellFormed(e) /\ \A f \in Everything : Agree(e, f)
      BY <1>2 DEF Inv, Stored, EventsAgree
    <2> HIDE DEF r
    <2>4. Admissible(p, e)
      BY <1>2, <1>6, <2>2, <2>3 DEF Admissible
    <2>5. Stored' /\ Learned(p, e)
      BY <1>1, <2>1, <2>4, LearningKeepsStored DEF Inv, r
    <2>6. e.id \in IdsOf(mem'[p])
      BY <2>5 DEF IdsOf, Learned
    <2>7. Grows(p, e)
      BY <1>1, <1>2, <2>1, LogGrows DEF Inv, r
    <2> QED
      BY <1>6, <2>5, <2>6, <2>7 DEF e, p
  <1> QED
    BY <1>5, <1>6

\* What a handler records of an action its process knows.
LEMMA RecordEffect ==
    ASSUME Inv, NEW th \in Threads, NEW a \in ActionIds, NEW type \in LaterTypes,
           MemoryOf(th).status[a] # NoValue,
           HasCauses(Rows \cup ElementsOf(MemoryOf(th).log[a]), a, type),
           Record(th, a, type), table' = table
    PROVE  /\ Stored'
           /\ \E e \in Event :
                 /\ Learned(ProcessOf[th], e) /\ Adds(ProcessOf[th], e)
                 /\ e.type = type /\ e.stage = "lifecycle"
                 /\ e.action = a /\ e.key = KeyOf(MemoryOf(th), a)
  <1> DEFINE p == ProcessOf[th]
  <1> DEFINE e == NewEvent(mem[p], a, KeyOf(mem[p], a), type, StatusAfter(type), "lifecycle")
  <1> DEFINE r == Recorded(mem[p], e)
  <1>1. p \in Processes
    BY ThreadsAssumption
  <1>2. mem' = [mem EXCEPT ![p] = r] /\ UsedIds # EventIds
    BY DEF Record, MemoryOf
  <1> HIDE DEF e
  <1>5. /\ Admissible(p, e)
        /\ e.type = type /\ e.action = a /\ e.stage = "lifecycle"
        /\ e.key = mem[p].log[a][1].key
    <2>1. e = NewEvent(mem[p], a, KeyOf(mem[p], a), type, StatusAfter(type), "lifecycle")
      BY DEF e
    <2>2. Types /\ Stored /\ mem[p].status[a] # NoValue
          /\ HasCauses(Rows \cup ElementsOf(mem[p].log[a]), a, type)
      BY DEF Inv, MemoryOf
    <2> HIDE DEF p
    <2>3. \A x : x = NewEvent(mem[p], a, KeyOf(mem[p], a), type, StatusAfter(type),
                             "lifecycle") =>
             /\ Admissible(p, x)
             /\ x.type = type /\ x.action = a /\ x.stage = "lifecycle"
             /\ x.key = mem[p].log[a][1].key
      BY <1>1, <1>2, <2>2, LaterEvent
    <2> QED
      BY <2>1, <2>3
  <1> HIDE DEF r
  <1>6. Stored' /\ Learned(p, e)
    <2>1. r = Recorded(mem[p], e)
      BY DEF r
    <2> QED
      BY <1>1, <1>2, <1>5, <2>1, LearningKeepsStored DEF Inv, MemoryOf
  <1>7. Adds(p, e)
    <2>1. r = Recorded(mem[p], e)
      BY DEF r
    <2>2. Grows(p, e)
      BY <1>1, <1>2, <1>5, <2>1, LogGrows DEF Inv, Admissible
    <2>3. e.id = FreshId
      BY DEF e, NewEvent
    <2> QED
      BY <1>2, <2>2, <2>3, FreshIdIsFresh DEF Inv, Adds
  <1> QED
    BY <1>5, <1>6, <1>7 DEF KeyOf, MemoryOf, Admissible

LEMMA IneligibleEffect ==
    ASSUME Inv, NEW th \in Threads, NEW a \in ActionIds, ExecuteIneligible(th, a)
    PROVE  /\ Stored'
           /\ \E e \in Event :
                 /\ Learned(ProcessOf[th], e) /\ Adds(ProcessOf[th], e)
                 /\ e.type = "precondition_failed" /\ e.stage = "execution"
                 /\ e.action = a /\ e.key = KeyOf(MemoryOf(th), a)
  <1> DEFINE p == ProcessOf[th]
  <1> DEFINE type == "precondition_failed"
  <1> DEFINE e == NewEvent(mem[p], a, KeyOf(mem[p], a), type, type, "execution")
  <1> DEFINE r == Logged(mem[p], e)
  <1>1. p \in Processes
    BY ThreadsAssumption
  <1>2. /\ mem' = [mem EXCEPT ![p] = r] /\ UsedIds # EventIds /\ table' = table
        /\ mem[p].status[a] # NoValue
    BY AbsentIsNone DEF ExecuteIneligible, MayExecute, MemoryOf, ActionStatus
  <1>3. type \in LaterTypes /\ type \notin VerificationTypes /\ StatusAfter(type) = type
        /\ type # "provider_accepted" /\ type \notin {"approved"} \cup RefusalTypes
    BY DEF LaterTypes, VerificationTypes, RefusalTypes, StatusAfter,
           TERMINAL_VERIFICATION_STATUSES
  <1> HIDE DEF e
  <1>4. /\ Admissible(p, e)
        /\ e.type = type /\ e.action = a /\ e.stage = "execution"
        /\ e.key = mem[p].log[a][1].key
    <2>1. e = NewEvent(mem[p], a, KeyOf(mem[p], a), type, StatusAfter(type), "execution")
      BY <1>3 DEF e
    <2>2. Types /\ Stored
      BY DEF Inv
    <2>3. HasCauses(Rows \cup ElementsOf(mem[p].log[a]), a, type)
      BY <1>3 DEF HasCauses
    <2> HIDE DEF p, type
    <2>4. \A stage \in {"lifecycle", "execution"} :
             \A x : x = NewEvent(mem[p], a, KeyOf(mem[p], a), type, StatusAfter(type), stage) =>
                /\ Admissible(p, x)
                /\ x.type = type /\ x.action = a /\ x.stage = stage
                /\ x.key = mem[p].log[a][1].key
      <3>1. type = "precondition_failed"
        BY DEF type
      <3> QED
        BY <1>1, <1>2, <1>3, <2>2, <2>3, <3>1, LaterEvent
    <2> QED
      BY <2>1, <2>4
  <1> HIDE DEF r
  <1>5. Stored' /\ Learned(p, e)
    <2>1. r = Logged(mem[p], e)
      BY DEF r
    <2> QED
      BY <1>1, <1>2, <1>4, <2>1, LearningKeepsStored DEF Inv
  <1>6. Adds(p, e)
    <2>1. r = Logged(mem[p], e)
      BY DEF r
    <2>2. mem[p].log[e.action] # <<>>
      BY <1>1, <1>2, <1>4 DEF Inv, Stored, MemoriesFit, LogFits
    <2>3. Grows(p, e)
      BY <1>1, <1>2, <1>4, <2>1, <2>2, LogGrows DEF Inv, Admissible
    <2>4. e.id = FreshId
      BY DEF e, NewEvent
    <2> QED
      BY <1>2, <2>3, <2>4, FreshIdIsFresh DEF Inv, Adds
  <1> QED
    BY <1>2, <1>4, <1>5, <1>6 DEF KeyOf, MemoryOf, Admissible

LEMMA ProposeEffect ==
    ASSUME Inv, NEW th \in Threads, NEW k \in Keys, Propose(th, k)
    PROVE  /\ Stored'
           /\ \E e \in Event :
                 /\ Learned(ProcessOf[th], e) /\ Adds(ProcessOf[th], e)
                 /\ IsPolicy(e) /\ e.key = k
                 /\ Saving(th, e.action)
                 /\ \A f \in Everything : f.action # e.action
  <1> DEFINE p == ProcessOf[th]
  <1>1. p \in Processes
    BY ThreadsAssumption
  <1>2. PICK a \in ActionIds \ UsedActions, status \in {"approval_required", "denied"} :
            /\ mem' = [mem EXCEPT ![p] = Recorded(mem[p],
                   NewEvent(mem[p], a, k, "policy_evaluated", status, "lifecycle"))]
            /\ Saving(th, a)
    BY DEF Propose, MemoryOf
  <1> DEFINE e == NewEvent(mem[p], a, k, "policy_evaluated", status, "lifecycle")
  <1> DEFINE r == Recorded(mem[p], e)
  <1>3. mem' = [mem EXCEPT ![p] = r] /\ UsedIds # EventIds /\ table' = table
    BY <1>2 DEF Propose
  <1> HIDE DEF e
  <1>4. /\ Admissible(p, e)
        /\ IsPolicy(e) /\ e.action = a /\ e.key = k
        /\ \A f \in Everything : f.action # a
    BY <1>1, <1>3, FirstEvent DEF Inv, e
  <1> HIDE DEF r
  <1>5. Stored' /\ Learned(p, e)
    <2>1. r = Recorded(mem[p], e)
      BY DEF r
    <2> QED
      BY <1>1, <1>3, <1>4, <2>1, LearningKeepsStored DEF Inv
  <1>6. Adds(p, e)
    <2>1. r = Recorded(mem[p], e)
      BY DEF r
    <2>2. Grows(p, e)
      BY <1>1, <1>3, <1>4, <2>1, LogGrows DEF Inv, Admissible
    <2>3. e.id = FreshId
      BY DEF e, NewEvent
    <2> QED
      BY <1>3, <2>2, <2>3, FreshIdIsFresh DEF Inv, Adds
  <1> QED
    BY <1>2, <1>3, <1>4, <1>5, <1>6 DEF Admissible

-----------------------------------------------------------------------------
(* Every step preserves the invariant.                                     *)

ThreadState(n) ==
    [phase : {"idle", "ready", "calling", "saving"}, action : ActionIds \cup {NoValue},
     todo : SUBSET (1..n), upto : 0..n]

\* Nothing is forgotten: not a row, and not what a process knows.
NothingIsForgotten ==
    /\ Len(table) <= Len(table')
    /\ \A q \in Processes : KnownBy(mem[q]) \subseteq KnownBy(mem'[q])

LEMMA LearningForgetsNothing ==
    ASSUME Inv, NEW p \in Processes, NEW e, Learned(p, e)
    PROVE  NothingIsForgotten
  <1>1. Len(table) \in Nat
    BY LenProperties DEF Inv, Types
  <1> QED
    BY <1>1 DEF NothingIsForgotten, Learned

LEMMA StandingForgetsNothing ==
    ASSUME Inv, table' = table, mem' = mem
    PROVE  Stored' /\ NothingIsForgotten
  <1>1. Len(table) \in Nat
    BY LenProperties DEF Inv, Types
  <1>2. Stored'
    BY StoredStays DEF Inv
  <1> QED
    BY <1>1, <1>2 DEF NothingIsForgotten

LEMMA ThreadFits ==
    ASSUME Inv, NEW th \in Threads
    PROVE  /\ thread[th] \in ThreadState(Len(table))
           /\ ProcessOf[th] \in Processes
           /\ MemoryOf(th) \in Memory
           /\ Len(table) \in Nat /\ DOMAIN table = 1..Len(table)
  <1>1. Len(table) \in Nat /\ DOMAIN table = 1..Len(table)
    BY LenProperties DEF Inv, Types
  <1>2. ProcessOf[th] \in Processes
    BY ThreadsAssumption
  <1> QED
    BY <1>1, <1>2 DEF Inv, Types, ThreadState, MemoryOf

\* A thread takes a step, and nothing is forgotten.
LEMMA ThreadMoves ==
    ASSUME Inv, Stored', NothingIsForgotten,
           NEW th \in Threads, NEW u \in ThreadState(Len(table')),
           thread' = [thread EXCEPT ![th] = u],
           u.phase \in {"calling", "saving"} => u.action \in ActionIds,
           u.phase = "calling" =>
               \E e \in KnownBy(mem'[ProcessOf[th]]) :
                   e.action = u.action /\ e.type = "approved",
           effects' \in [Keys -> Nat]
    PROVE  Inv'
  <1> DEFINE n == Len(table)
  <1> DEFINE k == Len(table')
  <1>1. /\ n \in Nat /\ DOMAIN table = 1..n
        /\ k \in Nat /\ DOMAIN table' = 1..k
        /\ n <= k
    BY LenProperties DEF Inv, Types, Stored, NothingIsForgotten
  <1>2. \A t \in Threads : thread[t] \in ThreadState(n)
    BY ThreadFits
  <1> HIDE DEF n, k
  <1>3. ThreadState(n) \subseteq ThreadState(k)
    <2>1. 1..n \subseteq 1..k /\ 0..n \subseteq 0..k
      BY <1>1
    <2> QED
      BY <2>1 DEF ThreadState
  <1>4. thread \in [Threads -> ThreadState(n)]
    BY DEF Inv, Types, n, ThreadState, LenProperties
  <1>5. thread' \in [Threads -> ThreadState(k)]
    BY <1>3, <1>4 DEF k
  <1>6. Types'
    BY <1>1, <1>5 DEF Types, Stored, ThreadState
  <1>7. /\ thread'[th] = u
        /\ \A t \in Threads \ {th} : thread'[t] = thread[t]
    BY <1>4
  <1>8. ThreadsFit'
    <2>1. ASSUME NEW t \in Threads
          PROVE  /\ thread'[t].phase \in {"calling", "saving"} => thread'[t].action \in ActionIds
                 /\ thread'[t].phase = "calling" =>
                      \E e \in KnownBy(mem'[ProcessOf[t]]) :
                          e.action = thread'[t].action /\ e.type = "approved"
      <3>1. CASE t = th
        BY <1>7, <3>1
      <3>2. CASE t # th
        <4>1. ProcessOf[t] \in Processes
          BY ThreadsAssumption
        <4> QED
          BY <1>7, <3>2, <4>1 DEF Inv, ThreadsFit, MemoryOf, NothingIsForgotten
      <3> QED
        BY <3>1, <3>2
    <2> QED
      BY <2>1 DEF ThreadsFit, MemoryOf
  <1> QED
    BY <1>6, <1>8 DEF Inv

\* The states a thread is in between its steps.
ReadyAgain == [Idle EXCEPT !.phase = "ready"]
SavingOf(a) == [Idle EXCEPT !.phase = "saving", !.action = a]

LEMMA IdleIsState ==
    ASSUME NEW n \in Nat
    PROVE  /\ Idle \in ThreadState(n) /\ Idle.phase = "idle"
           /\ ReadyAgain \in ThreadState(n) /\ ReadyAgain.phase = "ready"
           /\ ReadyAgain.todo = {} /\ ReadyAgain.upto = 0 /\ Idle.todo = {}
           /\ \A a \in ActionIds :
                SavingOf(a) \in ThreadState(n) /\ SavingOf(a).phase = "saving"
                /\ SavingOf(a).action = a /\ SavingOf(a).todo = {}
  <1>1. 0 \in 0..n
    OBVIOUS
  <1>2. Idle \in ThreadState(n) /\ Idle.phase = "idle" /\ Idle.todo = {}
    BY <1>1 DEF Idle, ThreadState
  <1>3. ReadyAgain = [phase |-> "ready", action |-> NoValue, todo |-> {}, upto |-> 0]
    BY DEF Idle, ReadyAgain
  <1>4. ReadyAgain \in ThreadState(n)
    BY <1>1, <1>3 DEF ThreadState
  <1>5. ASSUME NEW a \in ActionIds
        PROVE  /\ SavingOf(a) \in ThreadState(n) /\ SavingOf(a).phase = "saving"
               /\ SavingOf(a).action = a /\ SavingOf(a).todo = {}
    <2>1. SavingOf(a) = [phase |-> "saving", action |-> a, todo |-> {}, upto |-> 0]
      <3>1. [Idle EXCEPT !.phase = "saving"] =
                [phase |-> "saving", action |-> NoValue, todo |-> {}, upto |-> 0]
        BY DEF Idle
      <3>2. [[phase |-> "saving", action |-> NoValue, todo |-> {}, upto |-> 0]
                EXCEPT !.action = a] =
                [phase |-> "saving", action |-> a, todo |-> {}, upto |-> 0]
        OBVIOUS
      <3>3. SavingOf(a) = [[Idle EXCEPT !.phase = "saving"] EXCEPT !.action = a]
        BY DEF SavingOf
      <3> QED
        BY <3>1, <3>2, <3>3
    <2> QED
      BY <1>1, <2>1 DEF ThreadState
  <1> QED
    BY <1>2, <1>3, <1>4, <1>5

\* The key of an action a process knows is a key.
LEMMA KeyOfKnown ==
    ASSUME Inv, NEW p \in Processes, NEW a \in ActionIds, mem[p].status[a] # NoValue
    PROVE  KeyOf(mem[p], a) \in Keys
  <1>1. mem[p].log[a][1] \in Event
    BY StatusIsLogged DEF Inv
  <1> QED
    BY <1>1 DEF KeyOf, Event

\* What a thread that waits for the provider knows of its action.
LEMMA CallingKnows ==
    ASSUME Inv, NEW th \in Threads, thread[th].phase = "calling"
    PROVE  LET a == thread[th].action IN
           /\ a \in ActionIds
           /\ MemoryOf(th).status[a] # NoValue
           /\ Cause(Rows \cup ElementsOf(MemoryOf(th).log[a]), a, "approved", "approved")
           /\ KeyOf(MemoryOf(th), a) \in Keys
  <1> DEFINE a == thread[th].action
  <1> DEFINE p == ProcessOf[th]
  <1> DEFINE S == Rows \cup ElementsOf(mem[p].log[a])
  <1>1. a \in ActionIds /\ p \in Processes
    BY ThreadsAssumption DEF Inv, ThreadsFit
  <1>2. PICK e \in KnownBy(mem[p]) : e.action = a /\ e.type = "approved"
    BY DEF Inv, ThreadsFit, MemoryOf
  <1>3. PICK b \in ActionIds : \E i \in DOMAIN mem[p].log[b] : mem[p].log[b][i] = e
    BY <1>2, KnownMeansLogged
  <1>4. b = a
    BY <1>1, <1>2, <1>3 DEF Inv, Stored, MemoriesFit, LogFits
  <1> HIDE DEF a, p
  <1>5. e \in ElementsOf(mem[p].log[a])
    BY <1>3, <1>4 DEF ElementsOf
  <1>6. mem[p].status[a] # NoValue
    <2>1. mem[p].log[a] # <<>>
      BY <1>3, <1>4
    <2> QED
      BY <1>1, <2>1 DEF Inv, Stored, MemoriesFit, LogFits
  <1>7. WellFormed(e)
    BY <1>1, <1>5, <1>6, StatusIsLogged DEF Inv
  <1>8. e.status = "approved"
    BY <1>2, <1>7, StatusOfEvent
  <1>9. Cause(S, a, "approved", "approved")
    BY <1>2, <1>5, <1>8 DEF Cause
  <1>10. KeyOf(mem[p], a) \in Keys
    BY <1>1, <1>6, KeyOfKnown
  <1> QED
    BY <1>1, <1>6, <1>9, <1>10 DEF a, p, MemoryOf

\* A thread that has just asked for the rows, and one that calls the provider.
Loaded(th) ==
    [Idle EXCEPT !.phase = "ready", !.upto = Len(table), !.todo = News(th)]
CallingFor(th, a) == [thread[th] EXCEPT !.phase = "calling", !.action = a]
Without(th, i) == [thread[th] EXCEPT !.todo = @ \ {i}]

LEMMA StatesOfThreads ==
    ASSUME Inv, NEW th \in Threads
    PROVE  LET n == Len(table) IN
           /\ Loaded(th) \in ThreadState(n)
           /\ Loaded(th).phase = "ready" /\ Loaded(th).todo = News(th)
           /\ Loaded(th).upto = n
           /\ \A a \in ActionIds :
                /\ CallingFor(th, a) \in ThreadState(n)
                /\ CallingFor(th, a).phase = "calling"
                /\ CallingFor(th, a).action = a
                /\ CallingFor(th, a).upto = thread[th].upto
                /\ CallingFor(th, a).todo = thread[th].todo
           /\ \A i : /\ Without(th, i) \in ThreadState(n)
                     /\ Without(th, i).phase = thread[th].phase
                     /\ Without(th, i).action = thread[th].action
                     /\ Without(th, i).upto = thread[th].upto
                     /\ Without(th, i).todo = thread[th].todo \ {i}
  <1> DEFINE n == Len(table)
  <1>1. n \in Nat /\ DOMAIN table = 1..n /\ thread[th] \in ThreadState(n)
    BY ThreadFits
  <1>2. News(th) \subseteq 1..n /\ n \in 0..n
    BY <1>1 DEF News
  <1> HIDE DEF n
  <1>3. Loaded(th) = [phase |-> "ready", action |-> NoValue,
                      todo |-> News(th), upto |-> n]
    <2>1. [Idle EXCEPT !.phase = "ready"] =
              [phase |-> "ready", action |-> NoValue, todo |-> {}, upto |-> 0]
      BY DEF Idle
    <2>2. [[phase |-> "ready", action |-> NoValue, todo |-> {}, upto |-> 0]
              EXCEPT !.upto = n] =
              [phase |-> "ready", action |-> NoValue, todo |-> {}, upto |-> n]
      OBVIOUS
    <2>3. [[phase |-> "ready", action |-> NoValue, todo |-> {}, upto |-> n]
              EXCEPT !.todo = News(th)] =
              [phase |-> "ready", action |-> NoValue, todo |-> News(th), upto |-> n]
      OBVIOUS
    <2>4. Loaded(th) = [[[Idle EXCEPT !.phase = "ready"]
                            EXCEPT !.upto = n] EXCEPT !.todo = News(th)]
      BY DEF Loaded, n
    <2> QED
      BY <2>1, <2>2, <2>3, <2>4
  <1>4. Loaded(th) \in ThreadState(n)
    BY <1>2, <1>3 DEF ThreadState
  <1> DEFINE u == thread[th]
  <1>5. u = [phase |-> u.phase, action |-> u.action, todo |-> u.todo, upto |-> u.upto]
    BY <1>1 DEF ThreadState
  <1>6. /\ u.phase \in {"idle", "ready", "calling", "saving"}
        /\ u.action \in ActionIds \cup {NoValue}
        /\ u.todo \in SUBSET (1..n) /\ u.upto \in 0..n
    BY <1>1 DEF ThreadState
  <1>7. \A a : CallingFor(th, a) = [[u EXCEPT !.phase = "calling"] EXCEPT !.action = a]
    BY DEF CallingFor
  <1>8. \A i : Without(th, i) = [u EXCEPT !.todo = u.todo \ {i}]
    BY DEF Without
  <1> HIDE DEF u
  <1>9. ASSUME NEW a \in ActionIds
        PROVE  /\ CallingFor(th, a) \in ThreadState(n)
               /\ CallingFor(th, a).phase = "calling"
               /\ CallingFor(th, a).action = a
               /\ CallingFor(th, a).upto = u.upto
               /\ CallingFor(th, a).todo = u.todo
    <2>1. [u EXCEPT !.phase = "calling"] =
              [phase |-> "calling", action |-> u.action, todo |-> u.todo, upto |-> u.upto]
      BY <1>5
    <2>2. [[phase |-> "calling", action |-> u.action, todo |-> u.todo, upto |-> u.upto]
              EXCEPT !.action = a] =
              [phase |-> "calling", action |-> a, todo |-> u.todo, upto |-> u.upto]
      OBVIOUS
    <2>3. CallingFor(th, a) =
              [phase |-> "calling", action |-> a, todo |-> u.todo, upto |-> u.upto]
      BY <1>7, <2>1, <2>2
    <2> QED
      BY <1>6, <2>3 DEF ThreadState
  <1>10. ASSUME NEW i
         PROVE  /\ Without(th, i) \in ThreadState(n)
                /\ Without(th, i).phase = u.phase
                /\ Without(th, i).action = u.action
                /\ Without(th, i).upto = u.upto
                /\ Without(th, i).todo = u.todo \ {i}
    <2>1. Without(th, i) = [phase |-> u.phase, action |-> u.action,
                            todo |-> u.todo \ {i}, upto |-> u.upto]
      BY <1>5, <1>8
    <2> QED
      BY <1>6, <2>1 DEF ThreadState
  <1> QED
    BY <1>3, <1>4, <1>9, <1>10 DEF n, u

\* The steps that leave the table and the memories alone.
LEMMA ThreadStep ==
    ASSUME Inv, NEW th \in Threads, table' = table, mem' = mem,
           effects' \in [Keys -> Nat],
           \/ Load(th)
           \/ thread' = [thread EXCEPT ![th] = Idle]
           \/ thread' = [thread EXCEPT ![th] = ReadyAgain]
           \/ \E a \in ActionIds : Saving(th, a)
           \/ \E a \in ActionIds : ExecuteStart(th, a)
    PROVE  Inv'
  <1>1. Stored' /\ NothingIsForgotten /\ Len(table) \in Nat
    BY StandingForgetsNothing, ThreadFits
  <1>2. CASE Load(th)
    <2> DEFINE u == Loaded(th)
    <2>1. thread' = [thread EXCEPT ![th] = u]
      BY <1>2 DEF Load, Loaded
    <2>2. u \in ThreadState(Len(table')) /\ u.phase = "ready"
      BY StatesOfThreads
    <2> HIDE DEF u
    <2> QED
      BY <1>1, <2>1, <2>2, ThreadMoves
  <1>3. CASE thread' = [thread EXCEPT ![th] = Idle]
    <2>1. Idle \in ThreadState(Len(table')) /\ Idle.phase = "idle"
      BY <1>1, IdleIsState
    <2> QED
      BY <1>1, <1>3, <2>1, ThreadMoves
  <1>4. CASE thread' = [thread EXCEPT ![th] = ReadyAgain]
    <2>1. ReadyAgain \in ThreadState(Len(table')) /\ ReadyAgain.phase = "ready"
      BY <1>1, IdleIsState
    <2> QED
      BY <1>1, <1>4, <2>1, ThreadMoves
  <1>5. CASE \E a \in ActionIds : Saving(th, a)
    <2>1. PICK a \in ActionIds : thread' = [thread EXCEPT ![th] = SavingOf(a)]
      BY <1>5 DEF Saving, SavingOf
    <2>2. /\ SavingOf(a) \in ThreadState(Len(table'))
          /\ SavingOf(a).phase = "saving" /\ SavingOf(a).action = a
      BY <1>1, IdleIsState
    <2> QED
      BY <1>1, <2>1, <2>2, ThreadMoves
  <1>6. CASE \E a \in ActionIds : ExecuteStart(th, a)
    <2>1. PICK a \in ActionIds : ExecuteStart(th, a)
      BY <1>6
    <2> DEFINE u == CallingFor(th, a)
    <2> DEFINE p == ProcessOf[th]
    <2>2. thread' = [thread EXCEPT ![th] = u]
      <3>1. thread \in [Threads -> ThreadState(Len(table))]
        BY ThreadFits DEF Inv, Types
      <3>2. thread' = [thread EXCEPT ![th].phase = "calling", ![th].action = a]
        BY <2>1 DEF ExecuteStart
      <3> QED
        BY <3>1, <3>2 DEF CallingFor
    <2>3. u \in ThreadState(Len(table')) /\ u.phase = "calling" /\ u.action = a
      BY StatesOfThreads
    <2>4. p \in Processes /\ mem[p].status[a] = "approved"
      BY <2>1, ThreadsAssumption DEF ExecuteStart, MayExecute, MemoryOf
    <2>5. mem[p].status[a] # NoValue
      BY <2>4, AbsentIsNone DEF ActionStatus
    <2> HIDE DEF u, p
    <2>6. PICK e \in ElementsOf(mem[p].log[a]) : e.status = "approved"
      BY <2>4, <2>5, StatusIsLogged DEF Inv
    <2>7. e.action = a /\ WellFormed(e)
      BY <2>4, <2>5, <2>6, StatusIsLogged DEF Inv
    <2>8. e.type = "approved"
      BY <2>6, <2>7, StatusOfEvent
    <2>9. e \in KnownBy(mem'[p])
      BY <2>6 DEF KnownBy
    <2> QED
      BY <1>1, <2>2, <2>3, <2>7, <2>8, <2>9, ThreadMoves DEF p
  <1> QED
    BY <1>2, <1>3, <1>4, <1>5, <1>6

\* The steps by which a process learns.
LEMMA LearningStep ==
    ASSUME Inv, Stored', NEW th \in Threads, NEW e, Learned(ProcessOf[th], e),
           effects' \in [Keys -> Nat],
           \/ thread' = [thread EXCEPT ![th] = Idle]
           \/ \E a \in ActionIds : Saving(th, a)
    PROVE  Inv'
  <1>1. NothingIsForgotten
    BY LearningForgetsNothing, ThreadFits
  <1>2. Len(table') \in Nat
    BY ThreadFits DEF Learned
  <1>3. CASE thread' = [thread EXCEPT ![th] = Idle]
    <2>1. Idle \in ThreadState(Len(table')) /\ Idle.phase = "idle"
      BY <1>2, IdleIsState
    <2> QED
      BY <1>1, <1>3, <2>1, ThreadMoves
  <1>4. CASE \E a \in ActionIds : Saving(th, a)
    <2>1. PICK a \in ActionIds : thread' = [thread EXCEPT ![th] = SavingOf(a)]
      BY <1>4 DEF Saving, SavingOf
    <2>2. /\ SavingOf(a) \in ThreadState(Len(table'))
          /\ SavingOf(a).phase = "saving" /\ SavingOf(a).action = a
      BY <1>2, IdleIsState
    <2> QED
      BY <1>1, <2>1, <2>2, ThreadMoves
  <1> QED
    BY <1>3, <1>4

LEMMA RestoreRowStep ==
    ASSUME Inv, NEW th \in Threads, RestoreRow(th)
    PROVE  Inv'
  <1> DEFINE p == ProcessOf[th]
  <1>1. PICK i \in thread[th].todo :
            /\ thread' = [thread EXCEPT ![th].todo = @ \ {i}]
            /\ mem' = [mem EXCEPT ![ProcessOf[th]] = Restored(@, table[i])]
            /\ table' = table /\ effects' = effects
    BY DEF RestoreRow
  <1> DEFINE u == Without(th, i)
  <1>2. Stored' /\ (mem' = mem \/ Learned(p, table[i])) /\ p \in Processes
    BY <1>1, RestoreRowEffect, ThreadFits
  <1>3. NothingIsForgotten
    BY <1>1, <1>2, StandingForgetsNothing, LearningForgetsNothing
  <1>4. /\ u \in ThreadState(Len(table')) /\ u.phase = thread[th].phase
        /\ u.action = thread[th].action
    BY <1>1, StatesOfThreads
  <1>5. thread' = [thread EXCEPT ![th] = u]
    <2>1. thread \in [Threads -> ThreadState(Len(table))]
      BY ThreadFits DEF Inv, Types
    <2> QED
      BY <1>1, <2>1 DEF Without
  <1>6. u.phase = "calling" =>
            \E e \in KnownBy(mem'[p]) : e.action = u.action /\ e.type = "approved"
    BY <1>2, <1>3, <1>4 DEF Inv, ThreadsFit, MemoryOf, NothingIsForgotten
  <1>7. u.phase \in {"calling", "saving"} => u.action \in ActionIds
    BY <1>4 DEF Inv, ThreadsFit
  <1>8. effects' \in [Keys -> Nat]
    BY <1>1 DEF Inv, Types
  <1> HIDE DEF u
  <1> QED
    BY <1>2, <1>3, <1>4, <1>5, <1>6, <1>7, <1>8, ThreadMoves

\* What a save does to the table.
LEMMA SaveEffect ==
    ASSUME Inv, NEW th \in Threads, Save(th)
    PROVE  LET a == thread[th].action
               p == ProcessOf[th]
           IN  /\ a \in ActionIds
               /\ Stored' /\ mem' = mem
               /\ Len(table) <= Len(table')
               /\ \A i \in DOMAIN table : i \in DOMAIN table' /\ table'[i] = table[i]
               /\ Rows' = Rows \cup {e \in KnownBy(mem[p]) : e.action = a}
  <1> DEFINE a == thread[th].action
  <1> DEFINE p == ProcessOf[th]
  <1>1. a \in ActionIds /\ p \in Processes
    BY ThreadsAssumption DEF Inv, ThreadsFit, Save
  <1>2. /\ table' = table \o EventsAt(mem[p].log[a],
               {n \in DOMAIN mem[p].log[a] : mem[p].log[a][n].id \notin RowIds})
        /\ mem' = mem
    BY DEF Save, LogAtHand, Unsaved, MemoryOf
  <1>3. Stored
    BY DEF Inv
  <1> HIDE DEF a, p
  <1>4. /\ Stored'
        /\ Len(table) <= Len(table')
        /\ \A i \in DOMAIN table : i \in DOMAIN table' /\ table'[i] = table[i]
        /\ Rows' = Rows \cup {e \in KnownBy(mem[p]) : e.action = a}
    BY <1>1, <1>2, <1>3, SavingKeepsStored
  <1> QED
    BY <1>1, <1>2, <1>4 DEF a, p

LEMMA SaveStep ==
    ASSUME Inv, NEW th \in Threads, Save(th)
    PROVE  Inv'
  <1>1. Stored' /\ mem' = mem /\ Len(table) <= Len(table')
    BY SaveEffect
  <1>2. NothingIsForgotten
    BY <1>1 DEF NothingIsForgotten
  <1>3. Len(table') \in Nat
    BY <1>1, LenProperties DEF Stored
  <1>4. PICK u \in {Idle, ReadyAgain} : thread' = [thread EXCEPT ![th] = u]
    BY DEF Save, AfterSaving, ReadyAgain
  <1>5. u \in ThreadState(Len(table')) /\ u.phase \in {"idle", "ready"}
    BY <1>3, <1>4, IdleIsState
  <1>6. effects' \in [Keys -> Nat]
    BY DEF Save, Inv, Types
  <1> QED
    BY <1>1, <1>2, <1>4, <1>5, <1>6, ThreadMoves

LEMMA CrashStep ==
    ASSUME Inv, NEW p \in Processes, Crash(p)
    PROVE  Inv'
  <1>1. /\ Stored' /\ KnownBy(mem'[p]) = {} /\ table' = table
        /\ \A q \in Processes \ {p} : mem'[q] = mem[q]
    BY CrashKeepsStored DEF Inv, Crash
  <1>2. thread' = [th \in Threads |-> IF ProcessOf[th] = p THEN Idle ELSE thread[th]]
    BY DEF Crash
  <1>3. \A th \in Threads : thread'[th] \in ThreadState(Len(table'))
    BY <1>1, <1>2, ThreadFits, IdleIsState
  <1>4. effects' \in [Keys -> Nat]
    <2>1. PICK applied \in SUBSET {th \in Threads :
                             ProcessOf[th] = p /\ thread[th].phase = "calling"} :
              effects' = [k \in Keys |-> effects[k] + Cardinality(
                 {th \in applied : KeyOf(MemoryOf(th), thread[th].action) = k})]
      BY DEF Crash
    <2>2. ASSUME NEW k \in Keys
          PROVE  Cardinality({th \in applied :
                     KeyOf(MemoryOf(th), thread[th].action) = k}) \in Nat
      <3> DEFINE T == {th \in applied : KeyOf(MemoryOf(th), thread[th].action) = k}
      <3>1. T \in SUBSET Threads
        OBVIOUS
      <3> HIDE DEF T
      <3>2. IsFiniteSet(T)
        BY <3>1, ThreadsAssumption, FS_Subset
      <3> QED
        BY <3>2, FS_CardinalityType DEF T
    <2> DEFINE more(k) == Cardinality({th \in applied :
                              KeyOf(MemoryOf(th), thread[th].action) = k})
    <2>3. effects' = [k \in Keys |-> effects[k] + more(k)]
      BY <2>1
    <2>4. \A k \in Keys : more(k) \in Nat /\ effects[k] \in Nat
      BY <2>2 DEF Inv, Types
    <2> HIDE DEF more
    <2>5. \A k \in Keys : effects[k] + more(k) \in Nat
      BY <2>4
    <2> QED
      BY <2>3, <2>5
  <1>5. Types'
    <2>1. Len(table') \in Nat /\ DOMAIN table' = 1..Len(table')
      BY <1>1, ThreadFits, LenProperties DEF Stored
    <2>2. thread' \in [Threads -> ThreadState(Len(table'))]
      BY <1>2, <1>3
    <2> QED
      BY <1>1, <1>4, <2>1, <2>2 DEF Types, ThreadState, Stored
  <1>6. ThreadsFit'
    <2>1. ASSUME NEW th \in Threads
          PROVE  /\ thread'[th].phase \in {"calling", "saving"} => thread'[th].action \in ActionIds
                 /\ thread'[th].phase = "calling" =>
                      \E e \in KnownBy(mem'[ProcessOf[th]]) :
                          e.action = thread'[th].action /\ e.type = "approved"
      <3>1. CASE ProcessOf[th] = p
        <4>1. thread'[th].phase = "idle"
          BY <1>2, <3>1 DEF Idle
        <4> QED
          BY <4>1
      <3>2. CASE ProcessOf[th] # p
        <4>1. thread'[th] = thread[th] /\ mem'[ProcessOf[th]] = mem[ProcessOf[th]]
          BY <1>1, <1>2, <3>2, ThreadsAssumption
        <4> QED
          BY <4>1 DEF Inv, ThreadsFit, MemoryOf
      <3> QED
        BY <3>1, <3>2
    <2> QED
      BY <2>1 DEF ThreadsFit, MemoryOf
  <1> QED
    BY <1>1, <1>5, <1>6 DEF Inv

DecisionTypes == {"approval_denied", "precondition_failed", "approved", "rejected"}

LEMMA DecisionEffect ==
    ASSUME Inv, NEW th \in Threads, NEW a \in ActionIds,
           Approve(th, a) \/ Reject(th, a)
    PROVE  /\ Stored' /\ Saving(th, a)
           /\ \E e \in Event :
                 /\ Learned(ProcessOf[th], e) /\ Adds(ProcessOf[th], e)
                 /\ e.type \in DecisionTypes /\ e.stage = "lifecycle"
                 /\ e.action = a /\ e.key = KeyOf(MemoryOf(th), a)
  <1> DEFINE p == ProcessOf[th]
  <1>1. PICK type \in DecisionTypes : Record(th, a, type)
    BY DEF Approve, Reject, DecisionTypes
  <1>2. table' = table /\ MemoryOf(th).status[a] = "approval_required" /\ Saving(th, a)
    BY DEF Approve, Reject
  <1>3. p \in Processes /\ MemoryOf(th) = mem[p]
    BY ThreadsAssumption DEF MemoryOf
  <1>4. MemoryOf(th).status[a] # NoValue
    BY <1>2, AbsentIsNone DEF ActionStatus
  <1>5. Cause(Rows \cup ElementsOf(MemoryOf(th).log[a]), a,
              "policy_evaluated", "approval_required")
    BY <1>2, <1>3, StatusHasCause DEF Inv
  <1>6. type \in LaterTypes /\ type \notin VerificationTypes /\ type # "provider_accepted"
    BY <1>1 DEF DecisionTypes, LaterTypes, VerificationTypes, RefusalTypes,
                TERMINAL_VERIFICATION_STATUSES
  <1>7. HasCauses(Rows \cup ElementsOf(MemoryOf(th).log[a]), a, type)
    BY <1>5, <1>6 DEF HasCauses
  <1>8. /\ Stored'
        /\ \E e \in Event : /\ Learned(ProcessOf[th], e) /\ Adds(ProcessOf[th], e)
                            /\ e.type = type /\ e.stage = "lifecycle"
                            /\ e.action = a /\ e.key = KeyOf(MemoryOf(th), a)
    BY <1>1, <1>2, <1>4, <1>6, <1>7, RecordEffect
  <1> QED
    BY <1>1, <1>2, <1>8

LEMMA VerifyEffect ==
    ASSUME Inv, NEW th \in Threads, NEW a \in ActionIds, Verify(th, a)
    PROVE  /\ Stored' /\ Saving(th, a)
           /\ \E e \in Event :
                 /\ Learned(ProcessOf[th], e) /\ Adds(ProcessOf[th], e)
                 /\ e.type \in VerificationTypes /\ e.stage = "lifecycle"
                 /\ e.action = a /\ e.key = KeyOf(MemoryOf(th), a)
  <1> DEFINE p == ProcessOf[th]
  <1>1. PICK type \in VerificationTypes : Record(th, a, type)
    BY DEF Verify, VerificationTypes
  <1>2. table' = table /\ MemoryOf(th).status[a] \in VERIFIABLE_STATUSES /\ Saving(th, a)
    BY DEF Verify
  <1>3. p \in Processes /\ MemoryOf(th) = mem[p]
    BY ThreadsAssumption DEF MemoryOf
  <1>4. MemoryOf(th).status[a] # NoValue
    BY <1>2, AbsentIsNone DEF ActionStatus, VERIFIABLE_STATUSES
  <1>5. Cause(Rows \cup ElementsOf(MemoryOf(th).log[a]), a,
              "provider_accepted", "provider_accepted")
    BY <1>2, <1>3, StatusHasCause DEF Inv
  <1>6. type \in LaterTypes /\ type # "provider_accepted"
        /\ type \notin {"approved"} \cup RefusalTypes
    BY <1>1 DEF LaterTypes, VerificationTypes, RefusalTypes,
                TERMINAL_VERIFICATION_STATUSES
  <1>7. HasCauses(Rows \cup ElementsOf(MemoryOf(th).log[a]), a, type)
    BY <1>5, <1>6 DEF HasCauses
  <1>8. /\ Stored'
        /\ \E e \in Event : /\ Learned(ProcessOf[th], e) /\ Adds(ProcessOf[th], e)
                            /\ e.type = type /\ e.stage = "lifecycle"
                            /\ e.action = a /\ e.key = KeyOf(MemoryOf(th), a)
    BY <1>1, <1>2, <1>4, <1>6, <1>7, RecordEffect
  <1> QED
    BY <1>1, <1>2, <1>8

LEMMA AcceptEffect ==
    ASSUME Inv, NEW th \in Threads, ProviderAccepts(th)
    PROVE  LET a == thread[th].action IN
           /\ Stored' /\ Saving(th, a) /\ a \in ActionIds
           /\ effects' \in [Keys -> Nat]
           /\ \E e \in Event :
                 /\ Learned(ProcessOf[th], e) /\ Adds(ProcessOf[th], e)
                 /\ e.type = "provider_accepted" /\ e.stage = "lifecycle"
                 /\ e.action = a /\ e.key = KeyOf(MemoryOf(th), a)
  <1> DEFINE a == thread[th].action
  <1> DEFINE type == "provider_accepted"
  <1> DEFINE k == KeyOf(MemoryOf(th), a)
  <1>1. /\ table' = table /\ Saving(th, a) /\ Record(th, a, type)
        /\ effects' = [effects EXCEPT ![k] = @ + 1]
    BY DEF ProviderAccepts
  <1>2. /\ a \in ActionIds /\ k \in Keys
        /\ MemoryOf(th).status[a] # NoValue
        /\ Cause(Rows \cup ElementsOf(MemoryOf(th).log[a]), a, "approved", "approved")
    BY CallingKnows DEF ProviderAccepts
  <1>3. type \in LaterTypes /\ type \notin VerificationTypes
        /\ type \notin {"approved"} \cup RefusalTypes
    BY DEF LaterTypes, VerificationTypes, RefusalTypes, TERMINAL_VERIFICATION_STATUSES
  <1>4. effects' \in [Keys -> Nat]
    BY <1>1, <1>2 DEF Inv, Types
  <1> HIDE DEF a, k
  <1>5. HasCauses(Rows \cup ElementsOf(MemoryOf(th).log[a]), a, type)
    BY <1>2, <1>3 DEF HasCauses
  <1> HIDE DEF type
  <1>6. /\ Stored'
        /\ \E e \in Event : /\ Learned(ProcessOf[th], e) /\ Adds(ProcessOf[th], e)
                            /\ e.type = type /\ e.stage = "lifecycle"
                            /\ e.action = a /\ e.key = KeyOf(MemoryOf(th), a)
    BY <1>1, <1>2, <1>3, <1>5, RecordEffect
  <1> QED
    BY <1>1, <1>2, <1>4, <1>6 DEF a, type

LEMMA InvStep == Inv /\ [Next]_vars => Inv'
  <1> SUFFICES ASSUME Inv, [Next]_vars
               PROVE  Inv'
    OBVIOUS
  <1>1. effects \in [Keys -> Nat]
    BY DEF Inv, Types
  <1>2. CASE \E th \in Threads : Load(th) \/ Finish(th) \/ SaveFails(th)
    BY <1>1, <1>2, ThreadStep DEF Load, Finish, SaveFails
  <1>3. CASE \E th \in Threads : RestoreRow(th)
    BY <1>3, RestoreRowStep
  <1>4. CASE \E th \in Threads : ProviderAccepts(th)
    <2>1. PICK th \in Threads : ProviderAccepts(th)
      BY <1>4
    <2>2. PICK e \in Event : Learned(ProcessOf[th], e)
      BY <2>1, AcceptEffect
    <2>3. Stored' /\ effects' \in [Keys -> Nat] /\ \E a \in ActionIds : Saving(th, a)
      BY <2>1, AcceptEffect
    <2> QED
      BY <2>2, <2>3, LearningStep
  <1>5. CASE \E th \in Threads : ProviderFails(th)
    <2>1. PICK th \in Threads : ProviderFails(th)
      BY <1>5
    <2> DEFINE k == KeyOf(MemoryOf(th), thread[th].action)
    <2>2. k \in Keys
      BY <2>1, CallingKnows DEF ProviderFails
    <2>3. PICK applied \in {0, 1} : effects' = [effects EXCEPT ![k] = @ + applied]
      BY <2>1 DEF ProviderFails
    <2> HIDE DEF k
    <2>4. effects' \in [Keys -> Nat]
      BY <1>1, <2>2, <2>3
    <2> QED
      BY <2>1, <2>4, ThreadStep DEF ProviderFails
  <1>6. CASE \E th \in Threads : Save(th)
    BY <1>6, SaveStep
  <1>7. CASE \E th \in Threads, k \in Keys : Propose(th, k)
    <2>1. PICK th \in Threads, k \in Keys : Propose(th, k)
      BY <1>7
    <2>2. PICK e \in Event : Learned(ProcessOf[th], e) /\ Saving(th, e.action)
      BY <2>1, ProposeEffect
    <2>3. Stored' /\ effects' \in [Keys -> Nat] /\ e.action \in ActionIds
      BY <1>1, <2>1, ProposeEffect DEF Propose, Event
    <2> QED
      BY <2>2, <2>3, LearningStep
  <1>8. CASE \E th \in Threads, a \in ActionIds : Repeat(th, a)
    BY <1>1, <1>8, ThreadStep DEF Repeat
  <1>9. CASE \E th \in Threads, a \in ActionIds : Approve(th, a) \/ Reject(th, a)
    <2>1. PICK th \in Threads, a \in ActionIds : Approve(th, a) \/ Reject(th, a)
      BY <1>9
    <2>2. PICK e \in Event : Learned(ProcessOf[th], e)
      BY <2>1, DecisionEffect
    <2>3. Stored' /\ Saving(th, a) /\ effects' \in [Keys -> Nat]
      BY <1>1, <2>1, DecisionEffect DEF Approve, Reject
    <2> QED
      BY <2>2, <2>3, LearningStep
  <1>10. CASE \E th \in Threads, a \in ActionIds : ExecuteStart(th, a)
    <2>1. PICK th \in Threads : \E a \in ActionIds : ExecuteStart(th, a)
      BY <1>10
    <2>2. table' = table /\ mem' = mem /\ effects' = effects
      BY <2>1 DEF ExecuteStart
    <2> QED
      BY <1>1, <2>1, <2>2, ThreadStep
  <1>11. CASE \E th \in Threads, a \in ActionIds : ExecuteIneligible(th, a)
    <2>1. PICK th \in Threads, a \in ActionIds : ExecuteIneligible(th, a)
      BY <1>11
    <2>2. PICK e \in Event : Learned(ProcessOf[th], e)
      BY <2>1, IneligibleEffect
    <2>3. /\ Stored' /\ effects' \in [Keys -> Nat]
          /\ thread' = [thread EXCEPT ![th] = Idle]
      BY <1>1, <2>1, IneligibleEffect DEF ExecuteIneligible
    <2> QED
      BY <2>2, <2>3, LearningStep
  <1>12. CASE \E th \in Threads, a \in ActionIds : Verify(th, a)
    <2>1. PICK th \in Threads, a \in ActionIds : Verify(th, a)
      BY <1>12
    <2>2. PICK e \in Event : Learned(ProcessOf[th], e)
      BY <2>1, VerifyEffect
    <2>3. Stored' /\ Saving(th, a) /\ effects' \in [Keys -> Nat]
      BY <1>1, <2>1, VerifyEffect DEF Verify
    <2> QED
      BY <2>2, <2>3, LearningStep
  <1>13. CASE \E p \in Processes : Crash(p)
    BY <1>13, CrashStep
  <1>14. CASE UNCHANGED vars
    <2>1. Stored'
      BY <1>14, StoredStays DEF vars, Inv
    <2> QED
      BY <1>14, <2>1 DEF vars, Inv, Types, ThreadsFit, MemoryOf
  <1> QED
    BY <1>2, <1>3, <1>4, <1>5, <1>6, <1>7, <1>8, <1>9, <1>10, <1>11, <1>12,
       <1>13, <1>14 DEF Next

LEMMA InitInv == Init => Inv
  <1> SUFFICES ASSUME Init
               PROVE  Inv
    OBVIOUS
  <1>1. /\ EmptyMemory \in Memory /\ KnownBy(EmptyMemory) = {}
        /\ \A a \in ActionIds : EmptyMemory.log[a] = <<>> /\ EmptyMemory.status[a] = NoValue
    BY DEF EmptyMemory, Memory, KnownBy, ElementsOf
  <1>2. /\ table = <<>> /\ Len(table) = 0 /\ table \in Seq(Event) /\ DOMAIN table = {}
        /\ mem = [p \in Processes |-> EmptyMemory]
        /\ thread = [th \in Threads |-> Idle] /\ effects = [k \in Keys |-> 0]
    BY DEF Init
  <1>3. Types
    <2>1. Idle \in [phase : {"idle", "ready", "calling", "saving"},
                    action : ActionIds \cup {NoValue},
                    todo : SUBSET DOMAIN table, upto : 0..Len(table)]
      BY <1>2 DEF Idle
    <2> QED
      BY <1>1, <1>2, <2>1 DEF Types
  <1>4. Everything = {}
    BY <1>1, <1>2 DEF Everything, Rows, ElementsOf
  <1>5. EventsAgree /\ RowsAreSupported /\ Distinct(table)
    BY <1>2, <1>4 DEF EventsAgree, RowsAreSupported, Distinct
  <1>6. MemoriesFit
    BY <1>1, <1>2, AbsentIsNone DEF MemoriesFit, LogFits, Distinct, ActionStatus
  <1>7. LogsAreSupported
    BY <1>1, <1>2 DEF LogsAreSupported, LogIsSupported
  <1>8. ThreadsFit
    BY <1>2 DEF ThreadsFit, Idle
  <1> QED
    BY <1>1, <1>2, <1>3, <1>5, <1>6, <1>7, <1>8 DEF Inv, Stored

\* The invariant holds of every deployment, however its processes are laid
\* out, in whatever order rows arrive, whatever fails and whoever crashes.
THEOREM InvHolds == Spec => []Inv
  BY InitInv, InvStep, PTL DEF Spec

-----------------------------------------------------------------------------
(* What the invariant says of the stored log.                              *)

\* A sequence whose events have distinct identifiers repeats nothing.
LEMMA DistinctCounts ==
    ASSUME NEW s \in Seq(Event), Distinct(s)
    PROVE  /\ Cardinality(ElementsOf(s)) = Len(s)
           /\ Cardinality({e.id : e \in ElementsOf(s)}) = Len(s)
  <1> DEFINE ids == {e.id : e \in ElementsOf(s)}
  <1>1. Len(s) \in Nat /\ DOMAIN s = 1..Len(s)
    BY LenProperties
  <1> DEFINE n == Len(s)
  <1> DEFINE f == [i \in 1..n |-> s[i]]
  <1> DEFINE g == [i \in 1..n |-> s[i].id]
  <1>2. f \in Bijection(1..n, ElementsOf(s))
    BY <1>1 DEF Bijection, Injection, Surjection, IsInjective, ElementsOf, Distinct
  <1>3. g \in Bijection(1..n, ids)
    BY <1>1 DEF Bijection, Injection, Surjection, IsInjective, ElementsOf, Distinct
  <1>4. ExistsBijection(1..n, ElementsOf(s)) /\ ExistsBijection(1..n, ids)
    BY <1>2, <1>3 DEF ExistsBijection
  <1> QED
    BY <1>1, <1>4, FS_CountingElements

\* Every row and every logged event is one, threads are where a handler or a
\* sweep can be, and identifiers minted by uuid4 are not used twice.
THEOREM TypesHold == Spec => []TypeOK
  <1>1. Inv => TypeOK
    <2> SUFFICES ASSUME Inv
                 PROVE  TypeOK
      OBVIOUS
    <2>1. Cardinality(RowIds) = Len(table)
      BY DistinctCounts DEF Inv, Stored, RowIds
    <2>2. ASSUME NEW p \in Processes, NEW a \in ActionIds
          PROVE  Cardinality(ElementsOf(mem[p].log[a])) = Len(mem[p].log[a])
      <3>1. mem[p].log[a] \in Seq(Event)
        BY DEF Inv, Stored, Memory
      <3>2. Distinct(mem[p].log[a])
        BY DEF Inv, Stored, MemoriesFit, LogFits
      <3> QED
        BY <3>1, <3>2, DistinctCounts
    <2> QED
      BY <2>1, <2>2 DEF Inv, Types, TypeOK
  <1> QED
    BY <1>1, InvHolds, PTL

\* persist_action_events never leaves a row whose hash link points nowhere,
\* not after a rollback, a crash or a save by another process.
THEOREM PredecessorsAreStored == Spec => []RowsFollowTheirPredecessor
  <1>1. Inv => RowsFollowTheirPredecessor
    <2> SUFFICES ASSUME Inv, NEW i \in DOMAIN table
                 PROVE  \/ table[i].prev = NoValue /\ table[i].type = "policy_evaluated"
                        \/ \E j \in 1..(i - 1) : /\ table[j].id = table[i].prev
                                                 /\ table[j].action = table[i].action
      BY DEF RowsFollowTheirPredecessor
    <2>1. Supported(table[i], Before(table, i))
      BY DEF Inv, Stored, RowsAreSupported
    <2> QED
      BY <2>1 DEF Supported, Before, IsPolicy
  <1> QED
    BY <1>1, InvHolds, PTL

\* A reader of action_event meets the acceptance before the verdict, the
\* approval before the acceptance and the policy decision before the approval.
THEOREM CausesComeFirst == Spec => []CausesAreRecordedFirst
  <1>1. Inv => CausesAreRecordedFirst
    <2> SUFFICES ASSUME Inv, NEW i \in DOMAIN table
                 PROVE  /\ table[i].type \in TERMINAL_VERIFICATION_STATUSES
                                \cup {"verification_pending"} =>
                              After(i, "provider_accepted", "provider_accepted")
                        /\ table[i].type = "provider_accepted" =>
                              After(i, "approved", "approved")
                        /\ table[i].type \in {"approved", "approval_denied", "rejected"} =>
                              After(i, "policy_evaluated", "approval_required")
      BY DEF CausesAreRecordedFirst
    <2>1. HasCauses(Before(table, i), table[i].action, table[i].type)
      BY DEF Inv, Stored, RowsAreSupported, Supported
    <2>2. \A type, status : Cause(Before(table, i), table[i].action, type, status) =>
              After(i, type, status)
      BY DEF Cause, Before, After
    <2> QED
      BY <2>1, <2>2 DEF HasCauses, VerificationTypes, RefusalTypes
  <1> QED
    BY <1>1, InvHolds, PTL

-----------------------------------------------------------------------------
(* Where a thread goes, and that nothing it relied on is lost on the way.  *)

\* A row keeps its place.
RowsStay ==
    /\ Len(table) <= Len(table')
    /\ \A i \in DOMAIN table : i \in DOMAIN table' /\ table'[i] = table[i]

Moves(t) ==
    \/ thread'[t] = thread[t]
    \/ thread'[t] = Idle
    \/ t \in WorkerThreads /\ thread'[t] = ReadyAgain
    \/ \E a \in ActionIds : thread'[t] = SavingOf(a)
    \/ Load(t) /\ thread'[t] = Loaded(t)
    \/ \E a \in ActionIds : ExecuteStart(t, a) /\ thread'[t] = CallingFor(t, a)
    \/ RestoreRow(t) /\ \E i \in thread[t].todo : thread'[t] = Without(t, i)

Remembers(t) ==
    KnownBy(mem[ProcessOf[t]]) \subseteq KnownBy(mem'[ProcessOf[t]])

\* One thread goes to the state u, the others stay where they are.
LEMMA OneThreadMoves ==
    ASSUME Inv, NEW th \in Threads, NEW u, thread' = [thread EXCEPT ![th] = u],
           \/ u = Idle
           \/ th \in WorkerThreads /\ u = ReadyAgain
           \/ \E a \in ActionIds : u = SavingOf(a)
           \/ Load(th) /\ u = Loaded(th)
           \/ \E a \in ActionIds : ExecuteStart(th, a) /\ u = CallingFor(th, a)
           \/ RestoreRow(th) /\ \E i \in thread[th].todo : u = Without(th, i)
    PROVE  \A t \in Threads : Moves(t)
  <1>1. /\ thread'[th] = u
        /\ \A t \in Threads \ {th} : thread'[t] = thread[t]
    BY DEF Inv, Types
  <1>2. Moves(th)
    BY <1>1 DEF Moves
  <1>3. \A t \in Threads \ {th} : Moves(t)
    BY <1>1 DEF Moves
  <1> QED
    BY <1>2, <1>3

LEMMA NothingForgotten ==
    ASSUME Inv, NothingIsForgotten
    PROVE  \A t \in Threads : Remembers(t)
  BY ThreadsAssumption DEF NothingIsForgotten, Remembers

LEMMA TableStands ==
    ASSUME Inv, table' = table
    PROVE  RowsStay
  BY LenProperties DEF Inv, Types, RowsStay

LEMMA Steps ==
    ASSUME Inv, [Next]_vars
    PROVE  /\ RowsStay
           /\ \A t \in Threads : Moves(t)
           /\ \A t \in Threads : thread'[t] = Idle \/ Remembers(t)
  <1>1. ASSUME NEW th \in Threads, Load(th)
        PROVE  RowsStay /\ \A t \in Threads : Moves(t) /\ Remembers(t)
    <2>1. thread' = [thread EXCEPT ![th] = Loaded(th)]
      BY <1>1 DEF Load, Loaded
    <2>2. table' = table /\ mem' = mem
      BY <1>1 DEF Load
    <2> QED
      BY <1>1, <2>1, <2>2, OneThreadMoves, TableStands DEF Remembers
  <1>2. ASSUME NEW th \in Threads, RestoreRow(th)
        PROVE  RowsStay /\ \A t \in Threads : Moves(t) /\ Remembers(t)
    <2>1. PICK i \in thread[th].todo :
              /\ thread' = [thread EXCEPT ![th].todo = @ \ {i}]
              /\ mem' = [mem EXCEPT ![ProcessOf[th]] = Restored(@, table[i])]
              /\ table' = table
      BY <1>2 DEF RestoreRow
    <2>2. thread' = [thread EXCEPT ![th] = Without(th, i)]
      <3>1. thread \in [Threads -> ThreadState(Len(table))]
        BY ThreadFits DEF Inv, Types
      <3> QED
        BY <2>1, <3>1 DEF Without
    <2>3. Stored' /\ (mem' = mem \/ Learned(ProcessOf[th], table[i]))
          /\ ProcessOf[th] \in Processes
      BY <2>1, RestoreRowEffect, ThreadFits
    <2>4. NothingIsForgotten
      BY <2>1, <2>3, StandingForgetsNothing, LearningForgetsNothing
    <2>5. \A t \in Threads : Moves(t)
      BY <1>2, <2>2, OneThreadMoves
    <2> QED
      BY <2>1, <2>4, <2>5, NothingForgotten, TableStands
  <1>3. ASSUME NEW th \in Threads, NEW e, Learned(ProcessOf[th], e),
               \/ thread' = [thread EXCEPT ![th] = Idle]
               \/ \E a \in ActionIds : Saving(th, a)
        PROVE  RowsStay /\ \A t \in Threads : Moves(t) /\ Remembers(t)
    <2>1. PICK u : /\ thread' = [thread EXCEPT ![th] = u]
                   /\ u = Idle \/ \E a \in ActionIds : u = SavingOf(a)
      BY <1>3 DEF Saving, SavingOf
    <2>2. \A t \in Threads : Moves(t)
      BY <2>1, OneThreadMoves
    <2>3. NothingIsForgotten
      BY <1>3, LearningForgetsNothing, ThreadFits
    <2>4. table' = table
      BY <1>3 DEF Learned
    <2> QED
      BY <2>2, <2>3, <2>4, NothingForgotten, TableStands
  <1>4. ASSUME NEW th \in Threads, table' = table, mem' = mem,
               \/ thread' = [thread EXCEPT ![th] = Idle]
               \/ \E a \in ActionIds : Saving(th, a)
        PROVE  RowsStay /\ \A t \in Threads : Moves(t) /\ Remembers(t)
    <2>1. PICK u : /\ thread' = [thread EXCEPT ![th] = u]
                   /\ u = Idle \/ \E a \in ActionIds : u = SavingOf(a)
      BY <1>4 DEF Saving, SavingOf
    <2>2. \A t \in Threads : Moves(t)
      BY <2>1, OneThreadMoves
    <2> QED
      BY <1>4, <2>2, TableStands DEF Remembers
  <1>5. ASSUME NEW th \in Threads, Save(th)
        PROVE  RowsStay /\ \A t \in Threads : Moves(t) /\ Remembers(t)
    <2>1. PICK u : /\ thread' = [thread EXCEPT ![th] = u]
                   /\ u = Idle \/ (th \in WorkerThreads /\ u = ReadyAgain)
      BY <1>5 DEF Save, AfterSaving, ReadyAgain
    <2>2. \A t \in Threads : Moves(t)
      BY <2>1, OneThreadMoves
    <2>3. RowsStay /\ mem' = mem
      BY <1>5, SaveEffect DEF RowsStay
    <2> QED
      BY <2>2, <2>3 DEF Remembers
  <1>6. ASSUME NEW th \in Threads, NEW a \in ActionIds, ExecuteStart(th, a)
        PROVE  RowsStay /\ \A t \in Threads : Moves(t) /\ Remembers(t)
    <2>1. thread' = [thread EXCEPT ![th] = CallingFor(th, a)]
      <3>1. thread \in [Threads -> ThreadState(Len(table))]
        BY ThreadFits DEF Inv, Types
      <3>2. thread' = [thread EXCEPT ![th].phase = "calling", ![th].action = a]
        BY <1>6 DEF ExecuteStart
      <3> QED
        BY <3>1, <3>2 DEF CallingFor
    <2>2. table' = table /\ mem' = mem
      BY <1>6 DEF ExecuteStart
    <2> QED
      BY <1>6, <2>1, <2>2, OneThreadMoves, TableStands DEF Remembers
  <1>7. ASSUME NEW p \in Processes, Crash(p)
        PROVE  /\ RowsStay
               /\ \A t \in Threads : Moves(t) /\ (thread'[t] = Idle \/ Remembers(t))
    <2>1. /\ table' = table
          /\ \A q \in Processes \ {p} : mem'[q] = mem[q]
      BY <1>7, CrashKeepsStored DEF Inv, Crash
    <2>2. \A t \in Threads :
             thread'[t] = IF ProcessOf[t] = p THEN Idle ELSE thread[t]
      BY <1>7 DEF Crash
    <2>3. ASSUME NEW t \in Threads
          PROVE  Moves(t) /\ (thread'[t] = Idle \/ Remembers(t))
      <3>1. CASE ProcessOf[t] = p
        BY <2>2, <3>1 DEF Moves
      <3>2. CASE ProcessOf[t] # p
        <4>1. mem'[ProcessOf[t]] = mem[ProcessOf[t]] /\ thread'[t] = thread[t]
          BY <2>1, <2>2, <3>2, ThreadsAssumption
        <4> QED
          BY <4>1 DEF Moves, Remembers
      <3> QED
        BY <3>1, <3>2
    <2> QED
      BY <2>1, <2>3, TableStands
  <1>8. CASE UNCHANGED vars
    <2>1. table' = table /\ mem' = mem /\ thread' = thread
      BY <1>8 DEF vars
    <2> QED
      BY <2>1, TableStands DEF Moves, Remembers
  <1>9. CASE \E th \in Threads, k \in Keys : Propose(th, k)
    <2>1. PICK th \in Threads, k \in Keys : Propose(th, k)
      BY <1>9
    <2>2. PICK e \in Event : Learned(ProcessOf[th], e) /\ Saving(th, e.action)
      BY <2>1, ProposeEffect
    <2>3. e.action \in ActionIds
      BY DEF Event
    <2> QED
      BY <1>3, <2>2, <2>3
  <1>10. CASE \E th \in Threads, a \in ActionIds : Approve(th, a) \/ Reject(th, a)
    <2>1. PICK th \in Threads, a \in ActionIds : Approve(th, a) \/ Reject(th, a)
      BY <1>10
    <2> QED
      BY <1>3, <2>1, DecisionEffect
  <1>11. CASE \E th \in Threads, a \in ActionIds : Verify(th, a)
    <2>1. PICK th \in Threads, a \in ActionIds : Verify(th, a)
      BY <1>11
    <2> QED
      BY <1>3, <2>1, VerifyEffect
  <1>12. CASE \E th \in Threads : ProviderAccepts(th)
    <2>1. PICK th \in Threads : ProviderAccepts(th)
      BY <1>12
    <2> QED
      BY <1>3, <2>1, AcceptEffect
  <1>13. CASE \E th \in Threads, a \in ActionIds : ExecuteIneligible(th, a)
    <2>1. PICK th \in Threads, a \in ActionIds : ExecuteIneligible(th, a)
      BY <1>13
    <2>2. thread' = [thread EXCEPT ![th] = Idle]
      BY <2>1 DEF ExecuteIneligible
    <2> QED
      BY <1>3, <2>1, <2>2, IneligibleEffect
  <1>14. CASE \E th \in Threads : Finish(th) \/ SaveFails(th) \/ ProviderFails(th)
    BY <1>4, <1>14 DEF Finish, SaveFails, ProviderFails
  <1>15. CASE \E th \in Threads, a \in ActionIds : Repeat(th, a)
    BY <1>4, <1>15 DEF Repeat
  <1> QED
    BY <1>1, <1>2, <1>5, <1>6, <1>7, <1>8, <1>9, <1>10, <1>11, <1>12, <1>13,
       <1>14, <1>15 DEF Next

-----------------------------------------------------------------------------
(* What a process has read before it decides.                              *)

\* A row that a process knows by its identifier it knows as it is stored.
LEMMA KnownRow ==
    ASSUME Inv, NEW p \in Processes, NEW i \in DOMAIN table,
           table[i].id \in IdsOf(mem[p])
    PROVE  LET e == table[i]
               a == e.action
           IN  /\ e \in KnownBy(mem[p])
               /\ a \in ActionIds
               /\ e \in ElementsOf(mem[p].log[a])
               /\ mem[p].status[a] # NoValue
  <1> DEFINE e == table[i]
  <1>1. e \in Event /\ e \in Rows /\ e \in Everything
    BY ElementOfSeq, LenProperties DEF Inv, Types, Rows, Everything, ElementsOf
  <1>2. PICK f \in KnownBy(mem[p]) : f.id = e.id
    BY DEF IdsOf
  <1>3. f = e
    <2>1. f \in Everything
      BY <1>2 DEF Everything
    <2>2. Agree(e, f)
      BY <1>1, <2>1 DEF Inv, Stored, EventsAgree
    <2> QED
      BY <1>2, <2>2 DEF Agree
  <1>4. PICK b \in ActionIds : \E n \in DOMAIN mem[p].log[b] : mem[p].log[b][n] = e
    BY <1>2, <1>3, KnownMeansLogged
  <1>5. b = e.action
    BY <1>4 DEF Inv, Stored, MemoriesFit, LogFits
  <1> HIDE DEF e
  <1>6. mem[p].log[b] # <<>>
    BY <1>4
  <1>7. mem[p].status[b] # NoValue
    BY <1>6 DEF Inv, Stored, MemoriesFit, LogFits
  <1> QED
    BY <1>2, <1>3, <1>4, <1>5, <1>7 DEF e, ElementsOf

\* What a thread knew of a row it still knows.
LEMMA StillKnown ==
    ASSUME Inv, [Next]_vars, NEW t \in Threads, Remembers(t),
           NEW i \in DOMAIN table, Knows(t, i)
    PROVE  Knows(t, i)'
  <1>1. table'[i] = table[i]
    BY Steps DEF RowsStay
  <1> QED
    BY <1>1 DEF Knows, Remembers, IdsOf, MemoryOf

\* Restoring in order never drops a row whose policy evaluation is known.
LEMMA RestoredInOrder ==
    ASSUME Inv, InOrder, NEW t \in Threads, RestoreRow(t)
    PROVE  \E i \in thread[t].todo :
              /\ thread'[t] = Without(t, i)
              /\ (\A j \in 1..(i - 1) : IsPolicy(table[j]) =>
                      j \in thread[t].todo \/ Knows(t, j)) => Knows(t, i)'
  <1> DEFINE p == ProcessOf[t]
  <1>1. PICK i \in thread[t].todo :
            /\ \A j \in thread[t].todo : i <= j
            /\ thread' = [thread EXCEPT ![t].todo = @ \ {i}]
            /\ mem' = [mem EXCEPT ![ProcessOf[t]] = Restored(@, table[i])]
            /\ table' = table
    BY DEF RestoreRow
  <1>2. thread'[t] = Without(t, i)
    <2>1. thread \in [Threads -> ThreadState(Len(table))]
      BY ThreadFits DEF Inv, Types
    <2> QED
      BY <1>1, <2>1 DEF Without
  <1>3. p \in Processes /\ i \in DOMAIN table
    BY ThreadsAssumption DEF Inv, Types
  <1>4. IsPolicy(table[i]) \/ mem[p].status[table[i].action] # NoValue =>
            table[i].id \in IdsOf(mem'[p])
    BY <1>1, RestoreRowEffect
  <1>5. ASSUME ~IsPolicy(table[i]),
               \A j \in 1..(i - 1) : IsPolicy(table[j]) =>
                   j \in thread[t].todo \/ Knows(t, j)
        PROVE  mem[p].status[table[i].action] # NoValue
    <2>1. Supported(table[i], Before(table, i))
      BY <1>3 DEF Inv, Stored, RowsAreSupported
    <2>2. PICK j \in 1..(i - 1) : table[j].action = table[i].action /\ IsPolicy(table[j])
      BY <1>5, <2>1 DEF Supported, Before
    <2>3. j \in DOMAIN table /\ ~(i <= j)
      <3>1. DOMAIN table = 1..Len(table) /\ Len(table) \in Nat
        BY ThreadFits
      <3> QED
        BY <1>3, <3>1
    <2>4. j \notin thread[t].todo
      BY <1>1, <2>3
    <2>5. table[j].id \in IdsOf(mem[p])
      BY <1>5, <2>2, <2>4 DEF Knows, MemoryOf
    <2>6. mem[p].status[table[j].action] # NoValue
      BY <1>3, <2>3, <2>5, KnownRow
    <2> QED
      BY <2>2, <2>6
  <1>6. (\A j \in 1..(i - 1) : IsPolicy(table[j]) =>
            j \in thread[t].todo \/ Knows(t, j)) => Knows(t, i)'
    BY <1>1, <1>4, <1>5 DEF Knows, MemoryOf
  <1> QED
    BY <1>2, <1>6

LEMMA RestoredStep ==
    ASSUME Inv, RowsAreRestored, InOrder, [Next]_vars
    PROVE  RowsAreRestored'
  <1> SUFFICES ASSUME NEW t \in Threads, thread'[t].phase = "ready",
                      NEW i \in 1..thread'[t].upto
               PROVE  i \in thread'[t].todo \/ Knows(t, i)'
    BY DEF RowsAreRestored
  <1>1. thread'[t] # Idle
    BY DEF Idle
  <1>2. Remembers(t) /\ Moves(t)
    BY <1>1, Steps
  <1>3. /\ Len(table) \in Nat /\ DOMAIN table = 1..Len(table)
        /\ thread[t].upto \in 0..Len(table)
    BY ThreadFits DEF ThreadState
  <1>4. ASSUME NEW j \in 1..thread[t].upto, thread[t].phase = "ready"
        PROVE  j \in thread[t].todo \/ Knows(t, j)'
    <2>1. j \in thread[t].todo \/ Knows(t, j)
      BY <1>4 DEF RowsAreRestored
    <2>2. j \in DOMAIN table
      BY <1>3
    <2> QED
      BY <1>2, <2>1, <2>2, StillKnown
  <1>5. CASE thread'[t] = thread[t]
    BY <1>4, <1>5
  <1>6. CASE thread'[t] = ReadyAgain
    BY <1>3, <1>6, IdleIsState
  <1>7. CASE \E a \in ActionIds : thread'[t] = SavingOf(a)
    BY <1>3, <1>7, IdleIsState
  <1>8. CASE Load(t) /\ thread'[t] = Loaded(t)
    <2>1. i \in DOMAIN table /\ table' = table /\ mem' = mem
      BY <1>3, <1>8, StatesOfThreads DEF Load
    <2> QED
      BY <1>8, <2>1, StatesOfThreads DEF News, Knows, MemoryOf
  <1>9. CASE \E a \in ActionIds : ExecuteStart(t, a) /\ thread'[t] = CallingFor(t, a)
    BY <1>9, StatesOfThreads
  <1>10. CASE RestoreRow(t) /\ \E j \in thread[t].todo : thread'[t] = Without(t, j)
    <2>1. thread[t].phase = "ready" /\ thread'[t].upto = thread[t].upto
      BY <1>10, StatesOfThreads
    <2>2. PICK j \in thread[t].todo :
              /\ thread'[t] = Without(t, j)
              /\ (\A k \in 1..(j - 1) : IsPolicy(table[k]) =>
                      k \in thread[t].todo \/ Knows(t, k)) => Knows(t, j)'
      BY <1>10, RestoredInOrder
    <2>3. thread'[t].todo = thread[t].todo \ {j}
      BY <2>2, StatesOfThreads
    <2>4. CASE i = j
      <3>1. j \in 1..thread[t].upto
        BY <2>1, <2>4
      <3>2. \A k \in 1..(j - 1) : k \in 1..thread[t].upto
        BY <1>3, <3>1
      <3> QED
        BY <2>1, <2>2, <2>4, <3>2 DEF RowsAreRestored
    <2>5. CASE i # j
      BY <1>4, <2>1, <2>3, <2>5
    <2> QED
      BY <2>4, <2>5
  <1> QED
    BY <1>1, <1>2, <1>5, <1>6, <1>7, <1>8, <1>9, <1>10 DEF Moves

\* An acceptance that was read is a receipt, and execute asks for receipts.
LEMMA HonouredStep ==
    ASSUME Inv, RowsAreRestored, AcceptanceIsHonoured, [Next]_vars
    PROVE  AcceptanceIsHonoured'
  <1> SUFFICES ASSUME NEW t \in Threads, thread'[t].phase = "calling",
                      NEW i \in 1..thread'[t].upto,
                      table'[i].type = "provider_accepted"
               PROVE  table'[i].action # thread'[t].action
    BY DEF AcceptanceIsHonoured
  <1>1. /\ Len(table) \in Nat /\ DOMAIN table = 1..Len(table)
        /\ thread[t].upto \in 0..Len(table)
    BY ThreadFits DEF ThreadState
  <1>2. RowsStay /\ Moves(t)
    BY Steps
  <1>3. ASSUME thread'[t].upto = thread[t].upto
        PROVE  i \in DOMAIN table /\ table'[i] = table[i] /\ i \in 1..thread[t].upto
    BY <1>1, <1>2, <1>3 DEF RowsStay
  <1>4. ASSUME thread[t].phase = "calling", thread'[t].upto = thread[t].upto,
               thread'[t].action = thread[t].action
        PROVE  table'[i].action # thread'[t].action
    BY <1>3, <1>4 DEF AcceptanceIsHonoured
  <1>5. CASE thread'[t] = thread[t]
    BY <1>4, <1>5
  <1>6. CASE \/ thread'[t] = Idle \/ thread'[t] = ReadyAgain
             \/ \E a \in ActionIds : thread'[t] = SavingOf(a)
             \/ thread'[t] = Loaded(t)
    BY <1>1, <1>6, IdleIsState, StatesOfThreads
  <1>7. CASE RestoreRow(t) /\ \E j \in thread[t].todo : thread'[t] = Without(t, j)
    BY <1>4, <1>7, StatesOfThreads
  <1>8. CASE \E a \in ActionIds : ExecuteStart(t, a) /\ thread'[t] = CallingFor(t, a)
    <2> DEFINE p == ProcessOf[t]
    <2>1. PICK a \in ActionIds : ExecuteStart(t, a) /\ thread'[t] = CallingFor(t, a)
      BY <1>8
    <2>2. thread'[t].upto = thread[t].upto /\ thread'[t].action = a
      BY <2>1, StatesOfThreads
    <2>3. i \in DOMAIN table /\ table'[i] = table[i] /\ i \in 1..thread[t].upto
      BY <1>3, <2>2
    <2>4. thread[t].phase = "ready" /\ thread[t].todo = {}
          /\ KeyOf(mem[p], a) \notin mem[p].receipts
      BY <2>1 DEF ExecuteStart, Ready, MayExecute, MemoryOf
    <2>5. ASSUME table[i].action = a
          PROVE  FALSE
      <3> DEFINE e == table[i]
      <3>1. p \in Processes
        BY ThreadsAssumption
      <3>2. e.id \in IdsOf(mem[p])
        BY <2>3, <2>4 DEF RowsAreRestored, Knows, MemoryOf
      <3>3. e \in ElementsOf(mem[p].log[a]) /\ mem[p].status[a] # NoValue
        BY <2>3, <2>5, <3>1, <3>2, KnownRow
      <3>4. e.type = "provider_accepted"
        BY <2>3
      <3> HIDE DEF e, p
      <3>5. e.key \in mem[p].receipts
        BY <3>1, <3>3, <3>4 DEF Inv, Stored, MemoriesFit, LogFits, ElementsOf
      <3>6. e.key = KeyOf(mem[p], a)
        <4> DEFINE f == mem[p].log[a][1]
        <4>1. f \in Everything /\ e \in Everything /\ f.action = a /\ e.action = a
          BY <3>1, <3>3, StatusIsLogged DEF Inv
        <4>2. Agree(e, f)
          BY <4>1 DEF Inv, Stored, EventsAgree
        <4> QED
          BY <4>1, <4>2 DEF Agree, KeyOf
      <3> QED
        BY <2>4, <3>5, <3>6 DEF p
    <2> QED
      BY <2>2, <2>3, <2>5
  <1> QED
    BY <1>2, <1>5, <1>6, <1>7, <1>8 DEF Moves

\* With rows that arrive in the order of their insertion, what restore_actions
\* leaves undone it never loses, and no provider call starts for an action
\* whose acceptance could have been read.
THEOREM OrderInvHolds == ASSUME InOrder PROVE Spec => []OrderInv
  <1>1. Init => OrderInv
    <2> SUFFICES ASSUME Init
                 PROVE  OrderInv
      OBVIOUS
    <2>1. Inv
      BY InitInv
    <2>2. RowsAreRestored /\ AcceptanceIsHonoured
      BY DEF Init, Idle, RowsAreRestored, AcceptanceIsHonoured
    <2> QED
      BY <2>1, <2>2 DEF OrderInv
  <1>2. OrderInv /\ [Next]_vars => OrderInv'
    BY InvStep, RestoredStep, HonouredStep DEF OrderInv
  <1> QED
    BY <1>1, <1>2, PTL DEF Spec

\* A handler decides with every row in memory that was committed before it
\* began: restore_actions drops nothing that comes in order.
THEOREM HistoryIsRead == ASSUME InOrder PROVE Spec => []DecidesOnCommittedHistory
  <1>1. OrderInv => DecidesOnCommittedHistory
    BY DEF OrderInv, RowsAreRestored, Knows, DecidesOnCommittedHistory, Ready
  <1> QED
    BY <1>1, OrderInvHolds, PTL

\* A retry finds the outcome: no provider call starts once the handler could
\* have read the acceptance.
THEOREM AcceptancesAreHonoured == ASSUME InOrder PROVE Spec => []AcceptanceIsHonoured
  <1>1. OrderInv => AcceptanceIsHonoured
    BY DEF OrderInv
  <1> QED
    BY <1>1, OrderInvHolds, PTL

-----------------------------------------------------------------------------
(* One API process.                                                        *)

LEMMA ApiThreadsAreHere ==
    ASSUME OneApiProcess
    PROVE  ApiProcess \in Processes /\ \A th \in ApiThreads : ProcessOf[th] = ApiProcess
  BY DEF OneApiProcess, ApiProcess

\* A thread that is about to decide knows every decision that is stored.
LEMMA ReadyKnowsDecisions ==
    ASSUME OneApiInv, OneApiProcess, NEW th \in ApiThreads, Ready(th),
           NEW e \in Decided, e.type \notin VerificationTypes
    PROVE  /\ e.action \in ActionIds
           /\ e \in ElementsOf(mem[ApiProcess].log[e.action])
           /\ mem[ApiProcess].status[e.action] # NoValue
  <1> DEFINE p == ApiProcess
  <1>1. p \in Processes /\ ProcessOf[th] = p /\ Inv /\ th \in Threads
    BY ApiThreadsAreHere DEF OneApiInv, OrderInv, Threads
  <1>2. CASE e \in Rows
    <2>1. PICK i \in DOMAIN table : table[i] = e
      BY <1>2 DEF Rows, ElementsOf
    <2>2. Knows(th, i)
      BY <2>1 DEF OneApiInv, ApiKnowsDecisions, Ready
    <2>3. e.id \in IdsOf(mem[p])
      BY <1>1, <2>1, <2>2 DEF Knows, MemoryOf
    <2> QED
      BY <1>1, <2>1, <2>3, KnownRow
  <1>3. CASE e \in KnownBy(mem[p])
    <2>1. PICK a \in ActionIds : \E n \in DOMAIN mem[p].log[a] : mem[p].log[a][n] = e
      BY <1>3, KnownMeansLogged
    <2>2. e.action = a /\ mem[p].log[a] # <<>>
      BY <1>1, <2>1 DEF Inv, Stored, MemoriesFit, LogFits
    <2>3. mem[p].status[a] # NoValue
      BY <1>1, <2>2 DEF Inv, Stored, MemoriesFit, LogFits
    <2> QED
      BY <2>1, <2>2, <2>3 DEF ElementsOf
  <1> QED
    BY <1>2, <1>3 DEF Decided

\* The policy evaluation of every event there is has been decided.
LEMMA PolicyIsDecided ==
    ASSUME OneApiInv, OneApiProcess, NEW e \in Everything
    PROVE  \E g \in Decided : IsPolicy(g) /\ g.action = e.action /\ g.key = e.key
  <1>1. Inv /\ ApiProcess \in Processes
    BY ApiThreadsAreHere DEF OneApiInv, OrderInv
  <1>2. \A g \in Everything : g.action = e.action => g.key = e.key
    BY <1>1 DEF Inv, Stored, EventsAgree, Agree
  <1>3. CASE e \in Rows
    <2>1. PICK i \in DOMAIN table : table[i] = e
      BY <1>3 DEF Rows, ElementsOf
    <2>2. Supported(table[i], Before(table, i))
      BY <1>1 DEF Inv, Stored, RowsAreSupported
    <2>3. Before(table, i) \subseteq Rows
      <3>1. DOMAIN table = 1..Len(table) /\ Len(table) \in Nat
        BY <1>1, LenProperties DEF Inv, Types
      <3> QED
        BY <3>1 DEF Before, Rows, ElementsOf
    <2>4. \E g \in Rows : g.action = e.action /\ IsPolicy(g)
      BY <1>3, <2>1, <2>2, <2>3 DEF Supported
    <2> QED
      BY <1>2, <2>4 DEF Decided, Everything
  <1>4. CASE \E q \in Processes : e \in KnownBy(mem[q])
    <2>1. PICK q \in Processes : e \in KnownBy(mem[q])
      BY <1>4
    <2>2. PICK a \in ActionIds : \E n \in DOMAIN mem[q].log[a] : mem[q].log[a][n] = e
      BY <2>1, KnownMeansLogged
    <2>3. e.action = a /\ mem[q].status[a] # NoValue
      BY <1>1, <2>2 DEF Inv, Stored, MemoriesFit, LogFits
    <2> DEFINE g == mem[q].log[a][1]
    <2>4. g \in ElementsOf(mem[q].log[a]) /\ IsPolicy(g) /\ g.action = a /\ g \in Everything
      BY <1>1, <2>3, StatusIsLogged DEF Inv
    <2>5. g \in KnownBy(mem[q])
      BY <2>4 DEF KnownBy
    <2>6. g.type \notin VerificationTypes
      BY <2>4 DEF IsPolicy, VerificationTypes, TERMINAL_VERIFICATION_STATUSES
    <2>7. g \in Decided
      <3>1. CASE q = ApiProcess
        BY <2>5, <3>1 DEF Decided
      <3>2. CASE q # ApiProcess
        BY <2>5, <2>6, <3>2 DEF OneApiInv, OthersOnlyVerify, Decided
      <3> QED
        BY <3>1, <3>2
    <2> HIDE DEF g
    <2> QED
      BY <1>2, <2>3, <2>4, <2>7
  <1> QED
    BY <1>3, <1>4 DEF Everything

\* E is added to what is decided and brings no new contradiction.
LEMMA CompatibilityGrows ==
    ASSUME DecisionsAreCompatible, NEW E, Decided' \subseteq Decided \cup E,
           \A e, f \in E : Compatible(e, f),
           \A e \in E, f \in Decided : Compatible(e, f) /\ Compatible(f, e)
    PROVE  DecisionsAreCompatible'
  <1>1. \A e, f \in Decided \cup E : Compatible(e, f)
    BY DEF DecisionsAreCompatible
  <1> QED
    BY <1>1 DEF DecisionsAreCompatible

\* Events that neither refuse nor approve, of actions that were evaluated.
LEMMA PlainEventsAreCompatible ==
    ASSUME OneApiInv, OneApiProcess,
           NEW E, \A e \in E :
               /\ e.type \notin RefusalTypes \cup {"approved"}
               /\ \E f \in Everything : f.action = e.action /\ f.key = e.key,
           Decided' \subseteq Decided \cup E
    PROVE  DecisionsAreCompatible'
  <1>1. \A e, f \in Decided : Compatible(e, f)
    BY DEF OneApiInv, DecisionsAreCompatible
  <1>2. ASSUME NEW e \in E
        PROVE  \E g \in Decided : g.action = e.action /\ g.key = e.key
    <2>1. PICK f \in Everything : f.action = e.action /\ f.key = e.key
      OBVIOUS
    <2> QED
      BY <2>1, PolicyIsDecided
  <1>3. \A e \in E, f \in Decided : Compatible(e, f) /\ Compatible(f, e)
    BY <1>1, <1>2 DEF Compatible
  <1>4. ASSUME NEW e \in E, NEW f \in E
        PROVE  Compatible(e, f)
    <2>1. PICK g \in Decided : g.action = e.action /\ g.key = e.key
      BY <1>2
    <2>2. Compatible(f, g)
      BY <1>3
    <2> QED
      BY <2>1, <2>2 DEF Compatible
  <1> QED
    BY <1>3, <1>4, CompatibilityGrows DEF OneApiInv

\* Only a save inserts rows, and they are of its process and its action.
LEMMA SavedRow ==
    ASSUME Inv, [Next]_vars, NEW i \in DOMAIN table', i \notin DOMAIN table
    PROVE  \E th \in Threads :
              /\ Save(th) /\ mem' = mem
              /\ table'[i] \in KnownBy(mem[ProcessOf[th]]) \ Rows
  <1>1. table' = table \/ \E th \in Threads : Save(th)
    BY DEF Next, vars, Load, RestoreRow, Finish, ProviderAccepts, ProviderFails,
           SaveFails, Propose, Repeat, Approve, Reject, ExecuteStart,
           ExecuteIneligible, Verify, Crash
  <1>2. PICK th \in Threads : Save(th)
    BY <1>1
  <1> DEFINE p == ProcessOf[th]
  <1>3. /\ Stored' /\ mem' = mem
        /\ \A j \in DOMAIN table : j \in DOMAIN table' /\ table'[j] = table[j]
        /\ Rows' = Rows \cup {e \in KnownBy(mem[p]) : e.action = thread[th].action}
    BY <1>2, SaveEffect
  <1>4. table'[i] \in Rows'
    BY DEF Rows, ElementsOf
  <1>5. table'[i] \notin Rows
    <2> SUFFICES ASSUME table'[i] \in Rows
                 PROVE  FALSE
      OBVIOUS
    <2>1. PICK j \in DOMAIN table : table[j] = table'[i]
      BY DEF Rows, ElementsOf
    <2>2. j \in DOMAIN table' /\ table'[j] = table'[i]
      BY <1>3, <2>1
    <2>3. i = j
      BY <1>3, <2>2 DEF Stored, Distinct
    <2> QED
      BY <2>3
  <1> QED
    BY <1>2, <1>3, <1>4, <1>5

\* A new row that is not a verdict comes from the API.
LEMMA NewRows ==
    ASSUME OneApiInv, OneApiProcess, [Next]_vars,
           NEW i \in DOMAIN table', table'[i].type \notin VerificationTypes
    PROVE  \/ i \in DOMAIN table
           \/ mem' = mem /\ table'[i] \in KnownBy(mem[ApiProcess])
  <1>1. CASE i \notin DOMAIN table
    <2>1. PICK th \in Threads :
              mem' = mem /\ table'[i] \in KnownBy(mem[ProcessOf[th]]) \ Rows
      BY <1>1, SavedRow DEF OneApiInv, OrderInv
    <2>2. ProcessOf[th] = ApiProcess
      BY <2>1, ThreadsAssumption DEF OneApiInv, OthersOnlyVerify
    <2> QED
      BY <2>1, <2>2
  <1> QED
    BY <1>1

LEMMA KnowsDecisionsStep ==
    ASSUME OneApiInv, OneApiProcess, InOrder, [Next]_vars
    PROVE  ApiKnowsDecisions'
  <1> SUFFICES ASSUME NEW t \in ApiThreads, thread'[t].phase = "ready",
                      NEW i \in DOMAIN table', table'[i].type \notin VerificationTypes
               PROVE  i \in thread'[t].todo \/ Knows(t, i)'
    BY DEF ApiKnowsDecisions
  <1>0. Inv /\ t \in Threads /\ ProcessOf[t] = ApiProcess /\ t \notin WorkerThreads
    BY ApiThreadsAreHere, ThreadsAssumption DEF OneApiInv, OrderInv, Threads
  <1>1. thread'[t] # Idle
    BY DEF Idle
  <1>2. Remembers(t) /\ Moves(t) /\ RowsStay
    BY <1>0, <1>1, Steps
  <1>3. CASE mem' = mem /\ table'[i] \in KnownBy(mem[ApiProcess])
    BY <1>0, <1>3 DEF Knows, IdsOf, MemoryOf
  <1>4. CASE i \in DOMAIN table
    <2>1. table'[i] = table[i]
      BY <1>2, <1>4 DEF RowsStay
    <2>2. ASSUME thread[t].phase = "ready", NEW j \in DOMAIN table,
                 table[j].type \notin VerificationTypes
          PROVE  j \in thread[t].todo \/ Knows(t, j)
      BY <2>2 DEF OneApiInv, ApiKnowsDecisions
    <2>3. ASSUME thread[t].phase = "ready"
          PROVE  i \in thread[t].todo \/ Knows(t, i)'
      BY <1>0, <1>2, <1>4, <2>1, <2>2, <2>3, StillKnown
    <2>4. CASE thread'[t] = thread[t]
      BY <2>3, <2>4
    <2>5. CASE \E a \in ActionIds : thread'[t] = SavingOf(a)
      <3>1. Len(table) \in Nat
        BY <1>0, ThreadFits
      <3> QED
        BY <2>5, <3>1, IdleIsState
    <2>6. CASE Load(t) /\ thread'[t] = Loaded(t)
      <3>1. table' = table /\ mem' = mem
        BY <2>6 DEF Load
      <3> QED
        BY <1>0, <1>4, <2>6, <3>1, StatesOfThreads DEF News, Knows, MemoryOf
    <2>7. CASE \E a \in ActionIds : ExecuteStart(t, a) /\ thread'[t] = CallingFor(t, a)
      BY <1>0, <2>7, StatesOfThreads
    <2>8. CASE RestoreRow(t) /\ \E j \in thread[t].todo : thread'[t] = Without(t, j)
      <3>1. thread[t].phase = "ready"
        BY <1>0, <2>8, StatesOfThreads
      <3>2. PICK j \in thread[t].todo :
                /\ thread'[t] = Without(t, j)
                /\ (\A k \in 1..(j - 1) : IsPolicy(table[k]) =>
                        k \in thread[t].todo \/ Knows(t, k)) => Knows(t, j)'
        BY <1>0, <2>8, RestoredInOrder
      <3>3. thread'[t].todo = thread[t].todo \ {j}
        BY <1>0, <3>2, StatesOfThreads
      <3>4. ASSUME NEW k \in 1..(j - 1), IsPolicy(table[k])
            PROVE  k \in thread[t].todo \/ Knows(t, k)
        <4>1. k \in DOMAIN table
          <5>1. DOMAIN table = 1..Len(table) /\ Len(table) \in Nat
                /\ thread[t].todo \in SUBSET (1..Len(table))
            BY <1>0, ThreadFits DEF ThreadState
          <5> QED
            BY <5>1
        <4>2. table[k].type \notin VerificationTypes
          BY <3>4 DEF IsPolicy, VerificationTypes, TERMINAL_VERIFICATION_STATUSES
        <4> QED
          BY <2>2, <3>1, <4>1, <4>2
      <3>5. Knows(t, j)'
        BY <3>2, <3>4
      <3> QED
        BY <2>3, <3>1, <3>3, <3>5
    <2> QED
      BY <1>0, <1>1, <1>2, <2>4, <2>5, <2>6, <2>7, <2>8 DEF Moves
  <1> QED
    BY <1>3, <1>4, NewRows

\* A call to the provider comes from execute alone.
LEMMA OnlyApiCallsStep ==
    ASSUME OneApiInv, [Next]_vars
    PROVE  OnlyApiCalls'
  <1> SUFFICES ASSUME NEW t \in Threads, thread'[t].phase = "calling"
               PROVE  t \in ApiThreads
    BY DEF OnlyApiCalls
  <1>1. Inv
    BY DEF OneApiInv, OrderInv
  <1>2. Moves(t) /\ Len(table) \in Nat
    BY <1>1, Steps, ThreadFits
  <1>3. CASE thread[t].phase = "calling"
    BY <1>3 DEF OneApiInv, OnlyApiCalls
  <1>4. CASE \E a \in ActionIds : ExecuteStart(t, a)
    BY <1>4 DEF ExecuteStart
  <1> QED
    BY <1>1, <1>2, <1>3, <1>4, IdleIsState, StatesOfThreads DEF Moves

\* The event e is about an action that has been evaluated.
FollowsUp(e) == \E f \in Everything : f.action = e.action /\ f.key = e.key

\* How a process comes to know an event.
Learns(th, e) ==
    /\ Learned(ProcessOf[th], e)
    /\ \/ e \in Rows
       \/ \E k \in Keys : /\ Propose(th, k)
                          /\ IsPolicy(e) /\ e.key = k
                          /\ \A f \in Everything : f.action # e.action
       \/ \E a \in ActionIds : /\ Approve(th, a) \/ Reject(th, a)
                               /\ e.action = a
                               /\ e.type \in DecisionTypes
                               /\ FollowsUp(e)
       \/ /\ th \in ApiThreads
          /\ e.type \in {"precondition_failed", "provider_accepted"}
          /\ FollowsUp(e)
       \/ e.type \in VerificationTypes /\ FollowsUp(e)

LEMMA FollowsKnown ==
    ASSUME Inv, NEW th \in Threads, NEW a \in ActionIds, NEW e,
           MemoryOf(th).status[a] # NoValue,
           e.action = a, e.key = KeyOf(MemoryOf(th), a)
    PROVE  FollowsUp(e)
  <1> DEFINE f == mem[ProcessOf[th]].log[a][1]
  <1>1. f \in Everything /\ f.action = a /\ f.key = e.key
    BY StatusIsLogged, ThreadsAssumption DEF Inv, MemoryOf, KeyOf
  <1> QED
    BY <1>1 DEF FollowsUp

LEMMA HowEventsSpread ==
    ASSUME OneApiInv, [Next]_vars
    PROVE  \/ table' = table /\ mem' = mem
           \/ \E th \in Threads : Save(th)
           \/ \E p \in Processes : Crash(p)
           \/ \E th \in Threads : \E e : Learns(th, e)
  <1>0. Inv
    BY DEF OneApiInv, OrderInv
  <1>1. CASE \E th \in Threads : RestoreRow(th)
    <2>1. PICK th \in Threads : RestoreRow(th)
      BY <1>1
    <2>2. PICK i \in thread[th].todo :
              /\ mem' = [mem EXCEPT ![ProcessOf[th]] = Restored(@, table[i])]
              /\ table' = table
      BY <2>1 DEF RestoreRow
    <2>3. mem' = mem \/ Learned(ProcessOf[th], table[i])
      BY <1>0, <2>2, RestoreRowEffect
    <2>4. table[i] \in Rows
      BY <1>0 DEF Inv, Types, Rows, ElementsOf
    <2> QED
      BY <2>2, <2>3, <2>4 DEF Learns
  <1>2. CASE \E th \in Threads, k \in Keys : Propose(th, k)
    BY <1>0, <1>2, ProposeEffect DEF Learns
  <1>3. CASE \E th \in Threads, a \in ActionIds : Approve(th, a) \/ Reject(th, a)
    <2>1. PICK th \in Threads, a \in ActionIds : Approve(th, a) \/ Reject(th, a)
      BY <1>3
    <2>2. PICK e \in Event : /\ Learned(ProcessOf[th], e)
                             /\ e.type \in DecisionTypes
                             /\ e.action = a /\ e.key = KeyOf(MemoryOf(th), a)
      BY <1>0, <2>1, DecisionEffect
    <2>3. MemoryOf(th).status[a] # NoValue
      BY <2>1, AbsentIsNone DEF Approve, Reject, ActionStatus
    <2>4. FollowsUp(e)
      BY <1>0, <2>2, <2>3, FollowsKnown
    <2> QED
      BY <2>1, <2>2, <2>4 DEF Learns
  <1>4. CASE \E th \in Threads, a \in ActionIds : Verify(th, a)
    <2>1. PICK th \in Threads, a \in ActionIds : Verify(th, a)
      BY <1>4
    <2>2. PICK e \in Event : /\ Learned(ProcessOf[th], e)
                             /\ e.type \in VerificationTypes
                             /\ e.action = a /\ e.key = KeyOf(MemoryOf(th), a)
      BY <1>0, <2>1, VerifyEffect
    <2>3. MemoryOf(th).status[a] # NoValue
      BY <2>1, AbsentIsNone DEF Verify, VERIFIABLE_STATUSES, ActionStatus
    <2>4. FollowsUp(e)
      BY <1>0, <2>2, <2>3, FollowsKnown
    <2> QED
      BY <2>2, <2>4 DEF Learns
  <1>5. CASE \E th \in Threads, a \in ActionIds : ExecuteIneligible(th, a)
    <2>1. PICK th \in Threads, a \in ActionIds : ExecuteIneligible(th, a)
      BY <1>5
    <2>2. PICK e \in Event : /\ Learned(ProcessOf[th], e)
                             /\ e.type = "precondition_failed"
                             /\ e.action = a /\ e.key = KeyOf(MemoryOf(th), a)
      BY <1>0, <2>1, IneligibleEffect
    <2>3. MemoryOf(th).status[a] # NoValue /\ th \in ApiThreads
      BY <2>1, AbsentIsNone DEF ExecuteIneligible, MayExecute, ActionStatus
    <2>4. FollowsUp(e)
      BY <1>0, <2>2, <2>3, FollowsKnown
    <2> QED
      BY <2>2, <2>3, <2>4 DEF Learns
  <1>6. CASE \E th \in Threads : ProviderAccepts(th)
    <2>1. PICK th \in Threads : ProviderAccepts(th)
      BY <1>6
    <2> DEFINE a == thread[th].action
    <2>2. PICK e \in Event : /\ Learned(ProcessOf[th], e)
                             /\ e.type = "provider_accepted"
                             /\ e.action = a /\ e.key = KeyOf(MemoryOf(th), a)
      BY <1>0, <2>1, AcceptEffect
    <2>3. /\ MemoryOf(th).status[a] # NoValue /\ a \in ActionIds
          /\ th \in ApiThreads
      BY <1>0, <2>1, CallingKnows DEF ProviderAccepts, OneApiInv, OnlyApiCalls
    <2>4. FollowsUp(e)
      BY <1>0, <2>2, <2>3, FollowsKnown
    <2> QED
      BY <2>2, <2>3, <2>4 DEF Learns
  <1>7. CASE \/ \E th \in Threads : \/ Load(th) \/ Finish(th)
                                    \/ ProviderFails(th) \/ SaveFails(th)
             \/ \E th \in Threads, a \in ActionIds : Repeat(th, a) \/ ExecuteStart(th, a)
             \/ UNCHANGED vars
    BY <1>7 DEF Load, Finish, ProviderFails, SaveFails, Repeat, ExecuteStart, vars
  <1> QED
    BY <1>1, <1>2, <1>3, <1>4, <1>5, <1>6, <1>7 DEF Next

LEMMA OthersOnlyVerifyStep ==
    ASSUME OneApiInv, OneApiProcess, [Next]_vars
    PROVE  OthersOnlyVerify'
  <1> SUFFICES ASSUME NEW q \in Processes \ {ApiProcess}, NEW e \in KnownBy(mem'[q])
               PROVE  e \in Rows' \/ e.type \in VerificationTypes
    BY DEF OthersOnlyVerify
  <1>0. Inv
    BY DEF OneApiInv, OrderInv
  <1>1. Rows \subseteq Rows'
    BY <1>0, Steps DEF RowsStay, Rows, ElementsOf
  <1>2. e \in KnownBy(mem[q]) => e \in Rows \/ e.type \in VerificationTypes
    BY DEF OneApiInv, OthersOnlyVerify
  <1>3. CASE e \in KnownBy(mem[q])
    BY <1>1, <1>2, <1>3
  <1>4. CASE e \notin KnownBy(mem[q])
    <2>1. CASE mem' = mem
      BY <1>4, <2>1
    <2>2. CASE \E th \in Threads : Save(th)
      BY <1>4, <2>2 DEF Save
    <2>3. CASE \E p \in Processes : Crash(p)
      <3>1. PICK p \in Processes : /\ KnownBy(mem'[p]) = {}
                                   /\ \A r \in Processes \ {p} : mem'[r] = mem[r]
        BY <1>0, <2>3, CrashKeepsStored DEF Inv, Crash
      <3> QED
        BY <1>4, <3>1
    <2>4. CASE \E th \in Threads : \E f : Learns(th, f)
      <3>1. PICK th \in Threads : \E f : Learns(th, f)
        BY <2>4
      <3>2. PICK f : Learns(th, f)
        BY <3>1
      <3>3. ProcessOf[th] \in Processes
        BY ThreadsAssumption
      <3>4. q = ProcessOf[th] /\ e = f
        BY <1>4, <3>2, <3>3 DEF Learns, Learned
      <3>5. th \notin ApiThreads
        BY <3>4, ApiThreadsAreHere
      <3> QED
        BY <1>1, <3>2, <3>4, <3>5 DEF Learns, Propose, Approve, Reject
    <2> QED
      BY <2>1, <2>2, <2>3, <2>4, HowEventsSpread
  <1> QED
    BY <1>3, <1>4

\* A refusal or an approval comes where nothing was decided before it.
LEMMA DecisionIsFirst ==
    ASSUME OneApiInv, OneApiProcess, NEW th \in Threads, NEW a \in ActionIds,
           Approve(th, a) \/ Reject(th, a),
           NEW f \in Decided, f.action = a
    PROVE  f.type \notin RefusalTypes \cup {"approved"}
  <1> DEFINE m == mem[ApiProcess]
  <1>1. /\ Inv /\ ApiProcess \in Processes /\ th \in ApiThreads /\ Ready(th)
        /\ m.status[a] = "approval_required"
    BY ApiThreadsAreHere DEF OneApiInv, OrderInv, Approve, Reject, MemoryOf
  <1> SUFFICES ASSUME f.type \in RefusalTypes \cup {"approved"}
               PROVE  FALSE
    OBVIOUS
  <1>2. f.type \notin VerificationTypes
    BY DEF RefusalTypes, VerificationTypes, TERMINAL_VERIFICATION_STATUSES
  <1>3. f \in ElementsOf(m.log[a])
    BY <1>1, <1>2, ReadyKnowsDecisions
  <1>4. IsPolicy(f) \/ f.stage = "execution"
    BY <1>1, <1>3 DEF Inv, Stored, MemoriesFit, LogFits, ElementsOf
  <1>5. WellFormed(f)
    <2>1. f \in Everything
      BY <1>1 DEF Decided, Everything
    <2> QED
      BY <1>1, <2>1 DEF Inv, Stored, EventsAgree
  <1> QED
    BY <1>4, <1>5 DEF WellFormed, IsPolicy, RefusalTypes

\* A key that is proposed has not been decided about.
LEMMA KeyIsNew ==
    ASSUME OneApiInv, OneApiProcess, NEW th \in Threads, NEW k \in Keys,
           Propose(th, k), NEW f \in Decided
    PROVE  f.key # k
  <1> DEFINE m == mem[ApiProcess]
  <1>1. /\ Inv /\ ApiProcess \in Processes /\ th \in ApiThreads /\ Ready(th)
        /\ m.keys[k] = NoValue
    BY ApiThreadsAreHere DEF OneApiInv, OrderInv, Propose, MemoryOf
  <1>2. f \in Everything
    BY <1>1 DEF Decided, Everything
  <1>3. PICK g \in Decided : IsPolicy(g) /\ g.key = f.key
    BY <1>2, PolicyIsDecided
  <1>4. g.type \notin VerificationTypes
    BY <1>3 DEF IsPolicy, VerificationTypes, TERMINAL_VERIFICATION_STATUSES
  <1>5. g \in ElementsOf(m.log[g.action]) /\ g.action \in ActionIds
    BY <1>1, <1>4, ReadyKnowsDecisions
  <1>6. m.keys[g.key] # NoValue
    BY <1>1, <1>3, <1>5 DEF Inv, Stored, MemoriesFit, LogFits, ElementsOf
  <1> QED
    BY <1>1, <1>3, <1>6

LEMMA CompatibleStep ==
    ASSUME OneApiInv, OneApiProcess, [Next]_vars
    PROVE  DecisionsAreCompatible'
  <1>0. Inv /\ ApiProcess \in Processes
    BY ApiThreadsAreHere DEF OneApiInv, OrderInv
  <1>1. ASSUME Decided' \subseteq Decided
        PROVE  DecisionsAreCompatible'
    BY <1>1 DEF OneApiInv, DecisionsAreCompatible
  <1>2. CASE table' = table /\ mem' = mem
    BY <1>1, <1>2 DEF Decided, Rows
  <1>3. CASE \E th \in Threads : Save(th)
    <2>1. PICK th \in Threads : Save(th)
      BY <1>3
    <2> DEFINE p == ProcessOf[th]
    <2> DEFINE E == {e \in KnownBy(mem[p]) : e \notin Decided}
    <2>2. Rows' \subseteq Rows \cup KnownBy(mem[p]) /\ mem' = mem /\ p \in Processes
      BY <1>0, <2>1, SaveEffect, ThreadsAssumption
    <2>3. Decided' \subseteq Decided \cup E
      BY <2>2 DEF Decided
    <2>4. ASSUME NEW e \in E
          PROVE  /\ e.type \notin RefusalTypes \cup {"approved"}
                 /\ \E f \in Everything : f.action = e.action /\ f.key = e.key
      <3>1. e \in Everything
        BY <2>2 DEF Everything
      <3>2. p # ApiProcess /\ e \notin Rows
        BY DEF Decided
      <3>3. e.type \in VerificationTypes
        BY <2>2, <3>2 DEF OneApiInv, OthersOnlyVerify
      <3>4. e.type \notin RefusalTypes \cup {"approved"}
        BY <3>3 DEF RefusalTypes, VerificationTypes, TERMINAL_VERIFICATION_STATUSES
      <3> QED
        BY <3>1, <3>4
    <2> HIDE DEF E
    <2> QED
      BY <2>3, <2>4, PlainEventsAreCompatible
  <1>4. CASE \E p \in Processes : Crash(p)
    <2>1. PICK p \in Processes : /\ table' = table
                                 /\ KnownBy(mem'[p]) = {}
                                 /\ \A r \in Processes \ {p} : mem'[r] = mem[r]
      BY <1>0, <1>4, CrashKeepsStored DEF Inv, Crash
    <2>2. Decided' \subseteq Decided
      BY <1>0, <2>1 DEF Decided, Rows
    <2> QED
      BY <1>1, <2>2
  <1>5. CASE \E th \in Threads : \E e : Learns(th, e)
    <2>1. PICK th \in Threads : \E e : Learns(th, e)
      BY <1>5
    <2>2. PICK e : Learns(th, e)
      BY <2>1
    <2>3. Learned(ProcessOf[th], e)
      BY <2>2 DEF Learns
    <2>4. Decided' \subseteq Decided \cup {e}
      BY <1>0, <2>3, ThreadsAssumption DEF Learned, Decided, Rows
    <2>5. CASE e \in Rows
      BY <1>1, <2>4, <2>5 DEF Decided
    <2>6. ASSUME Compatible(e, e),
                  \A f \in Decided : Compatible(e, f) /\ Compatible(f, e)
           PROVE  DecisionsAreCompatible'
      <3> DEFINE E == {e}
      <3>1. /\ Decided' \subseteq Decided \cup E
            /\ \A f, g \in E : Compatible(f, g)
            /\ \A f \in E, g \in Decided : Compatible(f, g) /\ Compatible(g, f)
        BY <2>4, <2>6
      <3>2. DecisionsAreCompatible
        BY DEF OneApiInv
      <3> HIDE DEF E
      <3> QED
        BY <3>1, <3>2, CompatibilityGrows
    <2>7. CASE e.type \notin RefusalTypes \cup {"approved"} /\ FollowsUp(e)
      <3> DEFINE E == {e}
      <3>1. \A f \in E : /\ f.type \notin RefusalTypes \cup {"approved"}
                         /\ \E g \in Everything : g.action = f.action /\ g.key = f.key
        BY <2>7 DEF FollowsUp
      <3>2. Decided' \subseteq Decided \cup E
        BY <2>4
      <3> HIDE DEF E
      <3> QED
        BY <3>1, <3>2, PlainEventsAreCompatible
    <2>8. CASE \E k \in Keys : /\ Propose(th, k)
                               /\ IsPolicy(e) /\ e.key = k
                               /\ \A f \in Everything : f.action # e.action
      <3>1. PICK k \in Keys : Propose(th, k) /\ IsPolicy(e) /\ e.key = k
                              /\ \A f \in Everything : f.action # e.action
        BY <2>8
      <3>2. \A f \in Decided : f.key # e.key /\ f.action # e.action
        BY <1>0, <3>1, KeyIsNew DEF Decided, Everything
      <3>3. e.type \notin RefusalTypes \cup {"approved"}
        BY <3>1 DEF IsPolicy, RefusalTypes
      <3>4. Compatible(e, e) /\ \A f \in Decided : Compatible(e, f) /\ Compatible(f, e)
        BY <3>2, <3>3 DEF Compatible
      <3> QED
        BY <2>6, <3>4
    <2>9. CASE \E a \in ActionIds : /\ Approve(th, a) \/ Reject(th, a)
                                    /\ e.action = a
                                    /\ e.type \in DecisionTypes
                                    /\ FollowsUp(e)
      <3>1. \A f \in Decided : f.action = e.action =>
                f.type \notin RefusalTypes \cup {"approved"}
        BY <2>9, DecisionIsFirst
      <3>2. PICK g \in Decided : g.action = e.action /\ g.key = e.key
        BY <2>9, PolicyIsDecided DEF FollowsUp
      <3>3. \A f \in Decided : f.key = e.key => f.action = e.action
        BY <3>2 DEF OneApiInv, DecisionsAreCompatible, Compatible
      <3>4. Compatible(e, e)
        BY DEF Compatible, RefusalTypes
      <3>5. \A f \in Decided : Compatible(e, f) /\ Compatible(f, e)
        BY <3>1, <3>3 DEF Compatible
      <3> QED
        BY <2>6, <3>4, <3>5
    <2>10. CASE /\ e.type \in {"precondition_failed", "provider_accepted"}
                    \cup VerificationTypes
               /\ FollowsUp(e)
      <3>1. e.type \notin RefusalTypes \cup {"approved"}
        BY <2>10 DEF RefusalTypes, VerificationTypes, TERMINAL_VERIFICATION_STATUSES
      <3> QED
        BY <2>7, <2>10, <3>1
    <2> QED
      BY <2>2, <2>5, <2>8, <2>9, <2>10 DEF Learns
  <1> QED
    BY <1>2, <1>3, <1>4, <1>5, HowEventsSpread

\* One API process with any number of threads, beside any number of workers.
THEOREM OneApiInvHolds ==
    ASSUME InOrder, OneApiProcess
    PROVE  Spec => []OneApiInv
  <1>1. Init => OneApiInv
    <2> SUFFICES ASSUME Init
                 PROVE  OneApiInv
      OBVIOUS
    <2>1. Inv
      BY InitInv
    <2>2. table = <<>> /\ mem = [p \in Processes |-> EmptyMemory]
          /\ thread = [th \in Threads |-> Idle]
      BY DEF Init
    <2>3. RowsAreRestored /\ AcceptanceIsHonoured /\ OnlyApiCalls
      BY <2>2 DEF Idle, RowsAreRestored, AcceptanceIsHonoured, OnlyApiCalls
    <2>4. KnownBy(EmptyMemory) = {}
      BY DEF EmptyMemory, KnownBy, ElementsOf
    <2>5. ApiKnowsDecisions
      BY <2>2 DEF ApiKnowsDecisions, Idle, Threads
    <2>6. OthersOnlyVerify
      BY <2>2, <2>4 DEF OthersOnlyVerify
    <2>7. Decided = {}
      BY <2>2, <2>4, ApiThreadsAreHere DEF Decided, Rows, ElementsOf
    <2>8. DecisionsAreCompatible
      BY <2>7 DEF DecisionsAreCompatible
    <2> QED
      BY <2>1, <2>3, <2>5, <2>6, <2>8 DEF OneApiInv, OrderInv
  <1>2. OneApiInv /\ [Next]_vars => OneApiInv'
    <2> SUFFICES ASSUME OneApiInv, [Next]_vars
                 PROVE  OneApiInv'
      OBVIOUS
    <2>1. OrderInv'
      BY InvStep, RestoredStep, HonouredStep DEF OneApiInv, OrderInv
    <2> QED
      BY <2>1, KnowsDecisionsStep, OnlyApiCallsStep, OthersOnlyVerifyStep,
         CompatibleStep DEF OneApiInv
  <1> QED
    BY <1>1, <1>2, PTL DEF Spec

\* approve and reject of one API process never both take effect: what a person
\* refused the provider is never asked to do.
THEOREM RefusalsStand ==
    ASSUME InOrder, OneApiProcess
    PROVE  Spec => []RefusedIsNeverAccepted
  <1>1. OneApiInv => RefusedIsNeverAccepted
    <2> SUFFICES ASSUME OneApiInv, NEW a \in ActionIds,
                        HasRow(a, {"rejected", "approval_denied"}),
                        HasRow(a, {"provider_accepted"})
                 PROVE  FALSE
      BY DEF RefusedIsNeverAccepted
    <2>1. PICK i \in DOMAIN table : table[i].action = a /\ table[i].type \in RefusalTypes
      BY DEF HasRow, RefusalTypes
    <2>2. PICK j \in DOMAIN table :
              table[j].action = a /\ table[j].type = "provider_accepted"
      BY DEF HasRow
    <2>3. Supported(table[j], Before(table, j))
      BY DEF OneApiInv, OrderInv, Inv, Stored, RowsAreSupported
    <2>4. PICK k \in 1..(j - 1) : table[k].action = a /\ table[k].type = "approved"
      BY <2>2, <2>3 DEF Supported, HasCauses, Cause, Before
    <2>5. k \in DOMAIN table
      <3>1. DOMAIN table = 1..Len(table) /\ Len(table) \in Nat
        BY LenProperties DEF OneApiInv, OrderInv, Inv, Types
      <3> QED
        BY <2>2, <3>1
    <2>6. Compatible(table[i], table[k])
      BY <2>5 DEF OneApiInv, DecisionsAreCompatible, Decided, Rows, ElementsOf
    <2> QED
      BY <2>1, <2>4, <2>6 DEF Compatible
  <1> QED
    BY <1>1, OneApiInvHolds, PTL

\* propose answers a key it knows with the action on record; with one API
\* process a key never gets a second action, not after a restart either.
THEOREM KeysHaveOneAction ==
    ASSUME InOrder, OneApiProcess
    PROVE  Spec => []OneRecordedActionPerKey
  <1>1. OneApiInv => OneRecordedActionPerKey
    BY DEF OneApiInv, DecisionsAreCompatible, Decided, Rows, ElementsOf, Compatible,
           OneRecordedActionPerKey
  <1> QED
    BY <1>1, OneApiInvHolds, PTL

-----------------------------------------------------------------------------
(* One request at a time and one verifying process.                        *)

LEMMA VerifyingThreadsAreThere ==
    ASSUME OneVerifyingProcess
    PROVE  /\ VerifyingProcess \in Processes
           /\ \A th \in Verifiers : ProcessOf[th] = VerifyingProcess
  BY DEF OneVerifyingProcess, VerifyingProcess

\* The rank of an event says what kind it is.
LEMMA RankOfEvent ==
    ASSUME NEW e, WellFormed(e)
    PROVE  /\ Rank(e) \in 0..4
           /\ Rank(e) = 0 <=> IsPolicy(e)
           /\ Rank(e) = 1 <=> e.type \in DecisionTypes
           /\ Rank(e) = 2 <=> e.type = "provider_accepted"
           /\ Rank(e) = 3 <=> e.type = "verification_pending"
           /\ Rank(e) = 4 <=> e.type \in TERMINAL_VERIFICATION_STATUSES
           /\ Rank(e) >= 3 <=> e.type \in VerificationTypes
           /\ e.stage = "execution" => Rank(e) = 1
           /\ e.status = "provider_accepted" => Rank(e) = 2
           /\ e.status = "verification_pending" => Rank(e) = 3
           /\ e.status \in VERIFIABLE_STATUSES => Rank(e) \in {2, 3}
  <1>1. /\ IsPolicy(e) => e.type \notin LaterTypes
        /\ ~IsPolicy(e) => e.type \in LaterTypes
        /\ e.stage = "execution" => e.type = "precondition_failed"
        /\ e.status = "provider_accepted" => e.type = "provider_accepted"
        /\ e.status = "verification_pending" => e.type = "verification_pending"
    <2>1. IsPolicy(e) => e.type \notin LaterTypes
      BY DEF IsPolicy, LaterTypes, VerificationTypes, RefusalTypes,
             TERMINAL_VERIFICATION_STATUSES
    <2>2. e.stage = "execution" => e.type = "precondition_failed"
      BY DEF WellFormed
    <2> QED
      BY <2>1, <2>2, StatusOfEvent DEF WellFormed
  <1>2. /\ Rank(e) \in 0..4
        /\ Rank(e) = 0 <=> IsPolicy(e)
        /\ Rank(e) = 2 <=> e.type = "provider_accepted"
        /\ Rank(e) = 3 <=> e.type = "verification_pending"
        /\ Rank(e) = 4 <=> e.type \in TERMINAL_VERIFICATION_STATUSES
    BY DEF Rank, IsPolicy, TERMINAL_VERIFICATION_STATUSES
  <1>3. e.type \in DecisionTypes <=>
            /\ ~IsPolicy(e) /\ e.type # "provider_accepted"
            /\ e.type # "verification_pending"
            /\ e.type \notin TERMINAL_VERIFICATION_STATUSES
    BY <1>1 DEF IsPolicy, DecisionTypes, LaterTypes, VerificationTypes, RefusalTypes,
                TERMINAL_VERIFICATION_STATUSES
  <1>4. Rank(e) = 1 <=> e.type \in DecisionTypes
    BY <1>2, <1>3
  <1>5. Rank(e) >= 3 <=> e.type \in VerificationTypes
    BY <1>2 DEF VerificationTypes
  <1>6. e.stage = "execution" => Rank(e) = 1
    BY <1>1, <1>4 DEF DecisionTypes
  <1> QED
    BY <1>1, <1>2, <1>4, <1>5, <1>6 DEF VERIFIABLE_STATUSES

\* An event keeps up with itself.
LEMMA RankIsNumber ==
    ASSUME NEW e
    PROVE  Rank(e) \in 0..4 /\ Follows(e, e) /\ Single(e, e)
  <1>1. Rank(e) \in 0..4
    BY DEF Rank
  <1> QED
    BY <1>1 DEF Follows, Single

LEMMA SerialFacts ==
    ASSUME SerialInv
    PROVE  /\ OneApiInv /\ Inv
           /\ \A e \in Everything : WellFormed(e) /\ e \in Event
           /\ \A p \in Processes : KnownBy(mem[p]) \subseteq Everything
           /\ Rows \subseteq Everything
  <1>1. OneApiInv /\ Inv
    BY DEF SerialInv, OneApiInv, OrderInv
  <1>2. \A e \in Everything : e \in Event
    BY <1>1, ElementOfSeq, LenProperties
    DEF Inv, Types, Everything, Rows, ElementsOf, KnownBy, Memory
  <1> QED
    BY <1>1, <1>2 DEF Inv, Stored, EventsAgree, Everything

\* An event that is not among the rows yet, and what makes it.
Makes(th, e) ==
    /\ Learned(ProcessOf[th], e) /\ Adds(ProcessOf[th], e)
    /\ \/ \E k \in Keys : /\ Propose(th, k)
                          /\ IsPolicy(e) /\ \A f \in Everything : f.action # e.action
       \/ /\ Approve(th, e.action) \/ Reject(th, e.action)
          /\ e.type \in DecisionTypes /\ e.stage = "lifecycle"
       \/ /\ ExecuteIneligible(th, e.action)
          /\ e.type = "precondition_failed" /\ e.stage = "execution"
       \/ /\ ProviderAccepts(th) /\ thread[th].action = e.action
          /\ e.type = "provider_accepted"
       \/ Verify(th, e.action) /\ e.type \in VerificationTypes

LEMMA HowLogsChange ==
    ASSUME Inv, [Next]_vars
    PROVE  \/ table' = table /\ mem' = mem
           \/ \E th \in Threads : Save(th)
           \/ \E p \in Processes : Crash(p)
           \/ \E th \in Threads : RestoreRow(th)
           \/ \E th \in Threads : \E e : Makes(th, e)
  <1>1. CASE \E th \in Threads, k \in Keys : Propose(th, k)
    <2>1. PICK th \in Threads, k \in Keys : Propose(th, k)
      BY <1>1
    <2>2. PICK e \in Event : /\ Learned(ProcessOf[th], e) /\ Adds(ProcessOf[th], e)
                             /\ IsPolicy(e) /\ \A f \in Everything : f.action # e.action
      BY <2>1, ProposeEffect
    <2> QED
      BY <2>1, <2>2 DEF Makes
  <1>2. CASE \E th \in Threads, a \in ActionIds : Approve(th, a) \/ Reject(th, a)
    <2>1. PICK th \in Threads, a \in ActionIds : Approve(th, a) \/ Reject(th, a)
      BY <1>2
    <2>2. PICK e \in Event : /\ Learned(ProcessOf[th], e) /\ Adds(ProcessOf[th], e)
                             /\ e.type \in DecisionTypes /\ e.stage = "lifecycle"
                             /\ e.action = a
      BY <2>1, DecisionEffect
    <2> QED
      BY <2>1, <2>2 DEF Makes
  <1>3. CASE \E th \in Threads, a \in ActionIds : Verify(th, a)
    <2>1. PICK th \in Threads, a \in ActionIds : Verify(th, a)
      BY <1>3
    <2>2. PICK e \in Event : /\ Learned(ProcessOf[th], e) /\ Adds(ProcessOf[th], e)
                             /\ e.type \in VerificationTypes /\ e.action = a
      BY <2>1, VerifyEffect
    <2> QED
      BY <2>1, <2>2 DEF Makes
  <1>4. CASE \E th \in Threads, a \in ActionIds : ExecuteIneligible(th, a)
    <2>1. PICK th \in Threads, a \in ActionIds : ExecuteIneligible(th, a)
      BY <1>4
    <2>2. PICK e \in Event : /\ Learned(ProcessOf[th], e) /\ Adds(ProcessOf[th], e)
                             /\ e.type = "precondition_failed" /\ e.stage = "execution"
                             /\ e.action = a
      BY <2>1, IneligibleEffect
    <2> QED
      BY <2>1, <2>2 DEF Makes
  <1>5. CASE \E th \in Threads : ProviderAccepts(th)
    <2>1. PICK th \in Threads : ProviderAccepts(th)
      BY <1>5
    <2>2. PICK e \in Event : /\ Learned(ProcessOf[th], e) /\ Adds(ProcessOf[th], e)
                             /\ e.type = "provider_accepted"
                             /\ e.action = thread[th].action
      BY <2>1, AcceptEffect
    <2> QED
      BY <2>1, <2>2 DEF Makes
  <1>6. CASE \/ \E th \in Threads : \/ Load(th) \/ Finish(th)
                                    \/ ProviderFails(th) \/ SaveFails(th)
             \/ \E th \in Threads, a \in ActionIds : Repeat(th, a) \/ ExecuteStart(th, a)
             \/ UNCHANGED vars
    BY <1>6 DEF Load, Finish, ProviderFails, SaveFails, Repeat, ExecuteStart, vars
  <1> QED
    BY <1>1, <1>2, <1>3, <1>4, <1>5, <1>6 DEF Next

\* What a process knows is in the log of its action.
LEMMA KnownIsLogged ==
    ASSUME Inv, NEW p \in Processes, NEW e \in KnownBy(mem[p])
    PROVE  /\ e.action \in ActionIds
           /\ e \in ElementsOf(mem[p].log[e.action])
           /\ mem[p].status[e.action] # NoValue
  <1>1. PICK a \in ActionIds : \E n \in DOMAIN mem[p].log[a] : mem[p].log[a][n] = e
    BY KnownMeansLogged
  <1>2. e.action = a /\ mem[p].log[a] # <<>>
    BY <1>1 DEF Inv, Stored, MemoriesFit, LogFits
  <1>3. mem[p].status[a] # NoValue
    BY <1>2 DEF Inv, Stored, MemoriesFit, LogFits
  <1> QED
    BY <1>1, <1>2, <1>3 DEF ElementsOf

LEMMA LoggedIsKnown ==
    ASSUME Inv, NEW p \in Processes, NEW a \in ActionIds, NEW n \in DOMAIN mem[p].log[a]
    PROVE  /\ mem[p].log[a][n] \in KnownBy(mem[p])
           /\ mem[p].log[a][n].action = a
           /\ mem[p].log[a][n] \in Everything
  <1>1. mem[p].log[a][n] \in KnownBy(mem[p])
    BY DEF KnownBy, ElementsOf
  <1>2. LogFits(mem[p], a)
    BY DEF Inv, Stored, MemoriesFit
  <1>3. mem[p].log[a][n].action = a
    BY <1>2 DEF LogFits
  <1> QED
    BY <1>1, <1>3 DEF Everything

\* The order of a log outlives an event that follows what is there.
LEMMA GrownLogsAreSorted ==
    ASSUME Inv, LogsAreSorted, NEW p \in Processes, NEW e,
           \A q \in Processes \ {p} : mem'[q] = mem[q], Grows(p, e),
           \A f \in KnownBy(mem[p]) : Follows(e, f)
    PROVE  LogsAreSorted'
  <1> SUFFICES ASSUME NEW q \in Processes, NEW a \in ActionIds
               PROVE  Sorted(mem'[q].log[a]) /\ Current(mem'[q], a)
    BY DEF LogsAreSorted
  <1>0. Sorted(mem[q].log[a]) /\ Current(mem[q], a)
    BY DEF LogsAreSorted
  <1>1. CASE q # p
    BY <1>0, <1>1
  <1>2. CASE q = p /\ a # e.action
    <2>1. mem'[q].log[a] = mem[q].log[a] /\ mem'[q].status[a] = mem[q].status[a]
      BY <1>2 DEF Grows
    <2> QED
      BY <1>0, <2>1, Zenon DEF Current
  <1>3. CASE q = p /\ a = e.action
    <2> DEFINE s == mem[p].log[a]
    <2> DEFINE t == mem'[p].log[a]
    <2> DEFINE l == Len(s)
    <2>1. s \in Seq(Event) /\ e \in Event /\ t = Append(s, e)
      <3>1. mem[p] \in Memory
        BY DEF Inv, Types
      <3>2. s \in Seq(Event)
        BY <3>1 DEF Memory
      <3>3. e \in Event /\ t = Append(s, e)
        BY <1>3 DEF Grows
      <3> QED
        BY <3>2, <3>3
    <2>2. \A n \in DOMAIN s : s[n] \in KnownBy(mem[p])
      BY LoggedIsKnown
    <2>3. \/ mem'[p].status[a] = e.status
          \/ /\ mem'[p].status[a] = mem[p].status[a]
             /\ e.stage = "execution" /\ s # <<>>
      BY <1>3 DEF Grows
    <2>4. Sorted(s)
      BY <1>0, <1>3
    <2>5. s # <<>> =>
              \E n \in DOMAIN s :
                  /\ mem[p].status[a] = s[n].status
                  /\ \A k \in DOMAIN s : n < k => s[k].stage = "execution"
      BY <1>0, <1>3 DEF Current
    <2> HIDE DEF s, t
    <2>6. /\ l \in Nat /\ DOMAIN s = 1..l /\ DOMAIN t = 1..(l + 1) /\ t[l + 1] = e
          /\ \A i \in DOMAIN s : i \in DOMAIN t /\ t[i] = s[i]
          /\ \A i \in DOMAIN t : i \in DOMAIN s \/ i = l + 1
      BY <2>1, AppendFacts
    <2> HIDE DEF l
    <2>7. /\ \A i, j \in DOMAIN t : i < j => i \in DOMAIN s
          /\ \A k \in DOMAIN t : ~(l + 1 < k)
          /\ l + 1 \in DOMAIN t
      BY <2>6
    <2>8. Sorted(t)
      <3> SUFFICES ASSUME NEW i \in DOMAIN t, NEW j \in DOMAIN t, i < j
                   PROVE  Follows(t[j], t[i])
        BY DEF Sorted
      <3>1. i \in DOMAIN s /\ t[i] = s[i]
        BY <2>6, <2>7
      <3>2. CASE j \in DOMAIN s
        BY <2>4, <2>6, <3>1, <3>2 DEF Sorted
      <3>3. CASE j = l + 1
        BY <2>2, <2>6, <3>1, <3>3
      <3> QED
        BY <2>6, <3>2, <3>3
    <2>9. \E n \in DOMAIN t : /\ mem'[p].status[a] = t[n].status
                              /\ \A k \in DOMAIN t : n < k => t[k].stage = "execution"
      <3>1. CASE mem'[p].status[a] = e.status
        BY <2>6, <2>7, <3>1
      <3>2. CASE /\ mem'[p].status[a] = mem[p].status[a]
                 /\ e.stage = "execution" /\ s # <<>>
        <4>1. PICK n \in DOMAIN s :
                  /\ mem[p].status[a] = s[n].status
                  /\ \A k \in DOMAIN s : n < k => s[k].stage = "execution"
          BY <2>5, <3>2
        <4>2. \A k \in DOMAIN t : n < k => t[k].stage = "execution"
          BY <2>6, <3>2, <4>1
        <4> QED
          BY <2>6, <3>2, <4>1, <4>2
      <3> QED
        BY <2>3, <3>1, <3>2
    <2> QED
      BY <1>3, <2>8, <2>9 DEF Current, t
  <1> QED
    BY <1>1, <1>2, <1>3

\* A verdict rests on an acceptance that its process knows or the table holds.
LEMMA AcceptedFirst ==
    ASSUME SerialInv, OneApiProcess, NEW e \in Everything, e.type \in VerificationTypes
    PROVE  /\ \E g \in Decided : g.action = e.action /\ g.type = "provider_accepted"
           /\ \A q \in Processes \ {ApiProcess} : e \in KnownBy(mem[q]) =>
                 \E g \in Rows : g.action = e.action /\ g.type = "provider_accepted"
  <1>1. Inv /\ OneApiInv /\ ApiProcess \in Processes
    BY SerialFacts, ApiThreadsAreHere
  <1>2. ASSUME NEW S, Supported(e, S)
        PROVE  \E g \in S : g.action = e.action /\ g.type = "provider_accepted"
    BY <1>2 DEF Supported, HasCauses, Cause
  <1>3. ASSUME e \in Rows
        PROVE  \E g \in Rows : g.action = e.action /\ g.type = "provider_accepted"
    <2>1. PICK n \in DOMAIN table : table[n] = e
      BY <1>3 DEF Rows, ElementsOf
    <2>2. Supported(e, Before(table, n))
      BY <1>1, <2>1 DEF Inv, Stored, RowsAreSupported
    <2>3. Before(table, n) \subseteq Rows
      <3>1. DOMAIN table = 1..Len(table) /\ Len(table) \in Nat
        BY <1>1, LenProperties DEF Inv, Types
      <3> QED
        BY <3>1 DEF Before, Rows, ElementsOf
    <2> QED
      BY <1>2, <2>2, <2>3
  <1>4. ASSUME NEW q \in Processes, e \in KnownBy(mem[q]), e \notin Rows
        PROVE  \E g \in Rows \cup KnownBy(mem[q]) :
                   g.action = e.action /\ g.type = "provider_accepted"
    <2>1. PICK a \in ActionIds : \E n \in DOMAIN mem[q].log[a] : mem[q].log[a][n] = e
      BY <1>4, KnownMeansLogged
    <2>2. PICK n \in DOMAIN mem[q].log[a] : mem[q].log[a][n] = e
      BY <2>1
    <2>3. LogIsSupported(mem[q].log[a], Rows)
      BY <1>1, <1>4 DEF Inv, Stored, LogsAreSupported
    <2>4. Supported(e, Rows \cup Before(mem[q].log[a], n))
      BY <1>4, <2>2, <2>3 DEF LogIsSupported
    <2>5. Before(mem[q].log[a], n) \subseteq KnownBy(mem[q])
      <3> DEFINE s == mem[q].log[a]
      <3>1. s \in Seq(Event)
        BY <1>1, <1>4 DEF Inv, Types, Memory
      <3>2. \A i \in DOMAIN s : s[i] \in KnownBy(mem[q])
        BY <1>1, <1>4, LoggedIsKnown
      <3>3. n \in DOMAIN s
        OBVIOUS
      <3> HIDE DEF s
      <3>4. DOMAIN s = 1..Len(s) /\ Len(s) \in Nat
        BY <3>1, LenProperties
      <3>5. Before(s, n) \subseteq KnownBy(mem[q])
        BY <3>2, <3>3, <3>4 DEF Before
      <3> QED
        BY <3>5 DEF s
    <2> QED
      BY <1>2, <2>4, <2>5
  <1>5. ASSUME NEW g \in Everything, g.type = "provider_accepted"
        PROVE  g \in Decided
    <2>1. g.type \notin VerificationTypes
      BY <1>5 DEF VerificationTypes, TERMINAL_VERIFICATION_STATUSES
    <2> QED
      BY <1>1, <2>1 DEF OneApiInv, OthersOnlyVerify, Decided, Everything
  <1>6. \E g \in Decided : g.action = e.action /\ g.type = "provider_accepted"
    <2>1. CASE e \in Rows
      BY <1>3, <2>1 DEF Decided
    <2>2. CASE e \notin Rows
      <3>1. PICK q \in Processes : e \in KnownBy(mem[q])
        BY <2>2 DEF Everything
      <3>2. PICK g \in Rows \cup KnownBy(mem[q]) :
                g.action = e.action /\ g.type = "provider_accepted"
        BY <1>4, <2>2, <3>1
      <3>3. g \in Everything
        BY <3>2 DEF Everything
      <3> QED
        BY <1>5, <3>2, <3>3
    <2> QED
      BY <2>1, <2>2
  <1>7. ASSUME NEW q \in Processes \ {ApiProcess}, e \in KnownBy(mem[q])
        PROVE  \E g \in Rows : g.action = e.action /\ g.type = "provider_accepted"
    <2>1. CASE e \in Rows
      BY <1>3, <2>1
    <2>2. CASE e \notin Rows
      <3>1. PICK g \in Rows \cup KnownBy(mem[q]) :
                g.action = e.action /\ g.type = "provider_accepted"
        BY <1>4, <1>7, <2>2
      <3>2. g.type \notin VerificationTypes
        BY <3>1 DEF VerificationTypes, TERMINAL_VERIFICATION_STATUSES
      <3>3. g \in Rows
        BY <1>1, <3>1, <3>2 DEF OneApiInv, OthersOnlyVerify
      <3> QED
        BY <3>1, <3>3
    <2> QED
      BY <2>1, <2>2
  <1> QED
    BY <1>6, <1>7

\* Where the API, about to decide, knows of no acceptance, there is none, and
\* it knows everything there is.
LEMMA NotYetAccepted ==
    ASSUME SerialInv, OneApiProcess, NEW th \in ApiThreads, Ready(th), NEW a \in ActionIds,
           \A g \in ElementsOf(MemoryOf(th).log[a]) : g.type # "provider_accepted",
           NEW f \in Everything, f.action = a
    PROVE  /\ Rank(f) <= 1 /\ f.type # "provider_accepted"
           /\ f \in ElementsOf(MemoryOf(th).log[a])
           /\ f \in KnownBy(MemoryOf(th))
  <1>1. /\ Inv /\ OneApiInv /\ ApiProcess \in Processes /\ WellFormed(f)
        /\ MemoryOf(th) = mem[ApiProcess]
    BY SerialFacts, ApiThreadsAreHere DEF MemoryOf
  <1>2. ASSUME NEW g \in Decided, g.action = a, g.type \notin VerificationTypes
        PROVE  g \in ElementsOf(MemoryOf(th).log[a]) /\ g.type # "provider_accepted"
    BY <1>1, <1>2, ReadyKnowsDecisions
  <1>3. "provider_accepted" \notin VerificationTypes
    BY DEF VerificationTypes, TERMINAL_VERIFICATION_STATUSES
  <1>4. f.type \notin VerificationTypes
    <2> SUFFICES ASSUME f.type \in VerificationTypes
                 PROVE  FALSE
      OBVIOUS
    <2>1. PICK g \in Decided : g.action = f.action /\ g.type = "provider_accepted"
      BY AcceptedFirst
    <2> QED
      BY <1>2, <1>3, <2>1
  <1>5. f \in Decided
    BY <1>1, <1>4 DEF OneApiInv, OthersOnlyVerify, Decided, Everything
  <1>6. f \in ElementsOf(MemoryOf(th).log[a]) /\ f.type # "provider_accepted"
    BY <1>2, <1>4, <1>5
  <1>7. Rank(f) <= 1
    BY <1>1, <1>4, <1>6, RankOfEvent
  <1> QED
    BY <1>6, <1>7 DEF KnownBy

\* Where a process about to verify may do so, it knows every row of the action,
\* and nobody knows a verdict that ends it.
LEMMA NotYetSettled ==
    ASSUME SerialInv, OneVerifyingProcess, NEW th \in Verifiers, Ready(th),
           NEW a \in ActionIds, MemoryOf(th).status[a] \in VERIFIABLE_STATUSES,
           NEW f \in Everything, f.action = a
    PROVE  Rank(f) <= 3 /\ (f \in Rows => f \in KnownBy(MemoryOf(th)))
  <1> DEFINE p == ProcessOf[th]
  <1> DEFINE s == mem[p].log[a]
  <1>1. /\ Inv /\ p \in Processes /\ p = VerifyingProcess /\ MemoryOf(th) = mem[p]
        /\ th \in Threads
    BY SerialFacts, VerifyingThreadsAreThere, ThreadsAssumption DEF MemoryOf
  <1>2. \A e \in Everything : WellFormed(e)
    BY SerialFacts
  <1>3. s # <<>>
    BY <1>1, AbsentIsNone DEF Inv, Stored, MemoriesFit, LogFits, VERIFIABLE_STATUSES,
                              ActionStatus
  <1>4. Sorted(s) /\ Current(mem[p], a)
    BY <1>1 DEF SerialInv, EventsInOrder, LogsAreSorted
  <1>5. PICK n \in DOMAIN s :
            /\ mem[p].status[a] = s[n].status
            /\ \A k \in DOMAIN s : n < k => s[k].stage = "execution"
    BY <1>3, <1>4 DEF Current
  <1>6. \A k \in DOMAIN s : /\ s[k] \in KnownBy(mem[p]) /\ s[k].action = a
                            /\ s[k] \in Everything
    BY <1>1, LoggedIsKnown
  <1>7. Rank(s[n]) \in {2, 3}
    BY <1>1, <1>2, <1>5, <1>6, RankOfEvent
  <1>8. ASSUME NEW g \in Everything, g.type \in VerificationTypes,
               g \in Rows \/ Rank(g) = 4
        PROVE  g \in KnownBy(mem[p])
    <2>1. g \in Rows \/ g \in KnownBy(mem[p])
      BY <1>1, <1>8 DEF Everything, SerialInv, OthersDoNotVerify
    <2>2. CASE g \in Rows
      <3>1. PICK i \in DOMAIN table : table[i] = g
        BY <2>2 DEF Rows, ElementsOf
      <3>2. Knows(th, i)
        BY <1>8, <3>1 DEF SerialInv, VerifierKnowsVerdicts, Ready
      <3> QED
        BY <1>1, <3>1, <3>2, KnownRow DEF Knows
    <2> QED
      BY <2>1, <2>2
  <1>9. Rank(f) <= 3
    <2> SUFFICES ASSUME Rank(f) = 4
                 PROVE  FALSE
      <3>1. Rank(f) \in 0..4
        BY <1>2, RankOfEvent
      <3> QED
        BY <3>1
    <2>1. f.type \in VerificationTypes /\ f.stage # "execution"
      BY <1>2, RankOfEvent
    <2>2. f \in ElementsOf(s)
      BY <1>1, <1>8, <2>1, KnownIsLogged
    <2>3. PICK k \in DOMAIN s : s[k] = f
      BY <2>2 DEF ElementsOf
    <2>4. ~(n < k)
      BY <1>5, <2>1, <2>3
    <2>5. k = n \/ k < n
      <3>1. s \in Seq(Event)
        BY <1>1 DEF Inv, Types, Memory
      <3>2. n \in DOMAIN s /\ k \in DOMAIN s
        OBVIOUS
      <3> HIDE DEF s
      <3>3. n \in Nat /\ k \in Nat
        BY <3>1, <3>2, LenProperties
      <3> QED
        BY <2>4, <3>3
    <2>6. CASE k = n
      BY <1>7, <2>3, <2>6
    <2>7. CASE k < n
      <3>1. Follows(s[n], s[k])
        BY <1>4, <2>7 DEF Sorted
      <3>2. 4 <= Rank(s[n])
        BY <1>6, <2>3, <3>1 DEF Follows
      <3> QED
        BY <1>7, <3>2
    <2> QED
      BY <2>5, <2>6, <2>7
  <1>10. ASSUME f \in Rows, f \notin KnownBy(mem[p])
         PROVE  FALSE
    <2>1. Follows(f, s[n])
      BY <1>1, <1>6, <1>10 DEF SerialInv, EventsInOrder, UnknownFollow
    <2>2. Rank(s[n]) <= Rank(f)
      BY <1>6, <2>1 DEF Follows
    <2>3. f.type \notin VerificationTypes
      BY <1>8, <1>10
    <2>4. Rank(f) = 2 /\ Rank(s[n]) = 2
      BY <1>2, <1>7, <1>9, <2>2, <2>3, RankOfEvent
    <2>5. Single(f, s[n])
      BY <1>6 DEF SerialInv, EventsInOrder, StepsAreSingle
    <2>6. f = s[n]
      BY <1>6, <2>4, <2>5 DEF Single
    <2> QED
      BY <1>6, <1>10, <2>6
  <1> QED
    BY <1>1, <1>9, <1>10

\* A key without receipt belongs to an action without acceptance.
LEMMA NoReceiptNoAcceptance ==
    ASSUME Inv, NEW p \in Processes, NEW a \in ActionIds, mem[p].status[a] # NoValue,
           KeyOf(mem[p], a) \notin mem[p].receipts,
           NEW g \in ElementsOf(mem[p].log[a])
    PROVE  g.type # "provider_accepted"
  <1> DEFINE f == mem[p].log[a][1]
  <1>1. f \in Everything /\ g \in Everything /\ f.action = a /\ g.action = a
    BY StatusIsLogged DEF Inv
  <1>2. f.key = g.key
    BY <1>1 DEF Inv, Stored, EventsAgree, Agree
  <1>3. g.type = "provider_accepted" => g.key \in mem[p].receipts
    BY DEF Inv, Stored, MemoriesFit, LogFits, ElementsOf
  <1> QED
    BY <1>2, <1>3 DEF KeyOf

\* A new event comes after all there is of its action, and its process knows
\* every row of it.
Continues(p, e) ==
    /\ \A f \in Everything : Follows(e, f) /\ Single(e, f) /\ Single(f, e)
    /\ \A f \in Rows : f.action = e.action => f \in KnownBy(mem[p])

LEMMA NewEventsContinue ==
    ASSUME SerialInv, OneApiProcess, OneVerifyingProcess, Inv',
           NEW th \in Threads, NEW e, Makes(th, e)
    PROVE  Continues(ProcessOf[th], e)
  <1> DEFINE p == ProcessOf[th]
  <1>1. Inv /\ OneApiInv /\ p \in Processes /\ MemoryOf(th) = mem[p]
    BY SerialFacts, ThreadsAssumption DEF MemoryOf
  <1>2. \A f \in Everything : WellFormed(f)
    BY SerialFacts
  <1>3. WellFormed(e) /\ e.action \in ActionIds
    <2>1. e \in Everything'
      BY <1>1 DEF Makes, Learned, Everything
    <2>2. WellFormed(e)
      BY <2>1 DEF Inv, Stored, EventsAgree
    <2>3. e \in Event
      BY DEF Makes, Adds, Grows
    <2> QED
      BY <2>2, <2>3 DEF Event
  <1>4. ASSUME NEW f \in Everything, f.action # e.action
        PROVE  Follows(e, f) /\ Single(e, f) /\ Single(f, e)
    BY <1>4 DEF Follows, Single
  <1>5. Rows \subseteq Everything
    BY DEF Everything
  <1>6. CASE \E k \in Keys : /\ Propose(th, k)
                             /\ IsPolicy(e) /\ \A f \in Everything : f.action # e.action
    BY <1>4, <1>5, <1>6 DEF Continues
  <1>7. ASSUME \A f \in Everything : f.action = e.action =>
                   /\ Rank(f) <= Rank(e)
                   /\ Rank(f) = Rank(e) =>
                         /\ Rank(e) \notin {2, 4}
                         /\ e.stage # "lifecycle" \/ f.stage # "lifecycle"
                   /\ f \in Rows => f \in KnownBy(mem[p])
        PROVE  Continues(p, e)
    <2>1. ASSUME NEW f \in Everything, f.action = e.action
          PROVE  Follows(e, f) /\ Single(e, f) /\ Single(f, e)
      BY <1>7, <2>1 DEF Follows, Single
    <2> QED
      BY <1>4, <1>5, <1>7, <2>1 DEF Continues
  <1>8. CASE /\ Approve(th, e.action) \/ Reject(th, e.action)
             /\ e.type \in DecisionTypes /\ e.stage = "lifecycle"
    <2>1. /\ th \in ApiThreads /\ Ready(th)
          /\ mem[p].status[e.action] = "approval_required"
      BY <1>1, <1>8 DEF Approve, Reject
    <2>2. \A g \in ElementsOf(mem[p].log[e.action]) : IsPolicy(g) \/ g.stage = "execution"
      <3>1. LogFits(mem[p], e.action)
        BY <1>1, <1>3 DEF Inv, Stored, MemoriesFit
      <3> QED
        BY <2>1, <3>1 DEF LogFits, ElementsOf
    <2>3. \A g \in ElementsOf(mem[p].log[e.action]) :
              g \in Everything /\ Rank(g) \in {0, 1}
      <3>1. \A g \in ElementsOf(mem[p].log[e.action]) : g \in Everything
        BY <1>1, <1>3, LoggedIsKnown DEF ElementsOf
      <3> QED
        BY <1>2, <2>2, <3>1, RankOfEvent
    <2>4. \A g \in ElementsOf(mem[p].log[e.action]) : g.type # "provider_accepted"
      BY <1>2, <2>3, RankOfEvent
    <2>5. ASSUME NEW f \in Everything, f.action = e.action
          PROVE  /\ Rank(f) <= 1 /\ f \in KnownBy(mem[p])
                 /\ f \in ElementsOf(mem[p].log[e.action])
      BY <1>1, <1>3, <2>1, <2>4, <2>5, NotYetAccepted
    <2>6. Rank(e) = 1
      BY <1>3, <1>8, RankOfEvent
    <2>7. ASSUME NEW f \in Everything, f.action = e.action, Rank(f) = 1
          PROVE  f.stage # "lifecycle"
      <3>1. IsPolicy(f) \/ f.stage = "execution"
        BY <2>2, <2>5, <2>7
      <3>2. ~IsPolicy(f)
        BY <1>2, <2>7, RankOfEvent
      <3> QED
        BY <3>1, <3>2
    <2> QED
      BY <1>7, <2>5, <2>6, <2>7
  <1>9. CASE /\ ExecuteIneligible(th, e.action)
             /\ e.type = "precondition_failed" /\ e.stage = "execution"
    <2>1. /\ th \in ApiThreads /\ Ready(th)
          /\ mem[p].status[e.action] = "approved"
          /\ KeyOf(mem[p], e.action) \notin mem[p].receipts
      BY <1>1, <1>9 DEF ExecuteIneligible, MayExecute
    <2>2. \A g \in ElementsOf(mem[p].log[e.action]) : g.type # "provider_accepted"
      BY <1>1, <1>3, <2>1, NoReceiptNoAcceptance, AbsentIsNone DEF ActionStatus
    <2>3. ASSUME NEW f \in Everything, f.action = e.action
          PROVE  Rank(f) <= 1 /\ f \in KnownBy(mem[p])
      BY <1>1, <1>3, <2>1, <2>2, <2>3, NotYetAccepted
    <2>4. Rank(e) = 1
      BY <1>3, <1>9, RankOfEvent
    <2> QED
      BY <1>7, <1>9, <2>3, <2>4
  <1>10. CASE /\ ProviderAccepts(th) /\ thread[th].action = e.action
              /\ e.type = "provider_accepted"
    <2>1. thread[th].phase = "calling"
      BY <1>10 DEF ProviderAccepts
    <2>2. /\ \A f \in Everything : f.action = e.action => f.type # "provider_accepted"
          /\ \A f \in Rows : f.action = e.action => f \in KnownBy(mem[p])
      BY <1>1, <1>10, <2>1 DEF SerialInv, CallIsFirst
    <2>3. ASSUME NEW f \in Everything, f.action = e.action
          PROVE  Rank(f) \in {0, 1}
      <3>1. f.type \notin VerificationTypes
        <4>1. \A g \in Decided : g.action = e.action => g.type # "provider_accepted"
          BY <2>2, ApiThreadsAreHere DEF Decided, Everything
        <4> QED
          BY <2>3, <4>1, AcceptedFirst
      <3> QED
        BY <1>2, <2>2, <2>3, <3>1, RankOfEvent
    <2>4. Rank(e) = 2
      BY <1>3, <1>10, RankOfEvent
    <2> QED
      BY <1>7, <2>2, <2>3, <2>4
  <1>11. CASE Verify(th, e.action) /\ e.type \in VerificationTypes
    <2>1. /\ th \in Verifiers /\ Ready(th)
          /\ MemoryOf(th).status[e.action] \in VERIFIABLE_STATUSES
      BY <1>11 DEF Verify
    <2>2. ASSUME NEW f \in Everything, f.action = e.action
          PROVE  Rank(f) \in 0..3 /\ (f \in Rows => f \in KnownBy(mem[p]))
      <3>1. Rank(f) <= 3 /\ (f \in Rows => f \in KnownBy(mem[p]))
        BY <1>1, <1>3, <2>1, <2>2, NotYetSettled
      <3>2. Rank(f) \in 0..4
        BY <1>2, RankOfEvent
      <3> QED
        BY <3>1, <3>2
    <2>3. Rank(e) \in {3, 4}
      <3>1. Rank(e) \in 0..4 /\ Rank(e) >= 3
        BY <1>3, <1>11, RankOfEvent
      <3> QED
        BY <3>1
    <2>4. ASSUME NEW f \in Everything, f.action = e.action
          PROVE  /\ Rank(f) <= Rank(e)
                 /\ Rank(f) = Rank(e) => Rank(e) = 3
      BY <2>2, <2>3, <2>4
    <2> QED
      BY <1>4, <1>5, <2>2, <2>3, <2>4 DEF Continues, Follows, Single
  <1> QED
    BY <1>6, <1>8, <1>9, <1>10, <1>11 DEF Makes

\* Nothing new: the same table, and memories that are the same or empty.
LEMMA OrderedWhenNothingIsNew ==
    ASSUME Inv, EventsInOrder, table' = table,
           \A q \in Processes : mem'[q] = mem[q] \/ mem'[q] = EmptyMemory
    PROVE  EventsInOrder'
  <1>1. /\ KnownBy(EmptyMemory) = {}
        /\ \A a \in ActionIds : EmptyMemory.log[a] = <<>>
    BY DEF EmptyMemory, KnownBy, ElementsOf
  <1>2. Rows' = Rows
    BY DEF Rows
  <1>3. \A q \in Processes : KnownBy(mem'[q]) = KnownBy(mem[q]) \/ KnownBy(mem'[q]) = {}
    BY <1>1
  <1>4. Everything' \subseteq Everything
    BY <1>2, <1>3 DEF Everything
  <1>5. StepsAreSingle'
    BY <1>4 DEF EventsInOrder, StepsAreSingle
  <1>6. Sorted(table)'
    BY DEF EventsInOrder
  <1>7. LogsAreSorted'
    <2> SUFFICES ASSUME NEW q \in Processes, NEW a \in ActionIds
                 PROVE  Sorted(mem'[q].log[a]) /\ Current(mem'[q], a)
      BY DEF LogsAreSorted
    <2>1. Sorted(mem[q].log[a]) /\ Current(mem[q], a)
      BY DEF EventsInOrder, LogsAreSorted
    <2>2. CASE mem'[q] = mem[q]
      BY <2>1, <2>2
    <2>3. CASE mem'[q] = EmptyMemory
      <3>1. mem'[q].log[a] = <<>>
        BY <1>1, <2>3
      <3>2. Sorted(<<>>)
        BY DEF Sorted
      <3> QED
        BY <3>1, <3>2 DEF Current
    <2> QED
      BY <2>2, <2>3
  <1>8. UnsavedFollow'
    BY <1>2, <1>3 DEF EventsInOrder, UnsavedFollow
  <1>9. UnknownFollow'
    <2> SUFFICES ASSUME NEW q \in Processes, NEW e \in KnownBy(mem'[q]),
                        NEW f \in Rows \ KnownBy(mem'[q])
                 PROVE  Follows(f, e)
      BY <1>2 DEF UnknownFollow
    <2>1. KnownBy(mem'[q]) = KnownBy(mem[q])
      BY <1>3
    <2> QED
      BY <2>1 DEF EventsInOrder, UnknownFollow
  <1> QED
    BY <1>5, <1>6, <1>7, <1>8, <1>9 DEF EventsInOrder

\* A new event is the last of its action.
LEMMA OrderedWhenMade ==
    ASSUME SerialInv, OneApiProcess, OneVerifyingProcess, Inv',
           NEW th \in Threads, NEW e, Makes(th, e)
    PROVE  EventsInOrder'
  <1> DEFINE p == ProcessOf[th]
  <1>1. Inv /\ p \in Processes /\ EventsInOrder
    BY SerialFacts, ThreadsAssumption DEF SerialInv
  <1>2. /\ table' = table /\ Grows(p, e)
        /\ \A q \in Processes \ {p} : mem'[q] = mem[q]
        /\ KnownBy(mem'[p]) = KnownBy(mem[p]) \cup {e}
    BY DEF Makes, Adds, Learned
  <1>3. /\ \A f \in Everything : Follows(e, f) /\ Single(e, f) /\ Single(f, e)
        /\ \A f \in Rows : f.action = e.action => f \in KnownBy(mem[p])
    BY NewEventsContinue DEF Continues
  <1> HIDE DEF p
  <1>4. Rows' = Rows
    BY <1>2 DEF Rows
  <1>5. Everything' \subseteq Everything \cup {e}
    BY <1>1, <1>2, <1>4 DEF Everything
  <1>6. StepsAreSingle'
    <2>1. Single(e, e)
      BY DEF Single
    <2> QED
      BY <1>1, <1>3, <1>5, <2>1 DEF EventsInOrder, StepsAreSingle
  <1>7. Sorted(table)'
    BY <1>1, <1>2 DEF EventsInOrder
  <1>8. LogsAreSorted'
    <2>1. \A f \in KnownBy(mem[p]) : Follows(e, f)
      BY <1>1, <1>3 DEF Everything
    <2> QED
      BY <1>1, <1>2, <2>1, GrownLogsAreSorted DEF EventsInOrder
  <1>9. UnsavedFollow'
    <2> SUFFICES ASSUME NEW q \in Processes, NEW g \in KnownBy(mem'[q]) \ Rows, NEW f \in Rows
                 PROVE  Follows(g, f)
      BY <1>4 DEF UnsavedFollow
    <2>1. CASE g \in KnownBy(mem[q])
      BY <1>1, <2>1 DEF EventsInOrder, UnsavedFollow
    <2>2. CASE g = e
      BY <1>3, <2>2 DEF Everything
    <2> QED
      BY <1>2, <2>1, <2>2
  <1>10. UnknownFollow'
    <2> SUFFICES ASSUME NEW q \in Processes, NEW g \in KnownBy(mem'[q]),
                        NEW f \in Rows \ KnownBy(mem'[q])
                 PROVE  Follows(f, g)
      BY <1>4 DEF UnknownFollow
    <2>1. f \notin KnownBy(mem[q])
      BY <1>2
    <2>2. CASE g \in KnownBy(mem[q])
      BY <1>1, <2>1, <2>2 DEF EventsInOrder, UnknownFollow
    <2>3. CASE g = e /\ q = p
      <3>1. f.action # e.action
        BY <1>3, <2>1, <2>3
      <3> QED
        BY <2>3, <3>1 DEF Follows
    <2> QED
      BY <1>2, <2>2, <2>3
  <1> QED
    BY <1>6, <1>7, <1>8, <1>9, <1>10 DEF EventsInOrder

\* Rows are restored from the first to the last.
LEMMA OrderedWhenRestored ==
    ASSUME OrderInv, EventsInOrder, TodoIsFetched, InOrder, NEW th \in Threads, RestoreRow(th)
    PROVE  EventsInOrder'
  <1> DEFINE p == ProcessOf[th]
  <1>1. Inv /\ p \in Processes
    BY ThreadsAssumption DEF OrderInv
  <1>2. PICK i \in thread[th].todo :
            /\ \A j \in thread[th].todo : i <= j
            /\ mem' = [mem EXCEPT ![ProcessOf[th]] = Restored(@, table[i])]
            /\ table' = table
    BY DEF RestoreRow
  <1> DEFINE e == table[i]
  <1>3. i \in DOMAIN table /\ e \in Rows
    BY <1>1 DEF Inv, Types, Rows, ElementsOf
  <1>4. mem' = mem \/ (Learned(p, e) /\ Grows(p, e) /\ e.id \notin IdsOf(mem[p]))
    BY <1>1, <1>2, RestoreRowEffect
  <1>5. CASE mem' = mem
    BY <1>1, <1>2, <1>5, OrderedWhenNothingIsNew
  <1>6. CASE Learned(p, e) /\ Grows(p, e) /\ e.id \notin IdsOf(mem[p])
    <2>1. /\ Rows' = Rows
          /\ \A q \in Processes \ {p} : mem'[q] = mem[q]
          /\ KnownBy(mem'[p]) = KnownBy(mem[p]) \cup {e}
      BY <1>6 DEF Learned, Rows
    <2>2. e \notin KnownBy(mem[p])
      BY <1>6 DEF IdsOf
    <2>3. \A f \in Rows \ KnownBy(mem[p]) : Follows(f, e)
      <3> SUFFICES ASSUME NEW f \in Rows \ KnownBy(mem[p])
                   PROVE  Follows(f, e)
        OBVIOUS
      <3>1. PICK j \in DOMAIN table : table[j] = f
        BY DEF Rows, ElementsOf
      <3>2. CASE i < j
        BY <1>3, <3>1, <3>2 DEF EventsInOrder, Sorted
      <3>3. CASE j = i
        BY <3>1, <3>3, RankIsNumber DEF Follows
      <3>4. CASE j < i
        <4>1. /\ Len(table) \in Nat /\ DOMAIN table = 1..Len(table)
              /\ thread[th].upto \in 0..Len(table)
          BY <1>1, ThreadFits DEF ThreadState
        <4>2. thread[th].phase = "ready" /\ i \in 1..thread[th].upto
          BY <1>2 DEF TodoIsFetched
        <4>3. j \in 1..thread[th].upto /\ ~(i <= j)
          BY <1>3, <3>1, <3>4, <4>1, <4>2
        <4>4. Knows(th, j)
          BY <1>2, <4>2, <4>3 DEF OrderInv, RowsAreRestored
        <4> QED
          BY <1>1, <3>1, <4>4, KnownRow DEF Knows, MemoryOf
      <3>5. i < j \/ j = i \/ j < i
        <4>1. Len(table) \in Nat /\ DOMAIN table = 1..Len(table)
          BY <1>1, ThreadFits
        <4> QED
          BY <1>3, <4>1
      <3> QED
        BY <3>2, <3>3, <3>4, <3>5
    <2>4. Everything' \subseteq Everything
      BY <1>1, <1>3, <2>1 DEF Everything
    <2> HIDE DEF p, e
    <2>5. StepsAreSingle'
      BY <2>4 DEF EventsInOrder, StepsAreSingle
    <2>6. Sorted(table)'
      BY <1>2 DEF EventsInOrder
    <2>7. LogsAreSorted'
      <3>1. \A f \in KnownBy(mem[p]) : Follows(e, f)
        BY <1>1, <1>3, <2>2 DEF EventsInOrder, UnknownFollow
      <3> QED
        BY <1>1, <1>6, <2>1, <3>1, GrownLogsAreSorted DEF EventsInOrder
    <2>8. UnsavedFollow'
      BY <1>3, <2>1 DEF EventsInOrder, UnsavedFollow
    <2>9. UnknownFollow'
      <3> SUFFICES ASSUME NEW q \in Processes, NEW g \in KnownBy(mem'[q]),
                          NEW f \in Rows \ KnownBy(mem'[q])
                   PROVE  Follows(f, g)
        BY <2>1 DEF UnknownFollow
      <3>1. f \notin KnownBy(mem[q])
        BY <2>1
      <3>2. CASE g \in KnownBy(mem[q])
        BY <3>1, <3>2 DEF EventsInOrder, UnknownFollow
      <3>3. CASE g = e /\ q = p
        BY <2>3, <3>1, <3>3
      <3> QED
        BY <2>1, <3>2, <3>3
    <2> QED
      BY <2>5, <2>6, <2>7, <2>8, <2>9 DEF EventsInOrder
  <1> QED
    BY <1>4, <1>5, <1>6

\* The rows a save inserts come behind the table, in the order of their log.
LEMMA SaveOrder ==
    ASSUME Inv, NEW th \in Threads, Save(th),
           NEW i \in DOMAIN table', NEW j \in DOMAIN table', i < j
    PROVE  LET p == ProcessOf[th]
               log == mem[p].log[thread[th].action]
           IN  \/ i \in DOMAIN table /\ j \in DOMAIN table
               \/ i \in DOMAIN table /\ table'[j] \in KnownBy(mem[p]) \ Rows
               \/ \E n, k \in DOMAIN log :
                     n < k /\ table'[i] = log[n] /\ table'[j] = log[k]
  <1> DEFINE a == thread[th].action
  <1> DEFINE p == ProcessOf[th]
  <1> DEFINE log == mem[p].log[a]
  <1> DEFINE places == {n \in DOMAIN log : log[n].id \notin RowIds}
  <1> DEFINE t == table'
  <1>1. a \in ActionIds /\ p \in Processes
    BY ThreadsAssumption DEF Inv, ThreadsFit, Save
  <1>2. t = table \o EventsAt(log, places)
    BY DEF Save, LogAtHand, Unsaved, MemoryOf
  <1>3. log \in Seq(Event) /\ table \in Seq(Event) /\ places \subseteq DOMAIN log
    BY <1>1 DEF Inv, Types, Memory
  <1>4. ASSUME NEW n \in places
        PROVE  log[n] \in KnownBy(mem[p]) \ Rows
    <2>1. log[n] \in KnownBy(mem[p])
      BY <1>1, LoggedIsKnown
    <2>2. log[n] \notin Rows
      BY DEF RowIds, Rows
    <2> QED
      BY <2>1, <2>2
  <1>5. i \in DOMAIN t /\ j \in DOMAIN t
    OBVIOUS
  <1> HIDE DEF places, log, t, a, p
  <1>6. Insertion(table, log, places, t)
    BY <1>2, <1>3, InsertedRows
  <1>7. PICK place \in [DOMAIN t \ DOMAIN table -> places] :
            /\ \A x \in DOMAIN t \ DOMAIN table : t[x] = log[place[x]]
            /\ \A x, y \in DOMAIN t \ DOMAIN table : x < y <=> place[x] < place[y]
    BY <1>6 DEF Insertion
  <1>8. j \in DOMAIN table => i \in DOMAIN table
    <2>1. /\ Len(table) \in Nat /\ Len(t) \in Nat
          /\ DOMAIN table = 1..Len(table) /\ DOMAIN t = 1..Len(t)
      BY <1>6 DEF Insertion
    <2> QED
      BY <1>5, <2>1
  <1>9. CASE i \in DOMAIN table /\ j \notin DOMAIN table
    <2>1. place[j] \in places /\ t[j] = log[place[j]]
      BY <1>5, <1>7, <1>9
    <2> QED
      BY <1>4, <1>9, <2>1 DEF p, t
  <1>10. CASE i \notin DOMAIN table /\ j \notin DOMAIN table
    <2>1. /\ place[i] \in places /\ t[i] = log[place[i]]
          /\ place[j] \in places /\ t[j] = log[place[j]]
          /\ place[i] < place[j]
      BY <1>5, <1>7, <1>10
    <2>2. \E n, k \in DOMAIN log : n < k /\ t[i] = log[n] /\ t[j] = log[k]
      BY <1>3, <2>1
    <2> QED
      BY <2>2 DEF p, t, a, log
  <1> QED
    BY <1>8, <1>9, <1>10

\* What another than the API has not saved is a verdict: there is nothing else
\* of its action to save anywhere.
LEMMA UnsavedVerdict ==
    ASSUME SerialInv, OneApiProcess, OneVerifyingProcess,
           NEW p \in Processes \ {ApiProcess}, NEW q \in Processes \ {p},
           NEW e \in KnownBy(mem[p]) \ Rows, NEW f \in KnownBy(mem[q]) \ Rows
    PROVE  e.action # f.action
  <1> SUFFICES ASSUME e.action = f.action
               PROVE  FALSE
    OBVIOUS
  <1>1. /\ e \in Everything /\ f \in Everything /\ WellFormed(f)
        /\ Rows \subseteq Everything /\ OneApiInv
    BY SerialFacts
  <1>2. e.type \in VerificationTypes
    BY <1>1 DEF OneApiInv, OthersOnlyVerify
  <1>3. p = VerifyingProcess
    BY <1>2 DEF SerialInv, OthersDoNotVerify
  <1>4. f.type \notin VerificationTypes
    BY <1>3 DEF SerialInv, OthersDoNotVerify
  <1>5. PICK g \in Rows : g.action = e.action /\ g.type = "provider_accepted"
    BY <1>1, <1>2, AcceptedFirst
  <1>6. Follows(f, g) /\ Single(f, g)
    BY <1>1, <1>5 DEF SerialInv, EventsInOrder, UnsavedFollow, StepsAreSingle
  <1>7. Rank(g) = 2
    BY <1>1, <1>5, SerialFacts, RankOfEvent
  <1>8. Rank(f) \in 0..4 /\ ~(Rank(f) >= 3)
    BY <1>1, <1>4, RankOfEvent
  <1>9. Rank(f) = 2
    BY <1>5, <1>6, <1>7, <1>8 DEF Follows
  <1>10. f = g
    BY <1>5, <1>6, <1>7, <1>9 DEF Single
  <1> QED
    BY <1>5, <1>10

LEMMA TwoUnsaved ==
    ASSUME SerialInv, OneApiProcess, OneVerifyingProcess,
           NEW p \in Processes, NEW q \in Processes \ {p},
           NEW e \in KnownBy(mem[p]) \ Rows, NEW f \in KnownBy(mem[q]) \ Rows
    PROVE  e.action # f.action
  <1>1. CASE p # ApiProcess
    BY <1>1, UnsavedVerdict
  <1>2. CASE q # ApiProcess
    <2>1. f.action # e.action
      BY <1>2, UnsavedVerdict
    <2> QED
      BY <2>1
  <1> QED
    BY <1>1, <1>2

LEMMA OrderedWhenSaved ==
    ASSUME SerialInv, OneApiProcess, OneVerifyingProcess, NEW th \in Threads, Save(th)
    PROVE  EventsInOrder'
  <1> DEFINE p == ProcessOf[th]
  <1> DEFINE a == thread[th].action
  <1> DEFINE new == {e \in KnownBy(mem[p]) : e.action = a}
  <1>1. Inv /\ p \in Processes /\ EventsInOrder
    BY SerialFacts, ThreadsAssumption DEF SerialInv
  <1>2. /\ a \in ActionIds /\ mem' = mem
        /\ \A i \in DOMAIN table : table'[i] = table[i]
        /\ Rows' = Rows \cup new
    BY <1>1, SaveEffect
  <1>3. Everything' \subseteq Everything
    BY <1>1, <1>2 DEF Everything
  <1>4. StepsAreSingle'
    BY <1>1, <1>3 DEF EventsInOrder, StepsAreSingle
  <1>5. LogsAreSorted'
    BY <1>1, <1>2 DEF EventsInOrder, LogsAreSorted
  <1>6. Sorted(table)'
    <2> SUFFICES ASSUME NEW i \in DOMAIN table', NEW j \in DOMAIN table', i < j
                 PROVE  Follows(table'[j], table'[i])
      BY DEF Sorted
    <2>1. CASE i \in DOMAIN table /\ j \in DOMAIN table
      BY <1>1, <1>2, <2>1 DEF EventsInOrder, Sorted
    <2>2. CASE i \in DOMAIN table /\ table'[j] \in KnownBy(mem[p]) \ Rows
      <3>1. table'[i] \in Rows
        BY <1>2, <2>2 DEF Rows, ElementsOf
      <3> QED
        BY <1>1, <2>2, <3>1 DEF EventsInOrder, UnsavedFollow
    <2>3. CASE \E n, k \in DOMAIN mem[p].log[a] :
                  n < k /\ table'[i] = mem[p].log[a][n] /\ table'[j] = mem[p].log[a][k]
      <3> DEFINE log == mem[p].log[a]
      <3>1. Sorted(log)
        BY <1>1, <1>2 DEF EventsInOrder, LogsAreSorted
      <3>2. PICK n, k \in DOMAIN log :
                n < k /\ table'[i] = log[n] /\ table'[j] = log[k]
        BY <2>3
      <3>3. Follows(log[k], log[n])
        BY <3>1, <3>2 DEF Sorted
      <3> QED
        BY <3>2, <3>3
    <2> QED
      BY <1>1, <2>1, <2>2, <2>3, SaveOrder
  <1> HIDE DEF p, a
  <1>7. UnsavedFollow'
    <2> SUFFICES ASSUME NEW q \in Processes, NEW e \in KnownBy(mem[q]) \ Rows',
                        NEW f \in Rows'
                 PROVE  Follows(e, f)
      BY <1>2 DEF UnsavedFollow
    <2>1. e \notin Rows
      BY <1>2
    <2>2. CASE f \in Rows
      BY <1>1, <2>1, <2>2 DEF EventsInOrder, UnsavedFollow
    <2>3. CASE f \in new \ Rows
      <3>1. e.action # f.action
        <4>1. CASE q = p
          BY <1>2, <2>3, <4>1
        <4>2. CASE q # p
          <5>1. q \in Processes \ {p} /\ f \in KnownBy(mem[p]) \ Rows
            BY <2>3, <4>2
          <5>2. f.action # e.action
            BY <1>1, <2>1, <5>1, TwoUnsaved
          <5> QED
            BY <5>2
        <4> QED
          BY <4>1, <4>2
      <3> QED
        BY <3>1 DEF Follows
    <2> QED
      BY <1>2, <2>2, <2>3
  <1>8. UnknownFollow'
    <2> SUFFICES ASSUME NEW q \in Processes, NEW e \in KnownBy(mem[q]),
                        NEW f \in Rows' \ KnownBy(mem[q])
                 PROVE  Follows(f, e)
      BY <1>2 DEF UnknownFollow
    <2>1. CASE f \in Rows
      BY <1>1, <2>1 DEF EventsInOrder, UnknownFollow
    <2>2. CASE f \in KnownBy(mem[p]) \ Rows
      <3>1. CASE e \in Rows
        BY <1>1, <2>2, <3>1 DEF EventsInOrder, UnsavedFollow
      <3>2. CASE e \notin Rows
        <4>1. q \in Processes \ {p}
          BY <2>2
        <4>2. f.action # e.action
          BY <1>1, <2>2, <3>2, <4>1, TwoUnsaved
        <4> QED
          BY <4>2 DEF Follows
      <3> QED
        BY <3>1, <3>2
    <2> QED
      BY <1>2, <2>1, <2>2
  <1> QED
    BY <1>4, <1>5, <1>6, <1>7, <1>8 DEF EventsInOrder

LEMMA EventsInOrderStep ==
    ASSUME SerialInv, InOrder, OneApiProcess, OneVerifyingProcess, [Next]_vars
    PROVE  EventsInOrder'
  <1>1. Inv /\ Inv' /\ OrderInv /\ EventsInOrder /\ TodoIsFetched
    BY SerialFacts, InvStep DEF SerialInv, OneApiInv
  <1>2. CASE table' = table /\ mem' = mem
    BY <1>1, <1>2, OrderedWhenNothingIsNew
  <1>3. CASE \E th \in Threads : Save(th)
    BY <1>3, OrderedWhenSaved
  <1>4. CASE \E p \in Processes : Crash(p)
    <2>1. /\ table' = table
          /\ \A q \in Processes : mem'[q] = mem[q] \/ mem'[q] = EmptyMemory
      BY <1>1, <1>4 DEF Crash, Inv, Types
    <2> QED
      BY <1>1, <2>1, OrderedWhenNothingIsNew
  <1>5. CASE \E th \in Threads : RestoreRow(th)
    BY <1>1, <1>5, OrderedWhenRestored
  <1>6. CASE \E th \in Threads : \E e : Makes(th, e)
    BY <1>1, <1>6, OrderedWhenMade
  <1> QED
    BY <1>1, <1>2, <1>3, <1>4, <1>5, <1>6, HowLogsChange

\* A thread that goes on had restored everything it fetched.
LEMMA GoesOnRestored ==
    ASSUME Inv, TodoIsFetched, [Next]_vars, NEW t \in Threads
    PROVE  \/ thread'[t] \in {thread[t], Idle}
           \/ Load(t) \/ RestoreRow(t)
           \/ thread[t].phase # "idle" /\ thread[t].todo = {}
  <1>0. thread \in [Threads -> ThreadState(Len(table))]
    BY ThreadFits DEF Inv, Types
  <1>1. ASSUME NEW th \in Threads, NEW u, thread' = [thread EXCEPT ![th] = u],
               Ready(th) \/ thread[th].phase \in {"calling", "saving"}
        PROVE  thread'[t] = thread[t] \/ (thread[t].phase # "idle" /\ thread[t].todo = {})
    <2>1. CASE t = th
      BY <1>1, <2>1 DEF Ready, TodoIsFetched
    <2>2. CASE t # th
      BY <1>0, <1>1, <2>2
    <2> QED
      BY <2>1, <2>2
  <1>2. ASSUME NEW th \in Threads, Load(th)
        PROVE  thread'[t] = thread[t] \/ Load(t)
    BY <1>0, <1>2 DEF Load
  <1>3. ASSUME NEW th \in Threads, RestoreRow(th)
        PROVE  thread'[t] = thread[t] \/ RestoreRow(t)
    BY <1>0, <1>3 DEF RestoreRow
  <1>4. CASE \E th \in Threads : \/ Finish(th) \/ ProviderAccepts(th)
                                 \/ ProviderFails(th) \/ Save(th) \/ SaveFails(th)
    BY <1>1, <1>4 DEF Finish, ProviderAccepts, ProviderFails, Save, SaveFails, Saving
  <1>5. CASE \E th \in Threads, k \in Keys : Propose(th, k)
    BY <1>1, <1>5 DEF Propose, Saving
  <1>6. CASE \E th \in Threads, a \in ActionIds :
                 \/ Repeat(th, a) \/ Approve(th, a) \/ Reject(th, a)
                 \/ ExecuteIneligible(th, a) \/ Verify(th, a)
    BY <1>1, <1>6 DEF Repeat, Approve, Reject, ExecuteIneligible, Verify, Saving
  <1>7. CASE \E th \in Threads, a \in ActionIds : ExecuteStart(th, a)
    <2>1. PICK th \in Threads, a \in ActionIds : ExecuteStart(th, a)
      BY <1>7
    <2>2. thread' = [thread EXCEPT ![th] = CallingFor(th, a)]
      <3>1. thread' = [thread EXCEPT ![th].phase = "calling", ![th].action = a]
        BY <2>1 DEF ExecuteStart
      <3> QED
        BY <1>0, <3>1 DEF CallingFor
    <2> QED
      BY <1>1, <2>1, <2>2 DEF ExecuteStart
  <1>8. CASE \E p \in Processes : Crash(p)
    BY <1>8 DEF Crash
  <1>9. CASE UNCHANGED vars
    BY <1>9 DEF vars
  <1> QED
    BY <1>2, <1>3, <1>4, <1>5, <1>6, <1>7, <1>8, <1>9 DEF Next

LEMMA TodoIsFetchedStep ==
    ASSUME Inv, TodoIsFetched, [Next]_vars
    PROVE  TodoIsFetched'
  <1> SUFFICES ASSUME NEW t \in Threads, NEW i \in thread'[t].todo
               PROVE  thread'[t].phase = "ready" /\ i \in 1..thread'[t].upto
    BY DEF TodoIsFetched
  <1>1. Moves(t) /\ Len(table) \in Nat /\ DOMAIN table = 1..Len(table)
    BY Steps, ThreadFits
  <1>2. CASE thread'[t] = thread[t]
    BY <1>2 DEF TodoIsFetched
  <1>3. CASE \/ thread'[t] = Idle \/ thread'[t] = ReadyAgain
             \/ \E a \in ActionIds : thread'[t] = SavingOf(a)
    BY <1>1, <1>3, IdleIsState
  <1>4. CASE thread'[t] = Loaded(t)
    <2>1. /\ thread'[t].phase = "ready" /\ thread'[t].upto = Len(table)
          /\ thread'[t].todo \subseteq DOMAIN table
      BY <1>4, StatesOfThreads DEF News
    <2> QED
      BY <1>1, <2>1
  <1>5. CASE \E a \in ActionIds : ExecuteStart(t, a) /\ thread'[t] = CallingFor(t, a)
    BY <1>5, StatesOfThreads DEF ExecuteStart, Ready
  <1>6. CASE RestoreRow(t) /\ \E j \in thread[t].todo : thread'[t] = Without(t, j)
    <2>1. PICK j : thread'[t] = Without(t, j)
      BY <1>6
    <2>2. /\ thread'[t].phase = thread[t].phase /\ thread'[t].upto = thread[t].upto
          /\ i \in thread[t].todo
      BY <2>1, StatesOfThreads
    <2> QED
      BY <2>2 DEF TodoIsFetched
  <1> QED
    BY <1>1, <1>2, <1>3, <1>4, <1>5, <1>6 DEF Moves

LEMMA VerifierKnowsVerdictsStep ==
    ASSUME SerialInv, InOrder, OneVerifyingProcess, [Next]_vars
    PROVE  VerifierKnowsVerdicts'
  <1> SUFFICES ASSUME NEW t \in Verifiers, thread'[t].phase # "idle",
                      NEW i \in DOMAIN table', table'[i].type \in VerificationTypes
               PROVE  i \in thread'[t].todo \/ Knows(t, i)'
    BY DEF VerifierKnowsVerdicts
  <1>1. /\ Inv /\ t \in Threads /\ ProcessOf[t] = VerifyingProcess
        /\ RowsAreRestored /\ TodoIsFetched
    BY SerialFacts, VerifyingThreadsAreThere, ThreadsAssumption
    DEF SerialInv, OneApiInv, OrderInv
  <1>2. thread'[t] # Idle
    BY DEF Idle
  <1>3. Remembers(t) /\ RowsStay
    BY <1>1, <1>2, Steps
  <1>4. CASE i \notin DOMAIN table
    <2>1. PICK th \in Threads :
              mem' = mem /\ table'[i] \in KnownBy(mem[ProcessOf[th]]) \ Rows
      BY <1>1, <1>4, SavedRow
    <2>2. ProcessOf[th] = VerifyingProcess
      BY <2>1, ThreadsAssumption DEF SerialInv, OthersDoNotVerify
    <2> QED
      BY <1>1, <2>1, <2>2 DEF Knows, IdsOf, MemoryOf
  <1>5. CASE i \in DOMAIN table
    <2>1. table'[i] = table[i]
      BY <1>3, <1>5 DEF RowsStay
    <2>2. ASSUME thread[t].phase # "idle"
          PROVE  i \in thread[t].todo \/ Knows(t, i)'
      <3>1. i \in thread[t].todo \/ Knows(t, i)
        BY <1>5, <2>1, <2>2 DEF SerialInv, VerifierKnowsVerdicts
      <3> QED
        BY <1>1, <1>3, <1>5, <3>1, StillKnown
    <2>3. CASE thread'[t] = thread[t]
      BY <2>2, <2>3
    <2>4. CASE Load(t)
      <3>1. table' = table /\ mem' = mem
        BY <2>4 DEF Load
      <3>2. thread'[t] = Loaded(t)
        BY <1>1, <2>4 DEF Load, Loaded, Inv, Types
      <3> QED
        BY <1>1, <1>5, <3>1, <3>2, StatesOfThreads DEF News, Knows, MemoryOf
    <2>5. CASE RestoreRow(t)
      <3>1. PICK j \in thread[t].todo :
                /\ thread'[t] = Without(t, j)
                /\ (\A k \in 1..(j - 1) : IsPolicy(table[k]) =>
                        k \in thread[t].todo \/ Knows(t, k)) => Knows(t, j)'
        BY <1>1, <2>5, RestoredInOrder
      <3>2. thread[t].phase = "ready" /\ j \in 1..thread[t].upto
        BY <1>1, <3>1 DEF TodoIsFetched
      <3>3. ASSUME NEW k \in 1..(j - 1)
            PROVE  k \in thread[t].todo \/ Knows(t, k)
        <4>1. k \in 1..thread[t].upto
          <5>1. thread[t].upto \in Int
            BY <1>1, ThreadFits DEF ThreadState
          <5> QED
            BY <3>2, <5>1
        <4> QED
          BY <1>1, <3>2, <4>1 DEF RowsAreRestored
      <3>4. Knows(t, j)'
        BY <3>1, <3>3
      <3>5. thread'[t].todo = thread[t].todo \ {j}
        BY <1>1, <3>1, StatesOfThreads
      <3> QED
        BY <2>2, <3>2, <3>4, <3>5
    <2>6. CASE thread[t].phase # "idle" /\ thread[t].todo = {}
      BY <2>2, <2>6
    <2> QED
      BY <1>1, <1>2, <2>3, <2>4, <2>5, <2>6, GoesOnRestored
  <1> QED
    BY <1>4, <1>5

\* What there is, is there already, or has just been made.
LEMMA OnlyMadeIsNew ==
    ASSUME Inv, [Next]_vars
    PROVE  \A q \in Processes : \A e \in KnownBy(mem'[q]) :
              \/ e \in KnownBy(mem[q])
              \/ e \in Rows
              \/ \E th \in Threads : Makes(th, e) /\ q = ProcessOf[th]
  <1> SUFFICES ASSUME NEW q \in Processes, NEW e \in KnownBy(mem'[q]),
                      e \notin KnownBy(mem[q])
               PROVE  e \in Rows \/ \E th \in Threads : Makes(th, e) /\ q = ProcessOf[th]
    OBVIOUS
  <1>1. CASE mem' = mem
    BY <1>1
  <1>2. CASE \E th \in Threads : Save(th)
    BY <1>2 DEF Save
  <1>3. CASE \E p \in Processes : Crash(p)
    <2>1. PICK p \in Processes : /\ KnownBy(mem'[p]) = {}
                                 /\ \A r \in Processes \ {p} : mem'[r] = mem[r]
      BY <1>3, CrashKeepsStored DEF Inv, Crash
    <2> QED
      BY <2>1
  <1>4. CASE \E th \in Threads : RestoreRow(th)
    <2>1. PICK th \in Threads : RestoreRow(th)
      BY <1>4
    <2>2. PICK i \in thread[th].todo :
              /\ mem' = [mem EXCEPT ![ProcessOf[th]] = Restored(@, table[i])]
              /\ table' = table
      BY <2>1 DEF RestoreRow
    <2>3. mem' = mem \/ Learned(ProcessOf[th], table[i])
      BY <2>2, RestoreRowEffect
    <2>4. table[i] \in Rows
      BY DEF Inv, Types, Rows, ElementsOf
    <2>5. Learned(ProcessOf[th], table[i])
      BY <2>3
    <2>6. e = table[i]
      BY <2>5, ThreadsAssumption DEF Learned
    <2> QED
      BY <2>4, <2>6
  <1>5. CASE \E th \in Threads : \E f : Makes(th, f)
    <2>1. PICK th \in Threads : \E f : Makes(th, f)
      BY <1>5
    <2>2. PICK f : Makes(th, f)
      BY <2>1
    <2>3. q = ProcessOf[th] /\ e = f
      BY <2>2, ThreadsAssumption DEF Makes, Learned
    <2> QED
      BY <2>2, <2>3
  <1> QED
    BY <1>1, <1>2, <1>3, <1>4, <1>5, HowLogsChange

LEMMA OthersDoNotVerifyStep ==
    ASSUME SerialInv, OneVerifyingProcess, [Next]_vars
    PROVE  OthersDoNotVerify'
  <1> SUFFICES ASSUME NEW q \in Processes \ {VerifyingProcess}, NEW e \in KnownBy(mem'[q])
               PROVE  e \in Rows' \/ e.type \notin VerificationTypes
    BY DEF OthersDoNotVerify
  <1>1. Inv
    BY SerialFacts
  <1>2. Rows \subseteq Rows'
    BY <1>1, Steps DEF RowsStay, Rows, ElementsOf
  <1>3. CASE e \in KnownBy(mem[q]) \/ e \in Rows
    BY <1>2, <1>3 DEF SerialInv, OthersDoNotVerify
  <1>4. CASE \E th \in Threads : Makes(th, e) /\ q = ProcessOf[th]
    <2>1. PICK th \in Threads : Makes(th, e) /\ q = ProcessOf[th]
      BY <1>4
    <2>2. ~Verify(th, e.action)
      BY <2>1, VerifyingThreadsAreThere DEF Verify
    <2>3. IsPolicy(e) \/ e.type \in DecisionTypes \cup {"precondition_failed", "provider_accepted"}
      BY <2>1, <2>2 DEF Makes
    <2> QED
      BY <2>3 DEF IsPolicy, DecisionTypes, VerificationTypes, TERMINAL_VERIFICATION_STATUSES
  <1> QED
    BY <1>1, <1>3, <1>4, OnlyMadeIsNew

\* While a call is under way nobody else has the action accepted.
LEMMA CallIsFirstStep ==
    ASSUME SerialInv, OneApiProcess, OneRequest, [Next]_vars
    PROVE  CallIsFirst'
  <1> SUFFICES ASSUME NEW t \in Threads, thread'[t].phase = "calling"
               PROVE  LET a == thread'[t].action IN
                      /\ \A e \in Everything' : e.action = a => e.type # "provider_accepted"
                      /\ \A e \in Rows' : e.action = a => e \in KnownBy(mem'[ProcessOf[t]])
    BY DEF CallIsFirst, MemoryOf
  <1>1. Inv /\ OneApiInv
    BY SerialFacts
  <1>2. t \in ApiThreads
    BY <1>1, OnlyApiCallsStep DEF OnlyApiCalls
  <1>3. ProcessOf[t] = ApiProcess /\ ApiProcess \in Processes
    BY <1>2, ApiThreadsAreHere
  <1>4. Moves(t) /\ Remembers(t) /\ RowsStay
    <2>1. thread'[t] # Idle
      BY DEF Idle
    <2> QED
      BY <1>1, <2>1, Steps
  <1>5. CASE \E a \in ActionIds : ExecuteStart(t, a) /\ thread'[t] = CallingFor(t, a)
    <2>1. PICK a \in ActionIds : ExecuteStart(t, a) /\ thread'[t] = CallingFor(t, a)
      BY <1>5
    <2>2. thread'[t].action = a /\ table' = table /\ mem' = mem
      BY <1>1, <2>1, StatesOfThreads DEF ExecuteStart
    <2>3. /\ Ready(t) /\ MemoryOf(t) = mem[ApiProcess]
          /\ mem[ApiProcess].status[a] = "approved"
          /\ KeyOf(mem[ApiProcess], a) \notin mem[ApiProcess].receipts
      BY <1>3, <2>1 DEF ExecuteStart, MayExecute, MemoryOf
    <2>4. \A g \in ElementsOf(mem[ApiProcess].log[a]) : g.type # "provider_accepted"
      BY <1>1, <1>3, <2>3, NoReceiptNoAcceptance, AbsentIsNone DEF ActionStatus
    <2>5. \A f \in Everything : f.action = a =>
              f.type # "provider_accepted" /\ f \in KnownBy(mem[ApiProcess])
      BY <1>2, <2>3, <2>4, NotYetAccepted
    <2>6. Everything' = Everything /\ Rows' = Rows /\ Rows \subseteq Everything
      BY <2>2 DEF Everything, Rows
    <2> QED
      BY <1>3, <2>2, <2>5, <2>6
  <1>6. CASE thread'[t] = thread[t]
    <2> DEFINE a == thread[t].action
    <2>1. /\ \A e \in Everything : e.action = a => e.type # "provider_accepted"
          /\ \A e \in Rows : e.action = a => e \in KnownBy(mem[ApiProcess])
      BY <1>3, <1>6 DEF SerialInv, CallIsFirst, MemoryOf
    <2>2. ASSUME NEW e \in Rows', e \notin Rows
          PROVE  \E q \in Processes : e \in KnownBy(mem[q]) /\ mem' = mem
      <3>1. PICK i \in DOMAIN table' : table'[i] = e
        BY DEF Rows, ElementsOf
      <3>2. i \notin DOMAIN table
        BY <1>4, <2>2, <3>1 DEF RowsStay, Rows, ElementsOf
      <3> QED
        BY <1>1, <3>1, <3>2, SavedRow, ThreadsAssumption
    <2>3. ASSUME NEW e \in Everything', e.action = a
          PROVE  e.type # "provider_accepted"
      <3>1. CASE e \in Everything
        BY <2>1, <2>3, <3>1
      <3>2. CASE \E th \in Threads : Makes(th, e)
        <4>1. PICK th \in Threads : Makes(th, e)
          BY <3>2
        <4>2. ASSUME ProviderAccepts(th)
              PROVE  FALSE
          <5>1. th \in ApiThreads
            BY <1>1, <4>2 DEF ProviderAccepts, OneApiInv, OnlyApiCalls
          <5>2. th = t
            BY <1>2, <5>1 DEF OneRequest
          <5>3. thread' = [thread EXCEPT ![t] = SavingOf(a)]
            BY <4>2, <5>2 DEF ProviderAccepts, Saving, SavingOf
          <5>4. thread'[t] = SavingOf(a) /\ a \in ActionIds
            BY <1>1, <1>6, <5>3 DEF Inv, Types, ThreadsFit
          <5>5. SavingOf(a).phase = "saving"
            BY <1>1, <5>4, IdleIsState, ThreadFits
          <5> QED
            BY <5>4, <5>5
        <4>3. \/ IsPolicy(e)
              \/ e.type \in DecisionTypes \cup {"precondition_failed"} \cup VerificationTypes
          BY <4>1, <4>2 DEF Makes
        <4> QED
          BY <4>3 DEF IsPolicy, DecisionTypes, VerificationTypes, TERMINAL_VERIFICATION_STATUSES
      <3>3. CASE e \in Rows' /\ e \notin Rows
        BY <2>2, <3>1, <3>3 DEF Everything
      <3>4. e \in Rows' \/ \E q \in Processes : e \in KnownBy(mem'[q])
        BY DEF Everything
      <3> QED
        BY <1>1, <3>1, <3>2, <3>3, <3>4, OnlyMadeIsNew DEF Everything
    <2>4. ASSUME NEW e \in Rows', e.action = a
          PROVE  e \in KnownBy(mem'[ProcessOf[t]])
      <3>1. CASE e \in Rows
        BY <1>3, <1>4, <2>1, <2>4, <3>1 DEF Remembers
      <3>2. CASE e \notin Rows
        <4>1. PICK q \in Processes : e \in KnownBy(mem[q]) /\ mem' = mem
          BY <2>2, <3>2
        <4>2. CASE q = ApiProcess
          BY <1>3, <4>1, <4>2
        <4>3. CASE q # ApiProcess
          <5>1. e.type \in VerificationTypes /\ e \in Everything
            BY <1>1, <3>2, <4>1, <4>3 DEF OneApiInv, OthersOnlyVerify, Everything
          <5>2. PICK g \in Decided : g.action = e.action /\ g.type = "provider_accepted"
            BY <5>1, AcceptedFirst
          <5>3. g \in Everything
            BY <1>3, <5>2 DEF Decided, Everything
          <5> QED
            BY <2>1, <2>4, <5>2, <5>3
        <4> QED
          BY <4>2, <4>3
      <3> QED
        BY <3>1, <3>2
    <2> QED
      BY <1>6, <2>3, <2>4
  <1>7. CASE \/ thread'[t] = Idle \/ thread'[t] = ReadyAgain \/ thread'[t] = Loaded(t)
             \/ \E a \in ActionIds : thread'[t] = SavingOf(a)
    <2>1. Len(table) \in Nat
      BY <1>1, ThreadFits
    <2> QED
      BY <1>1, <1>7, <2>1, IdleIsState, StatesOfThreads
  <1>8. CASE RestoreRow(t) /\ \E i \in thread[t].todo : thread'[t] = Without(t, i)
    <2>1. thread[t].phase = "calling"
      BY <1>1, <1>8, StatesOfThreads
    <2> QED
      BY <1>8, <2>1 DEF SerialInv, TodoIsFetched
  <1> QED
    BY <1>4, <1>5, <1>6, <1>7, <1>8 DEF Moves

\* One API process that serves a request at a time, and one process that
\* verifies, the API itself or a worker: every log is in the order of the
\* lifecycle, whatever is restored, fails to be saved or is lost in a crash.
THEOREM SerialInvHolds ==
    ASSUME InOrder, OneApiProcess, OneRequest, OneVerifyingProcess
    PROVE  Spec => []SerialInv
  <1>1. Init => EventsInOrder /\ TodoIsFetched /\ VerifierKnowsVerdicts
                /\ OthersDoNotVerify /\ CallIsFirst
    <2> SUFFICES ASSUME Init
                 PROVE  EventsInOrder /\ TodoIsFetched /\ VerifierKnowsVerdicts
                        /\ OthersDoNotVerify /\ CallIsFirst
      OBVIOUS
    <2>1. /\ table = <<>> /\ mem = [p \in Processes |-> EmptyMemory]
          /\ thread = [th \in Threads |-> Idle]
      BY DEF Init
    <2>2. /\ KnownBy(EmptyMemory) = {}
          /\ \A a \in ActionIds : EmptyMemory.log[a] = <<>>
      BY DEF EmptyMemory, KnownBy, ElementsOf
    <2>3. Rows = {} /\ Everything = {}
      BY <2>1, <2>2 DEF Rows, Everything, ElementsOf
    <2>4. TodoIsFetched /\ VerifierKnowsVerdicts /\ CallIsFirst
      BY <2>1, ThreadsAssumption
      DEF Idle, TodoIsFetched, VerifierKnowsVerdicts, CallIsFirst
    <2>5. OthersDoNotVerify /\ UnsavedFollow /\ UnknownFollow
      BY <2>1, <2>2 DEF OthersDoNotVerify, UnsavedFollow, UnknownFollow
    <2>6. StepsAreSingle
      BY <2>3 DEF StepsAreSingle
    <2>7. Sorted(<<>>)
      BY DEF Sorted
    <2>8. LogsAreSorted
      BY <2>1, <2>2, <2>7 DEF LogsAreSorted, Current
    <2> QED
      BY <2>1, <2>4, <2>5, <2>6, <2>7, <2>8 DEF EventsInOrder
  <1>2. OneApiInv /\ SerialInv /\ [Next]_vars /\ OneApiInv' => SerialInv'
    <2> SUFFICES ASSUME SerialInv, [Next]_vars, OneApiInv'
                 PROVE  SerialInv'
      OBVIOUS
    <2>1. TodoIsFetched'
      BY SerialFacts, TodoIsFetchedStep DEF SerialInv
    <2> QED
      BY <2>1, EventsInOrderStep, VerifierKnowsVerdictsStep, OthersDoNotVerifyStep,
         CallIsFirstStep DEF SerialInv
  <1>3. OneApiInv /\ EventsInOrder /\ TodoIsFetched /\ VerifierKnowsVerdicts
        /\ OthersDoNotVerify /\ CallIsFirst <=> SerialInv
    BY DEF SerialInv
  <1>4. Spec => []OneApiInv
    BY OneApiInvHolds
  <1> QED
    BY <1>1, <1>2, <1>3, <1>4, PTL DEF Spec

\* verify gives no verdict where one is on record: an action is settled once,
\* though verdicts are lost in crashes and given again.
THEOREM VerdictsAreUnique ==
    ASSUME InOrder, OneApiProcess, OneRequest, OneVerifyingProcess
    PROVE  Spec => []OneVerdict
  <1>1. SerialInv => OneVerdict
    <2> SUFFICES ASSUME SerialInv, NEW i \in DOMAIN table, NEW j \in DOMAIN table,
                        table[i].type \in TERMINAL_VERIFICATION_STATUSES,
                        table[j].type \in TERMINAL_VERIFICATION_STATUSES,
                        table[i].action = table[j].action
                 PROVE  i = j
      BY DEF OneVerdict
    <2>1. /\ Inv /\ table[i] \in Everything /\ table[j] \in Everything
          /\ WellFormed(table[i]) /\ WellFormed(table[j])
      BY SerialFacts DEF Everything, Rows, ElementsOf
    <2>2. Rank(table[i]) = 4 /\ Rank(table[j]) = 4
      BY <2>1, RankOfEvent
    <2>3. Single(table[i], table[j])
      BY <2>1 DEF SerialInv, EventsInOrder, StepsAreSingle
    <2>4. table[i] = table[j]
      BY <2>2, <2>3 DEF Single
    <2> QED
      BY <2>1, <2>4 DEF Inv, Stored, Distinct
  <1> QED
    BY <1>1, SerialInvHolds, PTL

LEMMA NoElements ==
    ASSUME NEW s \in Seq(Event)
    PROVE  s = <<>> <=> ElementsOf(s) = {}
  <1>1. Len(s) \in Nat /\ DOMAIN s = 1..Len(s)
    BY LenProperties
  <1>2. CASE s = <<>>
    BY <1>2 DEF ElementsOf
  <1>3. CASE s # <<>>
    <2>1. 1 \in DOMAIN s
      BY <1>1, <1>3, EmptySeq
    <2> QED
      BY <1>3, <2>1 DEF ElementsOf
  <1> QED
    BY <1>2, <1>3

\* Where no execution was refused, the status is that of an event that none of
\* the action outranks.
LEMMA StatusOfHighest ==
    ASSUME SerialInv, NEW p \in Processes, NEW a \in ActionIds,
           mem[p].log[a] # <<>>,
           \A e \in ElementsOf(mem[p].log[a]) : e.stage # "execution"
    PROVE  \E e \in ElementsOf(mem[p].log[a]) :
              /\ mem[p].status[a] = e.status
              /\ \A f \in ElementsOf(mem[p].log[a]) : Rank(f) <= Rank(e)
  <1> DEFINE s == mem[p].log[a]
  <1>1. s \in Seq(Event) /\ Sorted(s) /\ \A n \in DOMAIN s : s[n].action = a
    <2>1. Inv
      BY SerialFacts
    <2>2. s \in Seq(Event)
      BY <2>1 DEF Inv, Types, Memory
    <2>3. Sorted(s)
      BY DEF SerialInv, EventsInOrder, LogsAreSorted
    <2>4. \A n \in DOMAIN s : s[n].action = a
      BY <2>1 DEF Inv, Stored, MemoriesFit, LogFits
    <2> QED
      BY <2>2, <2>3, <2>4
  <1>2. PICK n \in DOMAIN s :
            /\ mem[p].status[a] = s[n].status
            /\ \A k \in DOMAIN s : n < k => s[k].stage = "execution"
    BY DEF SerialInv, EventsInOrder, LogsAreSorted, Current
  <1>3. \A k \in DOMAIN s : ~(n < k)
    BY <1>2 DEF ElementsOf
  <1>4. mem[p].status[a] = s[n].status
    BY <1>2
  <1> HIDE DEF s
  <1>5. \A k \in DOMAIN s : k < n \/ k = n
    <2>1. DOMAIN s = 1..Len(s) /\ Len(s) \in Nat
      BY <1>1, LenProperties
    <2> QED
      BY <1>3, <2>1
  <1>6. ASSUME NEW k \in DOMAIN s
        PROVE  Rank(s[k]) <= Rank(s[n])
    <2>1. CASE k < n
      BY <1>1, <2>1 DEF Sorted, Follows
    <2>2. CASE k = n
      BY <2>2, RankIsNumber DEF Follows
    <2> QED
      BY <1>5, <2>1, <2>2
  <1>7. \E e \in ElementsOf(s) :
            /\ mem[p].status[a] = e.status
            /\ \A f \in ElementsOf(s) : Rank(f) <= Rank(e)
    BY <1>4, <1>6 DEF ElementsOf
  <1> QED
    BY <1>7 DEF s

\* restore and the service's own methods leave the same status behind, in
\* whatever order a process came to know the events.
THEOREM SameEventsSameAnswer ==
    ASSUME InOrder, OneApiProcess, OneRequest, OneVerifyingProcess
    PROVE  Spec => []SameEventsSameStatus
  <1>1. SerialInv => SameEventsSameStatus
    <2> SUFFICES ASSUME SerialInv, NEW p \in Processes, NEW q \in Processes,
                        NEW a \in ActionIds,
                        ElementsOf(mem[p].log[a]) = ElementsOf(mem[q].log[a]),
                        \A e \in ElementsOf(mem[p].log[a]) : e.stage # "execution"
                 PROVE  mem[p].status[a] = mem[q].status[a]
      BY DEF SameEventsSameStatus
    <2> DEFINE S == ElementsOf(mem[p].log[a])
    <2>1. Inv /\ \A e \in S : e \in Everything /\ WellFormed(e) /\ e \in Event /\ e.action = a
      BY SerialFacts, LoggedIsKnown DEF ElementsOf
    <2>2. \A r \in {p, q} : mem[r].log[a] \in Seq(Event)
      BY <2>1 DEF Inv, Types, Memory
    <2>3. \A r \in {p, q} : mem[r].log[a] = <<>> <=> S = {}
      BY <2>2, NoElements
    <2>4. CASE S = {}
      BY <2>1, <2>3, <2>4 DEF Inv, Stored, MemoriesFit, LogFits
    <2>5. CASE S # {}
      <3>1. PICK e \in S : /\ mem[p].status[a] = e.status
                           /\ \A f \in S : Rank(f) <= Rank(e)
        BY <2>3, <2>5, StatusOfHighest
      <3>2. PICK f \in S : /\ mem[q].status[a] = f.status
                           /\ \A g \in S : Rank(g) <= Rank(f)
        BY <2>3, <2>5, StatusOfHighest
      <3>3. Rank(e) = Rank(f) /\ Rank(e) \in 0..4
        <4>1. Rank(e) \in 0..4 /\ Rank(f) \in 0..4
          BY RankIsNumber
        <4>2. Rank(e) <= Rank(f) /\ Rank(f) <= Rank(e)
          BY <3>1, <3>2
        <4> QED
          BY <4>1, <4>2
      <3>4. /\ Single(e, f) /\ Agree(e, f) /\ WellFormed(e) /\ WellFormed(f)
            /\ e.action = f.action /\ e.stage = "lifecycle" /\ f.stage = "lifecycle"
        BY <2>1 DEF SerialInv, EventsInOrder, StepsAreSingle, Inv, Stored, EventsAgree, Event
      <3>5. CASE Rank(e) \in {1, 2, 4}
        BY <3>1, <3>2, <3>3, <3>4, <3>5 DEF Single
      <3>6. CASE Rank(e) = 0
        BY <3>1, <3>2, <3>3, <3>4, <3>6, RankOfEvent DEF Agree
      <3>7. CASE Rank(e) = 3
        <4>1. e.type = "verification_pending" /\ f.type = "verification_pending"
          BY <3>3, <3>4, <3>7, RankOfEvent
        <4> QED
          BY <3>1, <3>2, <3>4, <4>1 DEF WellFormed, IsPolicy
      <3> QED
        BY <3>3, <3>5, <3>6, <3>7
    <2> QED
      BY <2>4, <2>5
  <1> QED
    BY <1>1, SerialInvHolds, PTL
=============================================================================
