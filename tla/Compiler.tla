-------------------------------- MODULE Compiler --------------------------------
(***************************************************************************)
(* The World State of one tenant with persistence enabled: API processes,  *)
(* verifier workers and command lines, each with a WorldStateService of its*)
(* own, over the tables observation_log, state_projection, commit_log and  *)
(* conflict.                                                               *)
(*                                                                         *)
(* A handler reads the tables and works in memory, and then commits or     *)
(* rolls back what it wrote; another process may commit in between, since  *)
(* nothing locks what was read.  A process serves one request at a time.   *)
(* An observation's id names one entity (shopify.py:37, easypost.py).      *)
(***************************************************************************)
EXTENDS WorldStateRules

CONSTANTS
    Apis, Workers,  \* processes that keep their service from request to request
    Commands,       \* command lines, each command of which is a process of its own
    Offered,        \* the observations that sources deliver
    Handlers,       \* the handlers the API is asked for
    Failing,        \* whether a transaction may fail, for whatever reason
    Restarting,     \* whether a process may stop and start again
    MaxCommits      \* bound on commits

Processes == Apis \cup Workers \cup Commands

ASSUME CompilerAssumption ==
    /\ Offered \subseteq Observation
    /\ \A o, u \in Offered : o.id = u.id => o.entity = u.entity
    /\ Handlers \subseteq {"ingest", "resolve", "look", "verify"}
    /\ {Failing, Restarting} \subseteq BOOLEAN /\ MaxCommits \in Nat

\* Rows of commit_log, and what a transaction will write.
Row == [id : CommitIds, record : Commit]

Transaction ==
    [kind : {"none", "ingest", "verify", "resolve", "read", "observe"},
     observation : Offered \cup {NoValue}, commit : Row \cup {NoValue},
     state : EntityState \cup {NoValue},
     conflicts : [ConflictIds -> Conflict \cup {NoValue}]]

\* The absent value is none of the values it may stand in for.
ASSUME NoValueAssumption ==
    /\ NoValue \notin Values \cup Connectors \cup {Operator} /\ NoValue \notin Attribute
    /\ NoValue \notin EntityState /\ NoValue \notin CommitIds
    /\ NoValue \notin ObservationIds /\ NoValue \notin Offered
    /\ NoValue \notin Conflict /\ NoValue \notin ConflictIds
    /\ NoValue \notin Commit /\ NoValue \notin Row

VARIABLES
    observation_log,   \* ids of stored observations
    state_projection,  \* the stored state of an entity
    commit_log,        \* stored commits, in the order of their insertion
    conflict_table,    \* stored conflicts
    mem,               \* the WorldStateService of a process
    tx                 \* what the transaction of a process will write

vars == <<observation_log, state_projection, commit_log, conflict_table, mem, tx>>
tables == <<observation_log, state_projection, commit_log, conflict_table>>

-----------------------------------------------------------------------------
NoConflicts == [i \in ConflictIds |-> NoValue]

\* A transaction stores an observation, a commit with its state, and conflicts.
NoTx == [kind |-> "none", observation |-> NoValue, commit |-> NoValue,
         state |-> NoValue, conflicts |-> NoConflicts]

StoredIds == {commit_log[i].id : i \in DOMAIN commit_log}
UsedIds == StoredIds \cup (UNION {DOMAIN mem[p].commits : p \in Processes})
           \cup {tx[p].commit.id : p \in {q \in Processes : tx[q].commit # NoValue}}

\* uuid4: an id nobody has.
FreshId == CHOOSE c \in 1..MaxCommits \ UsedIds :
               \A d \in 1..MaxCommits \ UsedIds : c <= d

Begins(p) == tx[p].kind = "none" /\ UsedIds # 1..MaxCommits

\* An insert of the same id by another process waits for that transaction.
Unclaimed(o) == \A q \in Processes :
    tx[q].observation # NoValue => tx[q].observation.id # o.id

\* persist: the commit, unless it is stored, with the state it produced.
Storing(kind, w, e, o) ==
    LET state == w.states[e] IN
    [NoTx EXCEPT
      !.kind = kind, !.observation = o,
      !.commit = IF state.commit \in StoredIds THEN NoValue
                 ELSE [id |-> state.commit, record |-> w.commits[state.commit]],
      !.state = IF state.commit \in StoredIds THEN NoValue ELSE state]

\* load_state, load_commit and hydrate.
Loaded(w, e) ==
    IF state_projection[e] = NoValue THEN w
    ELSE Hydrated(w, e, state_projection[e], state_projection[e].commit \in StoredIds)

\* ingest raises KeyError: the id was seen with an entity that has no state,
\* or the new commit's parent is not in memory.
Raises(w, o) ==
    IF o.id \in w.seen THEN w.states[o.entity] = NoValue
    ELSE IsNews(w, o) /\ ~KnowsHead(w)

\* What ingest changed before it raised.
Interrupted(w, o) ==
    IF o.id \in w.seen THEN w
    ELSE [WithConflicts(w, o) EXCEPT !.seen = w.seen \cup {o.id}]

\* ingest in process p, followed by next when it returns.
Ingesting(p, w, o, next) ==
    IF Raises(w, o)
    THEN mem' = [mem EXCEPT ![p] = Interrupted(w, o)] /\ UNCHANGED tx
    ELSE LET v == Ingest(w, o, FreshId) IN
         /\ mem' = [mem EXCEPT ![p] = v]
         /\ tx' = [tx EXCEPT ![p] = IF next = "ingest"
                THEN [Storing(next, v, o.entity, o) EXCEPT !.conflicts = v.conflicts]
                ELSE Storing(next, v, o.entity, o)]

-----------------------------------------------------------------------------
(* The API's handlers.                                                     *)

\* Slip: the projection is not loaded before the observation is compiled.
ApiIngestUnloaded(p, o) ==
    /\ Begins(p) /\ Unclaimed(o) /\ o.id \notin observation_log
    /\ Ingesting(p, WithStoredConflicts(mem[p], conflict_table), o, "ingest")
    /\ UNCHANGED tables

\* ingest_observation.  A stored id whose entity has a state is answered from
\* the table; one without is compiled in memory only.
ApiIngest(p, o) ==
    /\ "ingest" \in Handlers
    /\ Begins(p) /\ Unclaimed(o)
    /\ LET w == Loaded(mem[p], o.entity)
           v == WithStoredConflicts(w, conflict_table)
       IN  IF o.id \notin observation_log THEN Ingesting(p, v, o, "ingest")
           ELSE /\ mem' = [mem EXCEPT ![p] =
                      IF state_projection[o.entity] # NoValue THEN w
                      ELSE IF Raises(v, o) THEN Interrupted(v, o)
                      ELSE Ingest(v, o, FreshId)]
                /\ UNCHANGED tx
    /\ UNCHANGED tables

\* verify_action, as far as World State goes: the read-back is compiled
\* whatever is stored, its conflicts are neither loaded nor stored.  The
\* action's verdict may still fail the request.
ApiVerify(p, o) ==
    /\ "verify" \in Handlers
    /\ Begins(p) /\ Unclaimed(o)
    /\ LET w == Loaded(mem[p], o.entity) IN
       IF o.id \notin observation_log THEN Ingesting(p, w, o, "verify")
       ELSE IF Raises(w, o)
       THEN mem' = [mem EXCEPT ![p] = Interrupted(w, o)] /\ UNCHANGED tx
       ELSE mem' = [mem EXCEPT ![p] = Ingest(w, o, FreshId)] /\ UNCHANGED tx
    /\ UNCHANGED tables

\* resolve_conflict, for a stored conflict that is open.
ApiResolve(p, i, value) ==
    /\ "resolve" \in Handlers
    /\ Begins(p)
    /\ conflict_table[i] # NoValue /\ conflict_table[i].status = "open"
    /\ LET e == conflict_table[i].entity
           row == [NoConflicts EXCEPT ![i] = conflict_table[i]]
           w == WithStoredConflicts(Loaded(mem[p], e), row)
           v == Resolve(w, i, value, FreshId)
           save == IF state_projection[e] = NoValue THEN [NoTx EXCEPT !.kind = "resolve"]
                   ELSE Storing("resolve", v, e, NoValue)
       IN  /\ mem' = [mem EXCEPT ![p] = v]
           /\ tx' = [tx EXCEPT ![p] = [save EXCEPT !.conflicts[i] = v.conflicts[i]]]
    /\ UNCHANGED tables

\* resolve_order_state, in front of an approval or an execution.
ApiLook(p, e) ==
    /\ "look" \in Handlers
    /\ tx[p].kind = "none" /\ state_projection[e] # NoValue
    /\ mem' = [mem EXCEPT ![p] = Hydrated(@, e, state_projection[e], FALSE)]
    /\ UNCHANGED <<tables, tx>>

-----------------------------------------------------------------------------
(* The worker's verification read: an id of its own, no conflicts.         *)
WorkerRead(p, o) ==
    /\ Begins(p)
    /\ o.id \notin observation_log /\ Unclaimed(o)
    /\ \A q \in Processes : o.id \notin mem[q].seen
    /\ Ingesting(p, Loaded(mem[p], o.entity), o, "read")
    /\ UNCHANGED tables

-----------------------------------------------------------------------------
(* observe --persist with a batch of one: a stored id is passed over; a new *)
(* one is compiled by an empty service that the command takes with it.  The *)
(* command rebuilds the stored attributes without their connectors, so it   *)
(* disputes nothing, and stores them like that.                             *)

Rebuilt(state) ==
    [state EXCEPT !.attributes = [n \in Attributes |->
        IF @[n] = NoValue THEN NoValue ELSE [@[n] EXCEPT !.connector = NoValue]]]

LoadedByCommand(e) ==
    IF state_projection[e] = NoValue THEN EmptyService
    ELSE Hydrated(EmptyService, e, Rebuilt(state_projection[e]),
                  state_projection[e].commit \in StoredIds)

ObserveCommand(p, o) ==
    /\ Begins(p) /\ Unclaimed(o)
    /\ o.id \notin observation_log
    /\ LET w == LoadedByCommand(o.entity) IN
         /\ ~Raises(w, o)
         /\ tx' = [tx EXCEPT ![p] =
                Storing("observe", Ingest(w, o, FreshId), o.entity, o)]
    /\ UNCHANGED <<tables, mem>>

-----------------------------------------------------------------------------
(* The end of a transaction.                                               *)

Logs(t) ==
    observation_log' = IF t.observation = NoValue THEN observation_log
                       ELSE observation_log \cup {t.observation.id}

Appends(t) ==
    commit_log' = IF t.commit = NoValue THEN commit_log ELSE Append(commit_log, t.commit)

Projects(t) ==
    state_projection' = IF t.state = NoValue THEN state_projection
                        ELSE [state_projection EXCEPT ![t.commit.record.entity] = t.state]

SavesConflicts(t) ==
    conflict_table' = [i \in ConflictIds |->
        IF t.conflicts[i] = NoValue THEN conflict_table[i] ELSE t.conflicts[i]]

Ends(p) == tx[p].kind # "none" /\ tx' = [tx EXCEPT ![p] = NoTx]

\* Slips: one of the tables is forgotten.
StoreUncommitted(p) ==
    /\ Ends(p) /\ Logs(tx[p]) /\ Projects(tx[p]) /\ SavesConflicts(tx[p])
    /\ UNCHANGED <<commit_log, mem>>

StoreUnlogged(p) ==
    /\ Ends(p) /\ Appends(tx[p]) /\ Projects(tx[p]) /\ SavesConflicts(tx[p])
    /\ UNCHANGED <<observation_log, mem>>

StoreWithoutConflicts(p) ==
    /\ Ends(p) /\ Logs(tx[p]) /\ Appends(tx[p]) /\ Projects(tx[p])
    /\ UNCHANGED <<conflict_table, mem>>

\* commit: rows are inserted, projections and conflicts overwritten as they are.
Store(p) ==
    /\ Ends(p) /\ Logs(tx[p]) /\ Appends(tx[p]) /\ Projects(tx[p])
    /\ SavesConflicts(tx[p])
    /\ UNCHANGED mem

\* The tables forget the request, the memory does not: the transaction failed,
\* or the action to verify is not one that awaits a verdict.
Rollback(p) ==
    /\ Failing \/ tx[p].kind = "verify"
    /\ Ends(p)
    /\ UNCHANGED <<tables, mem>>

\* A process stops, and starts again with an empty service.
Restart(p) ==
    /\ Restarting
    /\ mem[p] # EmptyService
    /\ mem' = [mem EXCEPT ![p] = EmptyService]
    /\ tx' = [tx EXCEPT ![p] = NoTx]
    /\ UNCHANGED tables

-----------------------------------------------------------------------------
Init ==
    /\ observation_log = {}
    /\ state_projection = [e \in Entities |-> NoValue]
    /\ commit_log = <<>>
    /\ conflict_table = NoConflicts
    /\ mem = [p \in Processes |-> EmptyService]
    /\ tx = [p \in Processes |-> NoTx]

Next ==
    \/ \E p \in Apis, o \in Offered : ApiIngest(p, o) \/ ApiVerify(p, o)
    \/ \E p \in Apis, i \in ConflictIds, value \in Values : ApiResolve(p, i, value)
    \/ \E p \in Apis, e \in Entities : ApiLook(p, e)
    \/ \E p \in Workers, o \in Offered : WorkerRead(p, o)
    \/ \E p \in Commands, o \in Offered : ObserveCommand(p, o)
    \/ \E p \in Processes : Store(p) \/ Rollback(p) \/ Restart(p)

Spec == Init /\ [][Next]_vars

-----------------------------------------------------------------------------
(* Properties.                                                             *)

\* The tables hold rows of their kind, and no commit id is inserted twice.
TypeOK ==
    /\ observation_log \subseteq ObservationIds
    /\ state_projection \in [Entities -> EntityState \cup {NoValue}]
    /\ conflict_table \in [ConflictIds -> Conflict \cup {NoValue}]
    /\ \A i \in DOMAIN commit_log :
          commit_log[i].id \in CommitIds /\ commit_log[i].record \in Commit
    /\ Cardinality(StoredIds) = Len(commit_log)
    /\ tx \in [Processes -> Transaction]
    /\ \A p \in Processes :
          /\ mem[p].states \in [Entities -> EntityState \cup {NoValue}]
          /\ mem[p].conflicts \in [ConflictIds -> Conflict \cup {NoValue}]
          /\ \A c \in DOMAIN mem[p].commits : mem[p].commits[c] \in Commit

RowsFor(e) == {i \in DOMAIN commit_log : commit_log[i].record.entity = e}

\* What the projection of an entity shows is what its producing commit says,
\* and that commit is stored, whoever wrote last and whatever failed.
ProjectionIsBackedByLog ==
    \A e \in Entities : state_projection[e] # NoValue =>
        \E i \in RowsFor(e) :
            /\ commit_log[i].id = state_projection[e].commit
            /\ commit_log[i].record.after = ValuesOf(state_projection[e].attributes)

\* Replaying the stored commits of an entity in order gives its projection:
\* each starts from what the one before it left (docs/mvp-design.md:530).
StoredHistoryReplays ==
    \A e \in Entities :
        /\ \A i \in RowsFor(e) :
              LET earlier == {j \in RowsFor(e) : j < i} IN
              commit_log[i].record.before =
                  IF earlier = {} THEN ValuesOf(NoAttributes)
                  ELSE commit_log[CHOOSE j \in earlier : \A k \in earlier : k <= j].record.after
        /\ state_projection[e] = NoValue <=> RowsFor(e) = {}
        /\ \A i \in RowsFor(e) : (\A j \in RowsFor(e) : j <= i) =>
              state_projection[e].commit = commit_log[i].id

\* The version an agent pins its proposal to counts the entity's stored
\* commits, so that no two stored states share a version.
VersionCountsStoredCommits ==
    \A e \in Entities : state_projection[e] # NoValue =>
        state_projection[e].version = Cardinality(RowsFor(e))

\* Every stored commit names observations, and these are stored: its own, or
\* the ones that told for a resolution
\* (docs/mvp-design.md:739: changes are traceable to observations).
CommitsAreTraceable ==
    \A i \in DOMAIN commit_log :
        /\ commit_log[i].record.observations # {}
        /\ commit_log[i].record.observations \subseteq observation_log

\* A service between two requests knows no open conflict that is not stored,
\* so that a restart loses none (README.md: they survive restarts).
OpenConflictsAreStored ==
    \A p \in Processes, i \in ConflictIds :
        /\ tx[p].kind = "none"
        /\ mem[p].conflicts[i] # NoValue
        /\ mem[p].conflicts[i].status = "open"
        => conflict_table[i] # NoValue

\* A value of the observation is in the projection or in a stored dispute.
Shown(o, projection, conflicts) ==
    \A n \in Attributes : o.payload[n] # NoValue =>
        \/ /\ projection[o.entity] # NoValue
           /\ ValuesOf(projection[o.entity].attributes)[n] = o.payload[n]
        \/ \E i \in ConflictIds :
              /\ conflicts[i] # NoValue
              /\ conflicts[i].entity = o.entity /\ conflicts[i].attribute = n
              /\ conflicts[i].status = "open"
              /\ \E k \in DOMAIN conflicts[i].candidates :
                    /\ conflicts[i].candidates[k].value = o.payload[n]
                    /\ conflicts[i].candidates[k].connector = o.connector

\* An ingested observation that enters the log takes effect with it: each of
\* its values is shown, or disputed, when the transaction commits.
LoggedObservationsTakeEffect ==
    [][\A p \in Processes :
          /\ tx[p].kind \in {"ingest", "observe"}
          /\ tx[p].observation.id \in observation_log' \ observation_log
          => Shown(tx[p].observation, state_projection', conflict_table')]_vars

\* An attribute of an entity in a projection table.
AttributeIn(projection, e, n) ==
    IF projection[e] = NoValue THEN NoValue ELSE projection[e].attributes[n]

\* The value is fresh and another connector set it.
FreshOfAnother(attribute, connector) ==
    /\ attribute # NoValue /\ attribute.freshness = "fresh"
    /\ attribute.connector \notin {NoValue, connector}

\* Attribute n of the observation's entity has the same value in both tables.
SameValue(o, n, old, new) ==
    /\ AttributeIn(new, o.entity, n) # NoValue
    /\ AttributeIn(new, o.entity, n).value = AttributeIn(old, o.entity, n).value

\* The docstring of Conflict (world_state/models.py:66-73): an observation of
\* another connector leaves a fresh value in place (no silent overwrite).
FreshStoredValuesStay ==
    [][\A p \in Processes, n \in Attributes :
          LET o == tx[p].observation IN
          /\ o # NoValue /\ o.id \in observation_log' \ observation_log
          /\ FreshOfAnother(AttributeIn(state_projection, o.entity, n), o.connector)
          => SameValue(o, n, state_projection, state_projection')]_vars

\* What an operator decided about a conflict is not overwritten.
StoredResolutionIsFinal ==
    [][\A i \in ConflictIds :
          /\ conflict_table[i] # NoValue
          /\ conflict_table[i].status = "resolved"
          => conflict_table'[i] = conflict_table[i]]_vars

\* The stored commits form one hash chain in the order of their insertion
\* (docs/mvp-design.md 14.2).
CommitChainValidates ==
    \A i \in DOMAIN commit_log :
        commit_log[i].record.parent = IF i = 1 THEN NoValue ELSE commit_log[i - 1].id

\* A new observation finds the head of the history it is to extend.
EveryObservationCompiles ==
    \A p \in Apis, o \in Offered :
        tx[p].kind = "none" /\ o.id \notin observation_log =>
            ~Raises(WithStoredConflicts(Loaded(mem[p], o.entity), conflict_table), o)

\* What a verification read sees is compiled as an observation of its own
\* (docs/mvp-design.md 14.4, worker/verifier.py:139).
VerificationReadIsAnObservation ==
    [][\A p \in Apis, o \in Offered : ApiVerify(p, o) => tx'[p].observation = o]_vars

=============================================================================
