---------------------------- MODULE WorldStateRules ----------------------------
(***************************************************************************)
(* WorldStateService of reality_layer.world_state.service as operators on  *)
(* a record: the memory of one service for one tenant (every dictionary of *)
(* the service is keyed by tenant first, and no entry of one tenant is read*)
(* for another).  WorldState runs one service in memory; Compiler runs     *)
(* several over one database.                                              *)
(*                                                                         *)
(* Abstractions: an attribute keeps its value, its connector, its freshness*)
(* and the last of its observation ids, the only one the service reads; of *)
(* the causes of a commit only a resolved conflict is told; a commit id    *)
(* stands for the commit's hash too, since the hash covers the freshly     *)
(* minted id; a conflict is named by the observation and attribute it was  *)
(* detected at, which is as unique as its uuid.                            *)
(***************************************************************************)
EXTENDS Naturals, FiniteSets, Sequences

CONSTANTS
    NoValue,        \* Python's None, or a missing dictionary entry
    Entities,       \* the order:... and shipment:... keys
    Attributes,     \* names of attributes
    Values,         \* values an attribute can take
    Connectors,     \* sources of observations
    Operator,       \* the connector name "operator" of a resolved attribute,
                    \* which an observation may bear as well
    ObservationIds  \* ids a caller may give an observation

-----------------------------------------------------------------------------
(* Values.                                                                 *)

Freshness == {"fresh", "stale"}

\* An attribute without a connector is one that observe --persist rebuilt.
Attribute == [value : Values, connector : Connectors \cup {Operator, NoValue},
              freshness : Freshness, source : ObservationIds]

AttributeMap == [Attributes -> Attribute \cup {NoValue}]

NoAttributes == [n \in Attributes |-> NoValue]

\* The values of an attribute map: all that a diff, and so a commit, tells.
ValueMap == [Attributes -> Values \cup {NoValue}]

ValuesOf(attributes) ==
    [n \in Attributes |->
        IF attributes[n] = NoValue THEN NoValue ELSE attributes[n].value]

CommitIds == Nat \ {0}

EntityState == [version : Nat \ {0}, attributes : AttributeMap,
                commit : CommitIds]

ConflictIds == ObservationIds \X Attributes

\* resolves is the conflict of a cause conflict_resolved:<id>.
Commit == [parent : CommitIds \cup {NoValue}, entity : Entities,
           observations : SUBSET ObservationIds,
           resolves : ConflictIds \cup {NoValue},
           before : ValueMap, after : ValueMap]

Observation == [id : ObservationIds, connector : Connectors, entity : Entities,
                freshness : Freshness, payload : ValueMap]

Candidate == [value : Values, connector : Connectors \cup {Operator},
              observation : ObservationIds]

Conflict == [entity : Entities, attribute : Attributes,
             candidates : Seq(Candidate) \ {<<>>}, status : {"open", "resolved"},
             resolved_value : Values \cup {NoValue}]

\* __init__: the dictionaries of a new service.
EmptyService ==
    [seen |-> {},
     states |-> [e \in Entities |-> NoValue],
     commits |-> [c \in {} |-> NoValue],
     latest |-> NoValue,
     conflicts |-> [i \in ConflictIds |-> NoValue],
     open |-> [k \in Entities \X Attributes |-> NoValue]]

-----------------------------------------------------------------------------
(* ingest, piece by piece.                                                 *)

\* _project: the attribute an observation's payload stands for.
Incoming(o, n) ==
    [value |-> o.payload[n], connector |-> o.connector, freshness |-> o.freshness,
     source |-> o.id]

PreviousAttributes(w, e) ==
    IF w.states[e] = NoValue THEN NoAttributes ELSE w.states[e].attributes

\* Slip: only stale values are kept.
DisagreeWhenStale(existing, incoming) ==
    /\ existing # NoValue
    /\ existing.value # incoming.value
    /\ existing.freshness = "stale"
    /\ existing.connector \notin {NoValue, incoming.connector}

\* Two sources disagree while the value in place is still fresh.
Disagree(existing, incoming) ==
    /\ existing # NoValue
    /\ existing.value # incoming.value
    /\ existing.freshness = "fresh"
    /\ existing.connector \notin {NoValue, incoming.connector}

\* The attributes an observation disputes, and the map after the others.
Disputed(w, o) ==
    {n \in Attributes : /\ o.payload[n] # NoValue
                        /\ Disagree(PreviousAttributes(w, o.entity)[n],
                                    Incoming(o, n))}

Merged(w, o) ==
    [n \in Attributes |->
        IF o.payload[n] = NoValue \/ n \in Disputed(w, o)
        THEN PreviousAttributes(w, o.entity)[n] ELSE Incoming(o, n)]

CandidateOf(attribute) ==
    [value |-> attribute.value, connector |-> attribute.connector,
     observation |-> attribute.source]

\* already_seen: the connector has said so before.
AlreadySeen(conflict, rival) ==
    \E k \in DOMAIN conflict.candidates :
        /\ conflict.candidates[k].value = rival.value
        /\ conflict.candidates[k].connector = rival.connector

\* _record_conflict for every disputed attribute: a dispute already open takes
\* one more candidate, another is opened with the two values.
NewlyDisputed(w, o) ==
    {n \in Disputed(w, o) : w.open[<<o.entity, n>>] = NoValue}

OpenAfter(w, o) ==
    [k \in Entities \X Attributes |->
        IF k[1] = o.entity /\ k[2] \in NewlyDisputed(w, o)
        THEN <<o.id, k[2]>> ELSE w.open[k]]

\* Slip: a dispute already open takes no further side.
JoinedConflictAsIs(w, o, i) == w.conflicts[i]

JoinedConflict(w, o, i) ==
    LET rival == CandidateOf(Incoming(o, w.conflicts[i].attribute)) IN
    [w.conflicts[i] EXCEPT !.candidates =
        IF AlreadySeen(w.conflicts[i], rival) THEN @ ELSE Append(@, rival)]

NewConflict(w, o, n) ==
    [entity |-> o.entity, attribute |-> n,
     candidates |-> <<CandidateOf(PreviousAttributes(w, o.entity)[n]),
                      CandidateOf(Incoming(o, n))>>,
     status |-> "open", resolved_value |-> NoValue]

ConflictsAfter(w, o) ==
    [i \in ConflictIds |->
        IF \E n \in Disputed(w, o) : w.open[<<o.entity, n>>] = i
        THEN JoinedConflict(w, o, i)
        ELSE IF i[1] = o.id /\ i[2] \in NewlyDisputed(w, o)
        THEN NewConflict(w, o, i[2])
        ELSE w.conflicts[i]]

WithConflicts(w, o) ==
    [w EXCEPT !.open = OpenAfter(w, o), !.conflicts = ConflictsAfter(w, o)]

\* _latest_hash raises KeyError when the latest commit is not in memory.
KnowsHead(w) == w.latest = NoValue \/ w.latest \in DOMAIN w.commits

\* Slip: a commit hangs on the entity's last commit, not on the tenant's.
ParentOfEntity(w, e) ==
    IF w.states[e] = NoValue THEN NoValue ELSE w.states[e].commit

ParentOf(w, e) == w.latest

\* Why a commit is made: an observation, or the conflict that is resolved with
\* the observations that tell for it.
Cause(observations, resolves) == [observations |-> observations, resolves |-> resolves]

\* Slip: before and after are one dictionary, changed in place.
NewCommitAliased(w, e, cause, attributes) ==
    [parent |-> ParentOf(w, e), entity |-> e,
     observations |-> cause.observations, resolves |-> cause.resolves,
     before |-> ValuesOf(attributes), after |-> ValuesOf(attributes)]

NewCommit(w, e, cause, attributes) ==
    [parent |-> ParentOf(w, e), entity |-> e,
     observations |-> cause.observations, resolves |-> cause.resolves,
     before |-> ValuesOf(PreviousAttributes(w, e)),
     after |-> ValuesOf(attributes)]

\* Slips: versions count from 0; a version is kept.
NextVersionFromZero(previous) ==
    IF previous = NoValue THEN 0 ELSE previous.version + 1

NextVersionKept(previous) == IF previous = NoValue THEN 1 ELSE previous.version

NextVersion(previous) == IF previous = NoValue THEN 1 ELSE previous.version + 1

\* _create_commit and the new state of its entity.
WithCommit(w, c, e, cause, attributes) ==
    [w EXCEPT
      !.commits = [i \in DOMAIN w.commits \cup {c} |->
          IF i = c THEN NewCommit(w, e, cause, attributes)
          ELSE w.commits[i]],
      !.latest = c,
      !.states = [w.states EXCEPT ![e] =
          [version |-> NextVersion(w.states[e]),
           attributes |-> attributes, commit |-> c]]]

\* The observation is news: the entity is new or one of its values changed.
IsNews(w, o) ==
    \/ w.states[o.entity] = NoValue
    \/ ValuesOf(Merged(w, o)) # ValuesOf(PreviousAttributes(w, o.entity))

\* An observation not seen before.
Compile(w, o, c) ==
    LET noted == [WithConflicts(w, o) EXCEPT !.seen = w.seen \cup {o.id}]
    IN  IF IsNews(w, o)
        THEN WithCommit(noted, c, o.entity, Cause({o.id}, NoValue), Merged(w, o))
        ELSE noted

\* Slip: an id seen before is compiled again.
IngestAgain(w, o, c) == Compile(w, o, c)

\* ingest, with c the id a commit would get.  An id seen before is ignored.
Ingest(w, o, c) == IF o.id \in w.seen THEN w ELSE Compile(w, o, c)

-----------------------------------------------------------------------------
(* resolve_conflict, for a conflict the service knows.                     *)

KeyOfConflict(w, i) == <<w.conflicts[i].entity, w.conflicts[i].attribute>>

\* Slip: a resolved conflict stays in the index of the open ones.
DecidedButIndexed(w, i, value) ==
    [w EXCEPT !.conflicts[i] = [@ EXCEPT !.status = "resolved",
                                         !.resolved_value = value]]

Decided(w, i, value) ==
    [w EXCEPT !.conflicts[i] = [@ EXCEPT !.status = "resolved",
                                         !.resolved_value = value],
              !.open[KeyOfConflict(w, i)] = NoValue]

\* The candidates that said so, or all when none did; and their observations.
Matching(conflict, value) ==
    {k \in DOMAIN conflict.candidates : conflict.candidates[k].value = value}

Upholding(conflict, value) ==
    IF Matching(conflict, value) = {} THEN DOMAIN conflict.candidates
    ELSE Matching(conflict, value)

SourceIds(conflict, value) ==
    {conflict.candidates[k].observation : k \in Upholding(conflict, value)}

LastSourceId(conflict, value) ==
    LET last == CHOOSE k \in Upholding(conflict, value) :
                    \A j \in Upholding(conflict, value) : j <= k
    IN  conflict.candidates[last].observation

ResolvedAttributes(w, i, value) ==
    [PreviousAttributes(w, w.conflicts[i].entity)
        EXCEPT ![w.conflicts[i].attribute] =
            [value |-> value, connector |-> Operator, freshness |-> "fresh",
             source |-> LastSourceId(w.conflicts[i], value)]]

CauseOfResolution(w, i, value) == Cause(SourceIds(w.conflicts[i], value), i)

\* Slip: confirming the value in place commits nothing.
ResolveOpenIfNews(w, i, value, c) ==
    IF ResolvedAttributes(w, i, value)[w.conflicts[i].attribute].value
           = ValuesOf(PreviousAttributes(w, w.conflicts[i].entity))[w.conflicts[i].attribute]
    THEN Decided(w, i, value)
    ELSE WithCommit(Decided(w, i, value), c, w.conflicts[i].entity,
                    CauseOfResolution(w, i, value), ResolvedAttributes(w, i, value))

\* The resolution always commits, even when it confirms the value in place.
ResolveOpen(w, i, value, c) ==
    IF w.states[w.conflicts[i].entity] = NoValue THEN Decided(w, i, value)
    ELSE WithCommit(Decided(w, i, value), c, w.conflicts[i].entity,
                    CauseOfResolution(w, i, value), ResolvedAttributes(w, i, value))

\* Slip: a conflict is resolved however often it is asked for.
ResolveAgain(w, i, value, c) == ResolveOpen(w, i, value, c)

Resolve(w, i, value, c) ==
    IF w.conflicts[i].status = "resolved" THEN w ELSE ResolveOpen(w, i, value, c)

-----------------------------------------------------------------------------
(* hydrate and hydrate_conflict: what is stored replaces what is in memory. *)

\* _is_ancestor: the commits on the walk over parents that starts at c.
Lineage(w, c) ==
    LET up[n \in 0..Cardinality(DOMAIN w.commits)] ==
            IF n = 0 THEN {c}
            ELSE up[n - 1] \cup
                 {w.commits[i].parent : i \in up[n - 1] \cap DOMAIN w.commits}
    IN  up[Cardinality(DOMAIN w.commits)] \ {NoValue}

\* The head stays only if the state's commit is found on its way.
HeadAfter(w, state) ==
    IF w.latest # NoValue /\ state.commit \in Lineage(w, w.latest)
    THEN w.latest ELSE state.commit

\* The stand-in for a commit that only its hash is needed of.
Stub(e) == [parent |-> NoValue, entity |-> e, observations |-> {},
            resolves |-> NoValue, before |-> NoAttributes, after |-> NoAttributes]

\* with_hash tells whether the caller passed the commit's id and hash.
Hydrated(w, e, state, with_hash) ==
    [w EXCEPT
      !.states[e] = state,
      !.latest = HeadAfter(w, state),
      !.commits = IF ~with_hash THEN w.commits
                  ELSE [i \in DOMAIN w.commits \cup {state.commit} |->
                           IF i = state.commit THEN Stub(e) ELSE w.commits[i]]]

RowsOf(rows, k) ==
    {i \in ConflictIds : rows[i] # NoValue /\ <<rows[i].entity, rows[i].attribute>> = k}

\* Slip: resolved conflicts are indexed as open ones.
WithStoredConflictsIndexed(w, rows) ==
    [w EXCEPT
      !.conflicts = [i \in ConflictIds |->
          IF rows[i] # NoValue THEN rows[i] ELSE w.conflicts[i]],
      !.open = [k \in Entities \X Attributes |->
          IF RowsOf(rows, k) # {} THEN CHOOSE i \in RowsOf(rows, k) : TRUE ELSE w.open[k]]]

\* The rows come in the order of their detection, an open one after the
\* resolved ones of its attribute.
WithStoredConflicts(w, rows) ==
    [w EXCEPT
      !.conflicts = [i \in ConflictIds |->
          IF rows[i] # NoValue THEN rows[i] ELSE w.conflicts[i]],
      !.open = [k \in Entities \X Attributes |->
          LET opened == {i \in RowsOf(rows, k) : rows[i].status = "open"} IN
          IF opened # {} THEN CHOOSE i \in opened : TRUE
          ELSE IF RowsOf(rows, k) # {} THEN NoValue ELSE w.open[k]]]
=============================================================================
