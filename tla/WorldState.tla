------------------------------- MODULE WorldState -------------------------------
(***************************************************************************)
(* One WorldStateService in memory: the API without persistence, the demo  *)
(* and the rehearsal.  Sources send observations of entities, each with an *)
(* id of its own choosing; an operator resolves the conflicts between them.*)
(* Both operations run to their end without waiting.                       *)
(***************************************************************************)
EXTENDS WorldStateRules

CONSTANT MaxCommits    \* bound on the commits of a run

ASSUME MaxCommitsAssumption == MaxCommits \in Nat
ASSUME NoValueAssumption ==
    /\ NoValue \notin Values
    /\ NoValue \notin Attribute
    /\ NoValue \notin EntityState
    /\ NoValue \notin Conflict
    /\ NoValue \notin ConflictIds
    /\ NoValue \notin CommitIds
    /\ NoValue \notin ObservationIds
    /\ NoValue \notin Connectors \cup {Operator}

VARIABLES
    svc,        \* the service's dictionaries (WorldStateRules)
    minted      \* number of commit ids drawn so far

vars == <<svc, minted>>

\* Commits made by a step are numbered in the order of their creation.
NextId == minted + 1

IngestObservation(o) ==
    /\ NextId <= MaxCommits
    /\ svc' = Ingest(svc, o, NextId)
    /\ minted' = IF svc'.latest = NextId THEN NextId ELSE minted

ResolveConflict(i, value) ==
    /\ NextId <= MaxCommits
    /\ svc.conflicts[i] # NoValue
    /\ svc' = Resolve(svc, i, value, NextId)
    /\ minted' = IF svc'.latest = NextId THEN NextId ELSE minted

Init == svc = EmptyService /\ minted = 0

Next ==
    \/ \E o \in Observation : IngestObservation(o)
    \/ \E i \in ConflictIds, value \in Values : ResolveConflict(i, value)

Spec == Init /\ [][Next]_vars

-----------------------------------------------------------------------------
(* Properties.                                                             *)

\* The service's dictionaries hold values of their types, and every commit
\* that was minted is in memory.
Memory(n) ==
    [seen : SUBSET ObservationIds,
     states : [Entities -> EntityState \cup {NoValue}],
     commits : [1..n -> Commit],
     latest : CommitIds \cup {NoValue},
     conflicts : [ConflictIds -> Conflict \cup {NoValue}],
     open : [Entities \X Attributes -> ConflictIds \cup {NoValue}]]

TypeOK == minted \in 0..MaxCommits /\ svc \in Memory(minted)

\* list_commits: the walk over parents from the latest commit, oldest first.
\* validate_commit_chain accepts it, and it leaves no commit out.
HistoryIsOneChain ==
    /\ svc.latest = IF minted = 0 THEN NoValue ELSE minted
    /\ \A c \in 1..minted :
          svc.commits[c].parent = IF c = 1 THEN NoValue ELSE c - 1

CommitsOf(e) == {c \in DOMAIN svc.commits : svc.commits[c].entity = e}

\* Commit c starts from the values the entity's previous commit left, and the
\* entity's first commit from nothing.
FollowsHistory(e, c) ==
    \/ /\ \A d \in CommitsOf(e) : c <= d
       /\ svc.commits[c].before = ValuesOf(NoAttributes)
    \/ \E b \in CommitsOf(e) :
          /\ b < c
          /\ \A d \in CommitsOf(e) : d < c => d <= b
          /\ svc.commits[c].before = svc.commits[b].after

StatesReplay(e) ==
    /\ svc.states[e] = NoValue => CommitsOf(e) = {}
    /\ svc.states[e] # NoValue =>
          /\ svc.states[e].commit \in CommitsOf(e)
          /\ \A c \in CommitsOf(e) : c <= svc.states[e].commit
          /\ svc.commits[svc.states[e].commit].after =
                 ValuesOf(svc.states[e].attributes)
    /\ \A c \in CommitsOf(e) : FollowsHistory(e, c)

\* Replaying the commits of an entity gives its state: they follow one another
\* without a gap and the last one is the state's own.
StatesReplayHistory == \A e \in Entities : StatesReplay(e)

\* state_version, which guards every approval, counts the entity's commits.
VersionCountsCommits ==
    \A e \in Entities : svc.states[e] # NoValue =>
        svc.states[e].version = Cardinality(CommitsOf(e))

\* However often a source sends an observation, at most one commit is made for
\* it; and however often a conflict is resolved, at most one for that.
CausesCommitOnce ==
    \A c, d \in DOMAIN svc.commits :
        /\ svc.commits[c].resolves = svc.commits[d].resolves
        /\ svc.commits[c].resolves = NoValue =>
               svc.commits[c].observations = svc.commits[d].observations
        => c = d

\* The index of open conflicts and the conflicts themselves agree, so that an
\* attribute has at most one open conflict and the policy sees each of them.
OpenConflictsAreIndexed ==
    /\ \A i \in ConflictIds :
          svc.conflicts[i] # NoValue /\ svc.conflicts[i].status = "open" =>
              svc.open[<<svc.conflicts[i].entity, svc.conflicts[i].attribute>>] = i
    /\ \A k \in Entities \X Attributes : svc.open[k] # NoValue =>
          /\ svc.conflicts[svc.open[k]] # NoValue
          /\ svc.conflicts[svc.open[k]].status = "open"
          /\ svc.conflicts[svc.open[k]].entity = k[1]
          /\ svc.conflicts[svc.open[k]].attribute = k[2]

\* What may replace the fresh value of an attribute in one step.
JustifiedOverwrite(e, n) ==
    LET old == PreviousAttributes(svc, e)[n]
        new == PreviousAttributes(svc', e)[n]
        resolved == svc'.commits[svc'.latest].resolves
    IN  /\ old # NoValue /\ old.freshness = "fresh" /\ new.value # old.value
        => IF resolved = NoValue THEN new.connector = old.connector
           ELSE svc.open[<<e, n>>] = resolved

\* No silent overwrite: a fresh value only changes through an observation of
\* the connector that set it, or through the resolution of an open conflict
\* about that very attribute.
FreshValuesAreNotOverwritten ==
    [][\A e \in Entities, n \in Attributes : JustifiedOverwrite(e, n)]_vars

\* The conflict that the last commit of an entity resolved, if it did.
LastResolved(w, e) ==
    IF w.states[e] = NoValue THEN NoValue ELSE w.commits[w.states[e].commit].resolves

\* A value that an operator has just decided is not replaced by an observation.
\* It is when a source calls itself operator, which nothing forbids.
DecisionsStand ==
    [][\A e \in Entities :
          LastResolved(svc, e) # NoValue /\ LastResolved(svc', e) = NoValue =>
              LET n == svc.conflicts[LastResolved(svc, e)].attribute IN
              PreviousAttributes(svc', e)[n].value = PreviousAttributes(svc, e)[n].value]_vars

KeepsResolution(i) ==
    svc.conflicts[i] # NoValue /\ svc.conflicts[i].status = "resolved" =>
        svc'.conflicts[i] = svc.conflicts[i]

\* The resolution of a conflict is never revised, whatever is observed later
\* and however often it is resolved again.
ResolutionIsFinal == [][\A i \in ConflictIds : KeepsResolution(i)]_vars

\* The docstring of Conflict: once a conflict is open the prior value stays in
\* place until an operator resolves it.
OpenConflictPinsValue ==
    [][\A e \in Entities, n \in Attributes :
        svc.open[<<e, n>>] # NoValue /\ svc'.open[<<e, n>>] # NoValue =>
            PreviousAttributes(svc', e)[n].value =
                PreviousAttributes(svc, e)[n].value]_vars
=============================================================================
