---------------------------- MODULE WorldStateProofs ----------------------------
(***************************************************************************)
(* The invariants of WorldState, for any number of entities, attributes,   *)
(* values, connectors and observations.                                    *)
(***************************************************************************)
EXTENDS WorldState, FiniteSetTheorems, SequenceTheorems, WellFoundedInduction, TLAPS

\* The maps the rules compute are typed.
LEMMA MapTypes ==
    ASSUME NEW n \in Nat, NEW w \in Memory(n), NEW o \in Observation
    PROVE  /\ PreviousAttributes(w, o.entity) \in AttributeMap
           /\ Merged(w, o) \in AttributeMap
           /\ \A m \in AttributeMap : ValuesOf(m) \in ValueMap
           /\ Disputed(w, o) \subseteq Attributes
  <1>1. PreviousAttributes(w, o.entity) \in AttributeMap
    BY DEF PreviousAttributes, NoAttributes, AttributeMap, Memory, EntityState,
           Observation
  <1>2. \A n1 \in Attributes : o.payload[n1] # NoValue => Incoming(o, n1) \in Attribute
    BY DEF Incoming, Attribute, Observation, ValueMap
  <1>3. Merged(w, o) \in AttributeMap
    BY <1>1, <1>2 DEF Merged, AttributeMap
  <1>4. \A m \in AttributeMap : ValuesOf(m) \in ValueMap
    BY DEF AttributeMap, ValuesOf, ValueMap, Attribute
  <1> QED
    BY <1>1, <1>3, <1>4 DEF Disputed

-----------------------------------------------------------------------------
(* The inductive invariant.                                                *)

\* What a commit was made for is done: its observation is seen, its conflict
\* resolved.
Past(w, cause) ==
    IF cause.resolves = NoValue
    THEN \E x \in w.seen : cause.observations = {x}
    ELSE /\ w.conflicts[cause.resolves] # NoValue
         /\ w.conflicts[cause.resolves].status = "resolved"

CausesArePast == \A c \in DOMAIN svc.commits : Past(svc, svc.commits[c])

\* Conflicts are named after observations already seen.
ConflictsAreSeen ==
    \A i \in ConflictIds : svc.conflicts[i] # NoValue => i[1] \in svc.seen

\* Only observe --persist stores an attribute without its connector.
Sourced(attributes) ==
    \A n \in Attributes : attributes[n] # NoValue => attributes[n].connector # NoValue

StatesAreSourced ==
    \A e \in Entities : svc.states[e] # NoValue => Sourced(svc.states[e].attributes)

\* The commit log and the projections.
HistoryInv ==
    /\ HistoryIsOneChain
    /\ StatesReplayHistory
    /\ CausesCommitOnce
    /\ CausesArePast

\* The conflicts and their index.
ConflictInv ==
    /\ OpenConflictsAreIndexed
    /\ ConflictsAreSeen

Inv == TypeOK /\ HistoryInv /\ ConflictInv /\ StatesAreSourced

-----------------------------------------------------------------------------
(* What the rules do to the fields of a service's memory.                  *)

IsMemory(v) ==
    v \in [seen : {v.seen}, states : {v.states}, commits : {v.commits},
           latest : {v.latest}, conflicts : {v.conflicts}, open : {v.open}]

\* A memory whose fields are typed is a typed memory.
LEMMA MemoryType ==
    ASSUME NEW n \in Nat, NEW v, IsMemory(v),
           v.seen \subseteq ObservationIds,
           v.states \in [Entities -> EntityState \cup {NoValue}],
           v.commits \in [1..n -> Commit],
           v.latest \in CommitIds \cup {NoValue},
           v.conflicts \in [ConflictIds -> Conflict \cup {NoValue}],
           v.open \in [Entities \X Attributes -> ConflictIds \cup {NoValue}]
    PROVE  v \in Memory(n)
  BY DEF IsMemory, Memory

\* _record_conflict: the conflicts and their index.
LEMMA ConflictFields ==
    ASSUME NEW w, IsMemory(w), NEW o, NEW v, v = WithConflicts(w, o)
    PROVE  /\ v.seen = w.seen /\ v.states = w.states
           /\ v.commits = w.commits /\ v.latest = w.latest
           /\ v.conflicts = ConflictsAfter(w, o) /\ v.open = OpenAfter(w, o)
           /\ IsMemory(v)
  <1> DEFINE x == OpenAfter(w, o)
             y == ConflictsAfter(w, o)
  <1>1. v = [w EXCEPT !.open = x, !.conflicts = y]
    BY DEF WithConflicts
  <1> HIDE DEF x, y
  <1>2. v.seen = w.seen /\ v.states = w.states /\ v.commits = w.commits
        /\ v.latest = w.latest /\ v.conflicts = y /\ v.open = x
    BY <1>1 DEF IsMemory
  <1>3. IsMemory(v)
    BY <1>1 DEF IsMemory
  <1> QED
    BY <1>2, <1>3 DEF x, y

\* The note that an observation was seen.
LEMMA SeenFields ==
    ASSUME NEW w, IsMemory(w), NEW x, NEW v, v = [w EXCEPT !.seen = x]
    PROVE  /\ v.seen = x /\ v.states = w.states
           /\ v.commits = w.commits /\ v.latest = w.latest
           /\ v.conflicts = w.conflicts /\ v.open = w.open
           /\ IsMemory(v)
  BY DEF IsMemory

StatesAfter(w, c, e, attributes) ==
    [w.states EXCEPT ![e] = [version |-> NextVersion(w.states[e]),
                             attributes |-> attributes, commit |-> c]]

CommitsAfter(w, c, e, cause, attributes) ==
    [i \in DOMAIN w.commits \cup {c} |->
        IF i = c THEN NewCommit(w, e, cause, attributes)
        ELSE w.commits[i]]

\* _create_commit and the state it produces.
LEMMA CommitFields ==
    ASSUME NEW w, IsMemory(w), NEW c, NEW e, NEW cause, NEW attributes,
           NEW v, v = WithCommit(w, c, e, cause, attributes)
    PROVE  /\ v.seen = w.seen
           /\ v.states = StatesAfter(w, c, e, attributes)
           /\ v.commits = CommitsAfter(w, c, e, cause, attributes)
           /\ v.latest = c /\ v.conflicts = w.conflicts /\ v.open = w.open
           /\ IsMemory(v)
  <1> DEFINE x == CommitsAfter(w, c, e, cause, attributes)
             y == StatesAfter(w, c, e, attributes)
  <1>1. v = [w EXCEPT !.commits = x, !.latest = c, !.states = y]
    BY DEF WithCommit, CommitsAfter, StatesAfter
  <1> HIDE DEF x, y
  <1>2. v.seen = w.seen /\ v.states = y /\ v.commits = x /\ v.latest = c
        /\ v.conflicts = w.conflicts /\ v.open = w.open
    BY <1>1 DEF IsMemory
  <1>3. IsMemory(v)
    BY <1>1 DEF IsMemory
  <1> QED
    BY <1>2, <1>3 DEF x, y

\* The decision on a conflict.
LEMMA DecidedFields ==
    ASSUME NEW w, IsMemory(w), NEW i, NEW value,
           NEW v, v = Decided(w, i, value)
    PROVE  /\ v.seen = w.seen /\ v.states = w.states
           /\ v.commits = w.commits /\ v.latest = w.latest
           /\ v.conflicts = [w.conflicts EXCEPT ![i] =
                  [@ EXCEPT !.status = "resolved", !.resolved_value = value]]
           /\ v.open = [w.open EXCEPT ![KeyOfConflict(w, i)] = NoValue]
           /\ IsMemory(v)
  <1> DEFINE x == [w.conflicts EXCEPT ![i] =
                      [@ EXCEPT !.status = "resolved", !.resolved_value = value]]
             y == [w.open EXCEPT ![KeyOfConflict(w, i)] = NoValue]
  <1>1. v = [w EXCEPT !.conflicts = x, !.open = y]
    BY DEF Decided, IsMemory
  <1> HIDE DEF x, y
  <1>2. v.seen = w.seen /\ v.states = w.states /\ v.commits = w.commits
        /\ v.latest = w.latest /\ v.conflicts = x /\ v.open = y
    BY <1>1 DEF IsMemory
  <1>3. IsMemory(v)
    BY <1>1 DEF IsMemory
  <1> QED
    BY <1>2, <1>3 DEF x, y

-----------------------------------------------------------------------------
(* The two operations, by what they do to the history.                     *)

HistoryRests ==
    /\ minted' = minted
    /\ svc'.latest = svc.latest
    /\ svc'.commits = svc.commits
    /\ svc'.states = svc.states

HistoryGrows(e, cause, attributes) ==
    /\ minted' = NextId
    /\ minted' \in 0..MaxCommits
    /\ svc'.latest = NextId
    /\ svc'.commits = CommitsAfter(svc, NextId, e, cause, attributes)
    /\ svc'.states = StatesAfter(svc, NextId, e, attributes)

\* A commit reads the states and the head of the log, and nothing else.
LEMMA CommitReads ==
    ASSUME NEW w, NEW v, v.states = w.states, v.latest = w.latest,
           v.commits = w.commits,
           NEW c, NEW e, NEW cause, NEW attributes
    PROVE  /\ StatesAfter(v, c, e, attributes) = StatesAfter(w, c, e, attributes)
           /\ CommitsAfter(v, c, e, cause, attributes) =
                  CommitsAfter(w, c, e, cause, attributes)
  <1>1. NewCommit(v, e, cause, attributes) =
            NewCommit(w, e, cause, attributes)
    BY DEF NewCommit, ParentOf, PreviousAttributes
  <1> QED
    BY <1>1 DEF StatesAfter, CommitsAfter

\* A typed memory is a memory; its head is none of the ids still to be drawn.
LEMMA MemoryFacts ==
    ASSUME Inv
    PROVE  /\ IsMemory(svc) /\ minted \in Nat /\ DOMAIN svc.commits = 1..minted
           /\ NextId \in CommitIds /\ svc.latest # NextId
           /\ 1..minted \cup {NextId} = 1..NextId
  <1>1. minted \in Nat /\ IsMemory(svc) /\ DOMAIN svc.commits = 1..minted
    BY MaxCommitsAssumption DEF Inv, TypeOK, Memory, IsMemory
  <1>2. NextId \in CommitIds /\ svc.latest # NextId
    BY <1>1, NoValueAssumption DEF Inv, HistoryInv, HistoryIsOneChain, NextId, CommitIds
  <1>3. 1..minted \cup {NextId} = 1..NextId
    BY <1>1 DEF NextId
  <1> QED
    BY <1>1, <1>2, <1>3

\* ingest ignores an id it knows; otherwise it records the disputes, and a
\* commit only for news.
LEMMA IngestStep ==
    ASSUME Inv, NEW o \in Observation, IngestObservation(o)
    PROVE  \/ svc' = svc /\ HistoryRests
           \/ /\ o.id \notin svc.seen
              /\ svc'.seen = svc.seen \cup {o.id}
              /\ svc'.conflicts = ConflictsAfter(svc, o)
              /\ svc'.open = OpenAfter(svc, o)
              /\ IsMemory(svc')
              /\ \/ ~IsNews(svc, o) /\ HistoryRests
                 \/ HistoryGrows(o.entity, Cause({o.id}, NoValue), Merged(svc, o))
  <1>1. CASE o.id \in svc.seen
    <2>1. svc' = svc
      BY <1>1 DEF IngestObservation, Ingest
    <2> QED
      BY <2>1, MemoryFacts DEF IngestObservation, HistoryRests
  <1>2. CASE o.id \notin svc.seen
    <2> DEFINE v == WithConflicts(svc, o)
               noted == [v EXCEPT !.seen = svc.seen \cup {o.id}]
    <2>1. /\ v.seen = svc.seen /\ v.states = svc.states
          /\ v.commits = svc.commits /\ v.latest = svc.latest
          /\ v.conflicts = ConflictsAfter(svc, o) /\ v.open = OpenAfter(svc, o)
          /\ IsMemory(v)
      BY MemoryFacts, ConflictFields
    <2> HIDE DEF v
    <2>2. /\ noted.seen = svc.seen \cup {o.id} /\ noted.states = svc.states
          /\ noted.commits = svc.commits /\ noted.latest = svc.latest
          /\ noted.conflicts = ConflictsAfter(svc, o)
          /\ noted.open = OpenAfter(svc, o)
          /\ IsMemory(noted)
      BY <2>1, SeenFields
    <2>3. svc' = IF IsNews(svc, o)
                 THEN WithCommit(noted, NextId, o.entity, Cause({o.id}, NoValue), Merged(svc, o))
                 ELSE noted
      BY <1>2 DEF IngestObservation, Ingest, Compile, v
    <2> HIDE DEF noted
    <2>4. CASE ~IsNews(svc, o)
      <3>1. svc' = noted
        BY <2>3, <2>4
      <3> QED
        BY <1>2, <2>2, <2>4, <3>1, MemoryFacts DEF IngestObservation, HistoryRests
    <2>5. CASE IsNews(svc, o)
      <3>1. svc' = WithCommit(noted, NextId, o.entity, Cause({o.id}, NoValue), Merged(svc, o))
        BY <2>3, <2>5
      <3>2. /\ StatesAfter(noted, NextId, o.entity, Merged(svc, o)) =
                 StatesAfter(svc, NextId, o.entity, Merged(svc, o))
            /\ CommitsAfter(noted, NextId, o.entity, Cause({o.id}, NoValue), Merged(svc, o)) =
                 CommitsAfter(svc, NextId, o.entity, Cause({o.id}, NoValue), Merged(svc, o))
        BY <2>2, CommitReads
      <3>3. /\ svc'.seen = noted.seen
            /\ svc'.states = StatesAfter(noted, NextId, o.entity, Merged(svc, o))
            /\ svc'.commits =
                 CommitsAfter(noted, NextId, o.entity, Cause({o.id}, NoValue), Merged(svc, o))
            /\ svc'.latest = NextId /\ svc'.conflicts = noted.conflicts
            /\ svc'.open = noted.open /\ IsMemory(svc')
        BY <2>2, <3>1, CommitFields
      <3>4. minted' = NextId /\ minted' \in 0..MaxCommits
        BY <3>3, MemoryFacts, MaxCommitsAssumption DEF IngestObservation, NextId
      <3> QED
        BY <1>2, <2>2, <3>2, <3>3, <3>4, MemoryFacts DEF HistoryGrows
    <2> QED
      BY <2>4, <2>5
  <1> QED
    BY <1>1, <1>2

\* resolve_conflict changes nothing of a resolved conflict; an open one is
\* decided, and committed when its entity has a state.
LEMMA ResolveStep ==
    ASSUME Inv, NEW i \in ConflictIds, NEW value \in Values,
           ResolveConflict(i, value)
    PROVE  \/ svc' = svc /\ HistoryRests
           \/ /\ svc.conflicts[i] # NoValue
              /\ svc.conflicts[i].status # "resolved"
              /\ svc'.seen = svc.seen
              /\ svc'.conflicts = [svc.conflicts EXCEPT ![i] =
                    [@ EXCEPT !.status = "resolved", !.resolved_value = value]]
              /\ svc'.open = [svc.open EXCEPT ![KeyOfConflict(svc, i)] = NoValue]
              /\ IsMemory(svc')
              /\ \/ HistoryRests
                 \/ HistoryGrows(svc.conflicts[i].entity,
                                 CauseOfResolution(svc, i, value),
                                 ResolvedAttributes(svc, i, value))
  <1> DEFINE e == svc.conflicts[i].entity
             v == Decided(svc, i, value)
             m == ResolvedAttributes(svc, i, value)
  <1>1. CASE svc.conflicts[i].status = "resolved"
    <2>1. svc' = svc
      BY <1>1 DEF ResolveConflict, Resolve
    <2> QED
      BY <2>1, MemoryFacts DEF ResolveConflict, HistoryRests
  <1>2. CASE svc.conflicts[i].status # "resolved"
    <2>1. /\ v.seen = svc.seen /\ v.states = svc.states
          /\ v.commits = svc.commits /\ v.latest = svc.latest
          /\ v.conflicts = [svc.conflicts EXCEPT ![i] =
                [@ EXCEPT !.status = "resolved", !.resolved_value = value]]
          /\ v.open = [svc.open EXCEPT ![KeyOfConflict(svc, i)] = NoValue]
          /\ IsMemory(v)
      BY MemoryFacts, DecidedFields
    <2>2. svc' = IF svc.states[e] = NoValue THEN v
                 ELSE WithCommit(v, NextId, e, CauseOfResolution(svc, i, value), m)
      BY <1>2 DEF ResolveConflict, Resolve, ResolveOpen
    <2> HIDE DEF v, m
    <2>3. CASE svc.states[e] = NoValue
      <3>1. svc' = v
        BY <2>2, <2>3
      <3> QED
        BY <1>2, <2>1, <3>1, MemoryFacts DEF ResolveConflict, HistoryRests
    <2>4. CASE svc.states[e] # NoValue
      <3>1. svc' = WithCommit(v, NextId, e, CauseOfResolution(svc, i, value), m)
        BY <2>2, <2>4
      <3>2. /\ StatesAfter(v, NextId, e, m) = StatesAfter(svc, NextId, e, m)
            /\ CommitsAfter(v, NextId, e, CauseOfResolution(svc, i, value), m) =
                 CommitsAfter(svc, NextId, e, CauseOfResolution(svc, i, value), m)
        BY <2>1, CommitReads
      <3>3. /\ svc'.seen = v.seen
            /\ svc'.states = StatesAfter(v, NextId, e, m)
            /\ svc'.commits = CommitsAfter(v, NextId, e, CauseOfResolution(svc, i, value), m)
            /\ svc'.latest = NextId /\ svc'.conflicts = v.conflicts
            /\ svc'.open = v.open /\ IsMemory(svc')
        BY <2>1, <3>1, CommitFields
      <3>4. minted' = NextId /\ minted' \in 0..MaxCommits
        BY <3>3, MemoryFacts, MaxCommitsAssumption DEF ResolveConflict, NextId
      <3>5. svc.conflicts[i] # NoValue
        BY DEF ResolveConflict
      <3> QED
        BY <1>2, <2>1, <3>2, <3>3, <3>4, <3>5 DEF HistoryGrows, m, e
    <2> QED
      BY <2>3, <2>4
  <1> QED
    BY <1>1, <1>2

-----------------------------------------------------------------------------
(* The history.                                                            *)

\* What a commit may be made for.
Causes == [observations : SUBSET ObservationIds, resolves : ConflictIds \cup {NoValue}]

\* No step makes undone what commits were made for.
PastStays ==
    /\ svc.seen \subseteq svc'.seen
    /\ \A i \in ConflictIds :
          svc.conflicts[i] # NoValue /\ svc.conflicts[i].status = "resolved" =>
              svc'.conflicts[i] # NoValue /\ svc'.conflicts[i].status = "resolved"

LEMMA PastRemains ==
    ASSUME Inv, PastStays, NEW c \in DOMAIN svc.commits
    PROVE  Past(svc', svc.commits[c])
  <1>1. Past(svc, svc.commits[c]) /\ svc.commits[c] \in Commit
    BY DEF Inv, HistoryInv, CausesArePast, TypeOK, Memory
  <1>2. CASE svc.commits[c].resolves = NoValue
    BY <1>1, <1>2 DEF Past, PastStays
  <1>3. CASE svc.commits[c].resolves # NoValue
    <2>1. svc.commits[c].resolves \in ConflictIds
      BY <1>1, <1>3 DEF Commit
    <2> QED
      BY <1>1, <1>3, <2>1 DEF Past, PastStays
  <1> QED
    BY <1>2, <1>3

\* A commit on top of the log keeps it one chain from which the states can be
\* replayed, and is made for what no earlier commit was made for.
LEMMA GrowthKeepsHistory ==
    ASSUME Inv, PastStays, NEW e \in Entities, NEW m \in AttributeMap, Sourced(m),
           NEW x \in Causes, ~ Past(svc, x), Past(svc', x), HistoryGrows(e, x, m)
    PROVE  /\ HistoryInv'
           /\ StatesAreSourced'
           /\ svc'.states \in [Entities -> EntityState \cup {NoValue}]
           /\ svc'.commits \in [1..minted' -> Commit]
           /\ svc'.latest \in CommitIds \cup {NoValue}
  <1> DEFINE before == ValuesOf(PreviousAttributes(svc, e))
             commit == [parent |-> svc.latest, entity |-> e,
                        observations |-> x.observations, resolves |-> x.resolves,
                        before |-> before, after |-> ValuesOf(m)]
             state == [version |-> NextVersion(svc.states[e]), attributes |-> m,
                       commit |-> NextId]
  <1>1. /\ minted \in Nat /\ NextId = minted + 1 /\ minted' = NextId
        /\ svc'.latest = NextId /\ NextId \in CommitIds
        /\ svc.commits \in [1..minted -> Commit]
        /\ svc.states \in [Entities -> EntityState \cup {NoValue}]
        /\ svc.latest \in CommitIds \cup {NoValue}
    BY MemoryFacts DEF HistoryGrows, NextId, Inv, TypeOK, Memory
  <1>2. /\ DOMAIN svc'.commits = 1..NextId
        /\ svc'.commits[NextId] = commit
        /\ \A c \in 1..minted : svc'.commits[c] = svc.commits[c]
    BY <1>1, MemoryFacts DEF HistoryGrows, CommitsAfter, NewCommit, ParentOf
  <1>3. /\ DOMAIN svc'.states = Entities
        /\ svc'.states[e] = state
        /\ \A d \in Entities : d # e => svc'.states[d] = svc.states[d]
    BY <1>1 DEF HistoryGrows, StatesAfter
  <1>4. before \in ValueMap /\ ValuesOf(m) \in ValueMap
    <2>1. PreviousAttributes(svc, e) \in AttributeMap
      BY <1>1 DEF PreviousAttributes, NoAttributes, AttributeMap, EntityState
    <2> QED
      BY <2>1 DEF ValuesOf, ValueMap, AttributeMap, Attribute
  <1>5. commit \in Commit
    BY <1>1, <1>4 DEF Commit, Causes
  <1>6. state \in EntityState
    BY <1>1 DEF NextVersion, EntityState
  <1>7. svc'.commits \in [1..NextId -> Commit]
    <2>1. svc'.commits = [c \in 1..NextId |-> svc'.commits[c]]
      BY <1>1, MemoryFacts DEF HistoryGrows, CommitsAfter
    <2>2. \A c \in 1..NextId : svc'.commits[c] \in Commit
      BY <1>1, <1>2, <1>5
    <2> QED
      BY <2>1, <2>2
  <1>8. svc'.states \in [Entities -> EntityState \cup {NoValue}]
    BY <1>1, <1>6 DEF HistoryGrows, StatesAfter
  <1>9. /\ \A d \in Entities : d # e => CommitsOf(d)' = CommitsOf(d)
        /\ CommitsOf(e)' = CommitsOf(e) \cup {NextId}
        /\ \A d \in Entities : CommitsOf(d) \subseteq 1..minted
        /\ \A d \in Entities : \A c \in CommitsOf(d) : c < NextId
    BY <1>1, <1>2 DEF CommitsOf
  <1>10. HistoryIsOneChain'
    <2>1. svc'.commits[NextId].parent = IF minted = 0 THEN NoValue ELSE minted
      BY <1>2 DEF Inv, HistoryInv, HistoryIsOneChain
    <2>2. \A c \in 1..minted :
             svc'.commits[c].parent = IF c = 1 THEN NoValue ELSE c - 1
      BY <1>2 DEF HistoryIsOneChain, Inv, HistoryInv
    <2> HIDE DEF commit
    <2>3. ASSUME NEW c \in 1..NextId
          PROVE  svc'.commits[c].parent = IF c = 1 THEN NoValue ELSE c - 1
      <3>1. CASE c = NextId
        BY <1>1, <2>1, <3>1
      <3>2. CASE c \in 1..minted
        BY <2>2, <3>2
      <3> QED
        BY <1>1, <3>1, <3>2
    <2> QED
      BY <1>1, <2>3 DEF HistoryIsOneChain
  <1>11. StatesReplayHistory'
    <2> SUFFICES ASSUME NEW d \in Entities
                 PROVE  StatesReplay(d)'
      BY DEF StatesReplayHistory
    <2>1. StatesReplay(d)
      BY DEF Inv, HistoryInv, StatesReplayHistory
    <2>2. \A c \in CommitsOf(d) : svc'.commits[c] = svc.commits[c]
      BY <1>2, <1>9
    <2>3. CASE d # e
      <3>1. CommitsOf(d)' = CommitsOf(d) /\ svc'.states[d] = svc.states[d]
        BY <1>3, <1>9, <2>3
      <3> QED
        BY <2>1, <2>2, <3>1 DEF StatesReplay, FollowsHistory
    <2>4. CASE d = e
      <3>1. /\ svc'.states[d] # NoValue
            /\ svc'.states[d].commit = NextId
            /\ svc'.states[d].attributes = m
        BY <1>3, <1>6, <2>4, NoValueAssumption
      <3>2. NextId \in CommitsOf(d)' /\ \A c \in CommitsOf(d)' : c <= NextId
        BY <1>1, <1>9, <2>4
      <3>3. ASSUME NEW c \in CommitsOf(d)', c # NextId
            PROVE  FollowsHistory(d, c)'
        <4>1. c \in CommitsOf(d) /\ FollowsHistory(d, c)
          BY <1>9, <2>1, <2>4, <3>3 DEF StatesReplay
        <4>2. \A b \in CommitsOf(d)' : b = NextId \/ b \in CommitsOf(d)
          BY <1>9, <2>4
        <4>3. \A b \in CommitsOf(d) : b \in CommitsOf(d)'
          BY <1>9, <2>4
        <4>4. c < NextId /\ c \in Nat
          BY <1>1, <1>9, <4>1
        <4> QED
          BY <1>1, <2>2, <4>1, <4>2, <4>3, <4>4 DEF FollowsHistory
      <3>4. ASSUME NEW c \in CommitsOf(d)', c = NextId
            PROVE  FollowsHistory(d, c)'
        <4>1. CASE svc.states[d] = NoValue
          <5>1. CommitsOf(d)' = {NextId}
            BY <1>9, <2>1, <2>4, <4>1 DEF StatesReplay
          <5>2. before = ValuesOf(NoAttributes)
            BY <2>4, <4>1 DEF PreviousAttributes
          <5> QED
            BY <1>1, <1>2, <3>4, <5>1, <5>2 DEF FollowsHistory
        <4>2. CASE svc.states[d] # NoValue
          <5>1. LET b == svc.states[d].commit IN
                /\ b \in CommitsOf(d)
                /\ \A f \in CommitsOf(d) : f <= b
                /\ svc.commits[b].after = ValuesOf(svc.states[d].attributes)
            BY <2>1, <4>2 DEF StatesReplay
          <5>2. before = ValuesOf(svc.states[d].attributes)
            BY <2>4, <4>2 DEF PreviousAttributes
          <5>3. PICK b \in CommitsOf(d) :
                   /\ \A f \in CommitsOf(d) : f <= b
                   /\ svc.commits[b].after = before
            BY <5>1, <5>2
          <5>4. /\ b \in CommitsOf(d)' /\ b < NextId
                /\ \A f \in CommitsOf(d)' : f < NextId => f <= b
                /\ svc'.commits[NextId].before = svc'.commits[b].after
            BY <1>1, <1>2, <1>9, <2>2, <2>4, <5>3
          <5> QED
            BY <3>4, <5>4 DEF FollowsHistory
        <4> QED
          BY <4>1, <4>2
      <3>5. svc'.commits[NextId].after = ValuesOf(m)
        BY <1>2
      <3> QED
        BY <3>1, <3>2, <3>3, <3>4, <3>5 DEF StatesReplay
    <2> QED
      BY <2>3, <2>4
  <1>12. CausesArePast'
    <2>1. Past(svc', commit)
      BY DEF Past
    <2>2. \A c \in 1..minted : Past(svc', svc.commits[c])
      BY MemoryFacts, PastRemains
    <2> HIDE DEF commit
    <2>3. \A c \in 1..NextId : c = NextId \/ c \in 1..minted
      BY <1>1
    <2> QED
      BY <1>2, <2>1, <2>2, <2>3 DEF CausesArePast
  <1>13. CausesCommitOnce'
    <2>1. ASSUME NEW c \in 1..minted, svc.commits[c].resolves = x.resolves,
                 x.resolves = NoValue => svc.commits[c].observations = x.observations
          PROVE  FALSE
      <3>1. Past(svc, svc.commits[c])
        BY MemoryFacts DEF Inv, HistoryInv, CausesArePast
      <3> QED
        BY <2>1, <3>1 DEF Past
    <2>2. /\ commit.resolves = x.resolves /\ commit.observations = x.observations
      OBVIOUS
    <2>3. \A c, d \in 1..minted :
             /\ svc.commits[c].resolves = svc.commits[d].resolves
             /\ svc.commits[c].resolves = NoValue =>
                    svc.commits[c].observations = svc.commits[d].observations
             => c = d
      BY MemoryFacts DEF Inv, HistoryInv, CausesCommitOnce
    <2> HIDE DEF commit
    <2> SUFFICES ASSUME NEW c \in 1..NextId, NEW d \in 1..NextId,
                        svc'.commits[c].resolves = svc'.commits[d].resolves,
                        svc'.commits[c].resolves = NoValue =>
                            svc'.commits[c].observations = svc'.commits[d].observations
                 PROVE  c = d
      BY <1>2 DEF CausesCommitOnce
    <2>4. c = NextId \/ c \in 1..minted
      BY <1>1
    <2>5. d = NextId \/ d \in 1..minted
      BY <1>1
    <2> QED
      BY <1>2, <2>1, <2>2, <2>3, <2>4, <2>5
  <1>14. StatesAreSourced'
    <2>1. state.attributes = m
      OBVIOUS
    <2> HIDE DEF state
    <2> QED
      BY <1>3, <2>1 DEF StatesAreSourced, Inv
  <1> QED
    BY <1>1, <1>7, <1>8, <1>10, <1>11, <1>12, <1>13, <1>14 DEF HistoryInv

\* A step that commits nothing keeps the history.
LEMMA RestKeepsHistory ==
    ASSUME Inv, HistoryRests, PastStays
    PROVE  /\ HistoryInv'
           /\ StatesAreSourced'
           /\ svc'.states \in [Entities -> EntityState \cup {NoValue}]
           /\ svc'.commits \in [1..minted' -> Commit]
           /\ svc'.latest \in CommitIds \cup {NoValue}
  <1>1. HistoryInv'
    <2>1. HistoryIsOneChain' /\ CausesCommitOnce'
      BY DEF Inv, HistoryInv, HistoryRests, HistoryIsOneChain, CausesCommitOnce
    <2>2. CausesArePast'
      BY PastRemains DEF CausesArePast, HistoryRests
    <2>3. StatesReplayHistory'
      BY DEF Inv, HistoryInv, HistoryRests, StatesReplayHistory, StatesReplay,
             FollowsHistory, CommitsOf
    <2> QED
      BY <2>1, <2>2, <2>3 DEF HistoryInv
  <1>2. StatesAreSourced'
    BY DEF Inv, HistoryRests, StatesAreSourced
  <1> QED
    BY <1>1, <1>2 DEF Inv, TypeOK, Memory, HistoryRests

-----------------------------------------------------------------------------
(* The conflicts.                                                          *)

\* A disputed attribute has a value and a connector: both sides of the dispute
\* are candidates.
LEMMA DisputeFacts ==
    ASSUME Inv, NEW o \in Observation, NEW n \in Disputed(svc, o)
    PROVE  /\ n \in Attributes
           /\ CandidateOf(PreviousAttributes(svc, o.entity)[n]) \in Candidate
           /\ CandidateOf(Incoming(o, n)) \in Candidate
  <1> DEFINE existing == PreviousAttributes(svc, o.entity)[n]
             rival == Incoming(o, n)
  <1>1. PreviousAttributes(svc, o.entity) \in AttributeMap
    BY MemoryFacts, MapTypes DEF Inv, TypeOK
  <1>2. n \in Attributes /\ o.payload[n] # NoValue /\ Disagree(existing, rival)
    BY DEF Disputed
  <1>3. existing \in Attribute /\ existing.connector # NoValue
    BY <1>1, <1>2 DEF AttributeMap, Disagree
  <1>4. rival \in Attribute /\ rival.connector \in Connectors
    BY <1>2 DEF Incoming, Attribute, Observation, ValueMap
  <1> HIDE DEF existing, rival
  <1>5. CandidateOf(existing) \in Candidate /\ CandidateOf(rival) \in Candidate
    BY <1>3, <1>4 DEF CandidateOf, Candidate, Attribute
  <1> QED
    BY <1>2, <1>5 DEF existing, rival

\* The candidates of a conflict are one or more, and only grow.
LEMMA CandidateLists ==
    ASSUME NEW list \in Seq(Candidate) \ {<<>>}, NEW x \in Candidate, NEW y \in Candidate
    PROVE  Append(list, x) \in Seq(Candidate) \ {<<>>}
           /\ <<x, y>> \in Seq(Candidate) \ {<<>>}
  <1>1. Append(list, x) \in Seq(Candidate) /\ Len(Append(list, x)) = Len(list) + 1
        /\ Len(list) \in Nat
    OBVIOUS
  <1>2. <<x, y>> \in Seq(Candidate) /\ Len(<<x, y>>) = 2
    OBVIOUS
  <1>3. Len(<<>>) = 0
    OBVIOUS
  <1> QED
    BY <1>1, <1>2, <1>3

\* A dispute that is opened has its two sides.
LEMMA NewConflictType ==
    ASSUME Inv, NEW o \in Observation, NEW n \in NewlyDisputed(svc, o)
    PROVE  NewConflict(svc, o, n) \in Conflict /\ NewConflict(svc, o, n) # NoValue
  <1> DEFINE list == <<CandidateOf(PreviousAttributes(svc, o.entity)[n]),
                       CandidateOf(Incoming(o, n))>>
  <1>1. /\ n \in Attributes
        /\ CandidateOf(PreviousAttributes(svc, o.entity)[n]) \in Candidate
        /\ CandidateOf(Incoming(o, n)) \in Candidate
    BY DisputeFacts DEF NewlyDisputed
  <1>2. list \in Seq(Candidate) \ {<<>>}
    BY <1>1, CandidateLists
  <1>3. NewConflict(svc, o, n) =
            [entity |-> o.entity, attribute |-> n, candidates |-> list,
             status |-> "open", resolved_value |-> NoValue]
    BY DEF NewConflict
  <1>4. o.entity \in Entities
    BY DEF Observation
  <1> HIDE DEF list
  <1> QED
    BY <1>1, <1>2, <1>3, <1>4, NoValueAssumption DEF Conflict

\* A set of natural numbers with an upper bound has a greatest one.
LEMMA GreatestNatural ==
    ASSUME NEW n \in Nat, NEW S \in SUBSET (1..n), S # {}
    PROVE  \E k \in S : \A j \in S : j <= k
  <1> DEFINE Below == {m \in Nat : n - m \in S}
  <1>1. Below # {}
    <2>1. PICK k \in S : TRUE
      OBVIOUS
    <2>2. k \in 1..n /\ n - k \in Nat /\ n - (n - k) = k
      OBVIOUS
    <2> QED
      BY <2>1, <2>2
  <1>2. IsWellFoundedOn(OpToRel(<, Nat), Nat)
    BY NatLessThanWellFounded, Zenon
  <1>3. Below \subseteq Nat
    OBVIOUS
  <1> HIDE DEF Below
  <1>4. PICK m \in Below : \A l \in Below : ~(<<l, m>> \in OpToRel(<, Nat))
    BY <1>1, <1>2, <1>3, WFMin, Zenon
  <1>5. ASSUME NEW l \in Below PROVE m <= l
    <2>1. ~(<<l, m>> \in OpToRel(<, Nat)) /\ l \in Nat /\ m \in Nat
      BY <1>3, <1>4
    <2> QED
      BY <2>1 DEF OpToRel
  <1>6. m \in Nat /\ n - m \in S
    BY DEF Below
  <1>7. ASSUME NEW j \in S PROVE j <= n - m
    <2>1. j \in 1..n /\ n - j \in Nat /\ n - (n - j) = j
      OBVIOUS
    <2>2. n - j \in Below
      BY <2>1 DEF Below
    <2> QED
      BY <1>5, <1>6, <2>1, <2>2
  <1> QED
    BY <1>6, <1>7

\* A resolution names observations of its conflict: one at least, and the last
\* of them is the source of the value it sets.
LEMMA SourceTypes ==
    ASSUME NEW conflict \in Conflict, NEW value
    PROVE  /\ SourceIds(conflict, value) \subseteq ObservationIds
           /\ SourceIds(conflict, value) # {}
           /\ LastSourceId(conflict, value) \in SourceIds(conflict, value)
  <1> DEFINE list == conflict.candidates
             up == Upholding(conflict, value)
             last == CHOOSE k \in up : \A j \in up : j <= k
  <1>1. /\ list \in Seq(Candidate) /\ Len(list) \in Nat /\ DOMAIN list = 1..Len(list)
        /\ list # <<>>
    BY DEF Conflict
  <1>2. DOMAIN list # {}
    <2> HIDE DEF list
    <2>1. Len(list) # 0
      BY <1>1, EmptySeq
    <2>2. 1 \in 1..Len(list)
      BY <1>1, <2>1
    <2> QED
      BY <1>1, <2>2
  <1>3. up \subseteq 1..Len(list) /\ up # {}
    BY <1>1, <1>2 DEF Upholding, Matching
  <1> HIDE DEF up
  <1>4. \E k \in up : \A j \in up : j <= k
    BY <1>1, <1>3, GreatestNatural
  <1>5. last \in up
    BY <1>4
  <1>6. \A k \in up : list[k] \in Candidate
    BY <1>1, <1>3
  <1>7. SourceIds(conflict, value) = {list[k].observation : k \in up}
    BY DEF SourceIds, up
  <1>8. LastSourceId(conflict, value) = list[last].observation
    BY DEF LastSourceId, up
  <1> HIDE DEF last, list
  <1> QED
    BY <1>3, <1>5, <1>6, <1>7, <1>8 DEF Candidate

\* A resolution sets one attribute, of the operator's.
LEMMA ResolutionTypes ==
    ASSUME Inv, NEW i \in ConflictIds, svc.conflicts[i] # NoValue, NEW value \in Values
    PROVE  /\ CauseOfResolution(svc, i, value) \in Causes
           /\ CauseOfResolution(svc, i, value).resolves = i
           /\ svc.conflicts[i] \in Conflict
           /\ LET e == svc.conflicts[i].entity
                  a == svc.conflicts[i].attribute
                  m == ResolvedAttributes(svc, i, value)
              IN  /\ e \in Entities /\ a \in Attributes
                  /\ m \in AttributeMap /\ Sourced(m)
                  /\ m[a] # NoValue
                  /\ \A n \in Attributes : n # a => m[n] = PreviousAttributes(svc, e)[n]
  <1> DEFINE e == svc.conflicts[i].entity
             a == svc.conflicts[i].attribute
             old == PreviousAttributes(svc, e)
             new == [value |-> value, connector |-> Operator, freshness |-> "fresh",
                     source |-> LastSourceId(svc.conflicts[i], value)]
  <1>1. svc.conflicts[i] \in Conflict
    BY DEF Inv, TypeOK, Memory
  <1>2. e \in Entities /\ a \in Attributes
    BY <1>1 DEF Conflict
  <1>3. /\ SourceIds(svc.conflicts[i], value) \subseteq ObservationIds
        /\ LastSourceId(svc.conflicts[i], value) \in ObservationIds
    BY <1>1, SourceTypes
  <1>4. old \in AttributeMap /\ Sourced(old)
    BY <1>2 DEF Inv, TypeOK, Memory, PreviousAttributes, NoAttributes, AttributeMap,
                EntityState, StatesAreSourced, Sourced
  <1>5. new \in Attribute /\ new.connector # NoValue
    BY <1>3, NoValueAssumption DEF Attribute, Freshness
  <1>6. ResolvedAttributes(svc, i, value) = [old EXCEPT ![a] = new]
    BY DEF ResolvedAttributes
  <1>7. CauseOfResolution(svc, i, value) \in Causes
        /\ CauseOfResolution(svc, i, value).resolves = i
    BY <1>3 DEF CauseOfResolution, Cause, Causes
  <1>8. new # NoValue
    BY <1>5, NoValueAssumption
  <1> HIDE DEF e, a, old, new
  <1>9. [old EXCEPT ![a] = new] \in AttributeMap /\ Sourced([old EXCEPT ![a] = new])
        /\ [old EXCEPT ![a] = new][a] # NoValue
        /\ \A n \in Attributes : n # a => [old EXCEPT ![a] = new][n] = old[n]
    BY <1>2, <1>4, <1>5, <1>8 DEF AttributeMap, Sourced
  <1> QED
    BY <1>1, <1>2, <1>6, <1>7, <1>9 DEF e, a, old

\* What an observation does to one conflict and to one entry of the index.
LEMMA IngestConflicts ==
    ASSUME Inv, NEW o \in Observation, o.id \notin svc.seen,
           svc'.conflicts = ConflictsAfter(svc, o), svc'.open = OpenAfter(svc, o)
    PROVE  /\ svc'.conflicts \in [ConflictIds -> Conflict \cup {NoValue}]
           /\ svc'.open \in [Entities \X Attributes -> ConflictIds \cup {NoValue}]
           /\ \A i \in ConflictIds :
                 \/ svc'.conflicts[i] = svc.conflicts[i]
                 \/ /\ svc.conflicts[i] # NoValue
                    /\ svc.conflicts[i].status = "open"
                    /\ svc'.conflicts[i] # NoValue
                    /\ svc'.conflicts[i].status = "open"
                    /\ svc'.conflicts[i].entity = svc.conflicts[i].entity
                    /\ svc'.conflicts[i].attribute = svc.conflicts[i].attribute
                 \/ /\ svc.conflicts[i] = NoValue
                    /\ i[1] = o.id
                    /\ i[2] \in NewlyDisputed(svc, o)
                    /\ svc'.conflicts[i] # NoValue
                    /\ svc'.conflicts[i] = NewConflict(svc, o, i[2])
           /\ \A k \in Entities \X Attributes :
                 \/ svc'.open[k] = svc.open[k]
                       /\ ~(k[1] = o.entity /\ k[2] \in NewlyDisputed(svc, o))
                 \/ /\ svc.open[k] = NoValue /\ k[1] = o.entity
                    /\ k[2] \in NewlyDisputed(svc, o)
                    /\ svc'.open[k] = <<o.id, k[2]>>
  <1>1. /\ svc.conflicts \in [ConflictIds -> Conflict \cup {NoValue}]
        /\ svc.open \in [Entities \X Attributes -> ConflictIds \cup {NoValue}]
    BY DEF Inv, TypeOK, Memory
  <1>2. o.id \in ObservationIds /\ o.entity \in Entities
    BY DEF Observation
  <1>3. \A n \in Disputed(svc, o) :
           n \in Attributes /\ CandidateOf(Incoming(o, n)) \in Candidate
    BY DisputeFacts
  <1>4. ASSUME NEW i \in ConflictIds, NEW n \in Disputed(svc, o),
               svc.open[<<o.entity, n>>] = i
        PROVE  /\ svc.conflicts[i] \in Conflict /\ svc.conflicts[i] # NoValue
               /\ svc.conflicts[i].status = "open"
               /\ svc.conflicts[i].attribute = n
               /\ svc'.conflicts[i] = JoinedConflict(svc, o, i)
    <2>1. <<o.entity, n>> \in Entities \X Attributes
      BY <1>2, <1>3
    <2>2. i # NoValue
      BY NoValueAssumption
    <2>3. /\ svc.conflicts[i] # NoValue
          /\ svc.conflicts[i].status = "open"
          /\ svc.conflicts[i].attribute = <<o.entity, n>>[2]
      BY <1>4, <2>1, <2>2 DEF Inv, ConflictInv, OpenConflictsAreIndexed
    <2>4. svc'.conflicts[i] = JoinedConflict(svc, o, i)
      BY <1>4 DEF ConflictsAfter
    <2> QED
      BY <1>1, <2>3, <2>4
  <1>5. ASSUME NEW i \in ConflictIds, NEW n \in Disputed(svc, o),
               svc.open[<<o.entity, n>>] = i
        PROVE  /\ svc'.conflicts[i] \in Conflict
               /\ svc'.conflicts[i].status = "open"
               /\ svc'.conflicts[i].entity = svc.conflicts[i].entity
               /\ svc'.conflicts[i].attribute = svc.conflicts[i].attribute
    <2>1. PICK list : /\ list \in {svc.conflicts[i].candidates,
                                   Append(svc.conflicts[i].candidates,
                                          CandidateOf(Incoming(o, n)))}
                      /\ svc'.conflicts[i] = [svc.conflicts[i] EXCEPT !.candidates = list]
      BY <1>4, <1>5 DEF JoinedConflict
    <2>2. svc.conflicts[i] \in Conflict /\ svc.conflicts[i].status = "open"
      BY <1>4, <1>5
    <2>3. svc.conflicts[i].candidates \in Seq(Candidate) \ {<<>>}
      BY <2>2 DEF Conflict
    <2>4. CandidateOf(Incoming(o, n)) \in Candidate
      BY <1>3
    <2>5. list \in Seq(Candidate) \ {<<>>}
      BY <2>1, <2>3, <2>4, CandidateLists
    <2> QED
      BY <2>1, <2>2, <2>5 DEF Conflict
  <1>6. ASSUME NEW n \in NewlyDisputed(svc, o)
        PROVE  /\ NewConflict(svc, o, n) \in Conflict
               /\ NewConflict(svc, o, n) # NoValue
    BY NewConflictType
  <1>7. ASSUME NEW i \in ConflictIds
        PROVE  \/ \E n \in Disputed(svc, o) : svc.open[<<o.entity, n>>] = i
               \/ /\ i[1] = o.id /\ i[2] \in NewlyDisputed(svc, o)
                  /\ svc'.conflicts[i] = NewConflict(svc, o, i[2])
                  /\ svc.conflicts[i] = NoValue
               \/ svc'.conflicts[i] = svc.conflicts[i]
    <2>1. i[1] = o.id => svc.conflicts[i] = NoValue
      BY DEF Inv, ConflictInv, ConflictsAreSeen
    <2> QED
      BY <2>1 DEF ConflictsAfter
  <1>8. \A i \in ConflictIds : svc'.conflicts[i] \in Conflict \cup {NoValue}
    BY <1>1, <1>5, <1>6, <1>7
  <1>9. svc'.conflicts \in [ConflictIds -> Conflict \cup {NoValue}]
    <2>1. svc'.conflicts = [i \in ConflictIds |-> svc'.conflicts[i]]
      BY DEF ConflictsAfter
    <2> QED
      BY <1>8, <2>1
  <1>10. svc'.open \in [Entities \X Attributes -> ConflictIds \cup {NoValue}]
    BY <1>1, <1>2 DEF OpenAfter, ConflictIds
  <1>11. \A k \in Entities \X Attributes :
            \/ svc'.open[k] = svc.open[k]
                  /\ ~(k[1] = o.entity /\ k[2] \in NewlyDisputed(svc, o))
            \/ /\ svc.open[k] = NoValue /\ k[1] = o.entity
               /\ k[2] \in NewlyDisputed(svc, o)
               /\ svc'.open[k] = <<o.id, k[2]>>
    BY DEF OpenAfter, NewlyDisputed
  <1>12. ASSUME NEW i \in ConflictIds
         PROVE  \/ svc'.conflicts[i] = svc.conflicts[i]
                \/ /\ svc.conflicts[i] # NoValue
                   /\ svc.conflicts[i].status = "open"
                   /\ svc'.conflicts[i] # NoValue
                   /\ svc'.conflicts[i].status = "open"
                   /\ svc'.conflicts[i].entity = svc.conflicts[i].entity
                   /\ svc'.conflicts[i].attribute = svc.conflicts[i].attribute
                \/ /\ svc.conflicts[i] = NoValue
                   /\ i[1] = o.id
                   /\ i[2] \in NewlyDisputed(svc, o)
                   /\ svc'.conflicts[i] # NoValue
                   /\ svc'.conflicts[i] = NewConflict(svc, o, i[2])
    BY <1>4, <1>5, <1>6, <1>7, NoValueAssumption
  <1> QED
    BY <1>9, <1>10, <1>11, <1>12

\* An observation keeps the conflicts and their index in agreement: a dispute
\* joins the open conflict of its attribute or opens the only one.
LEMMA IngestKeepsConflicts ==
    ASSUME Inv, NEW o \in Observation, o.id \notin svc.seen,
           svc'.seen = svc.seen \cup {o.id},
           svc'.conflicts = ConflictsAfter(svc, o), svc'.open = OpenAfter(svc, o)
    PROVE  ConflictInv'
  <1>1. /\ svc.open \in [Entities \X Attributes -> ConflictIds \cup {NoValue}]
        /\ svc.conflicts \in [ConflictIds -> Conflict \cup {NoValue}]
        /\ o.id \in ObservationIds /\ o.entity \in Entities
    BY DEF Inv, TypeOK, Memory, Observation
  <1>2. OpenConflictsAreIndexed /\ ConflictsAreSeen
    BY DEF Inv, ConflictInv
  <1>3. ASSUME NEW n \in NewlyDisputed(svc, o)
        PROVE  /\ n \in Attributes
               /\ NewConflict(svc, o, n).entity = o.entity
               /\ NewConflict(svc, o, n).attribute = n
               /\ NewConflict(svc, o, n).status = "open"
    BY DisputeFacts DEF NewlyDisputed, NewConflict
  <1>4. ConflictsAreSeen'
    BY <1>2, IngestConflicts DEF ConflictsAreSeen
  <1>6. ASSUME NEW i \in ConflictIds, svc'.conflicts[i] # NoValue,
               svc'.conflicts[i].status = "open"
        PROVE  svc'.open[<<svc'.conflicts[i].entity, svc'.conflicts[i].attribute>>] = i
    <2>1. CASE /\ svc.conflicts[i] # NoValue
               /\ svc.conflicts[i].status = "open"
               /\ svc'.conflicts[i].entity = svc.conflicts[i].entity
               /\ svc'.conflicts[i].attribute = svc.conflicts[i].attribute
      <3> DEFINE k == <<svc.conflicts[i].entity, svc.conflicts[i].attribute>>
      <3>1. svc.conflicts[i] \in Conflict
        BY <1>1, <2>1
      <3>2. k \in Entities \X Attributes /\ svc.open[k] = i
        BY <1>2, <2>1, <3>1 DEF OpenConflictsAreIndexed, Conflict
      <3>3. svc'.open[k] = svc.open[k]
        BY <3>2, IngestConflicts, NoValueAssumption
      <3> QED
        BY <2>1, <3>2, <3>3
    <2>2. CASE /\ i[1] = o.id /\ i[2] \in NewlyDisputed(svc, o)
               /\ svc'.conflicts[i] = NewConflict(svc, o, i[2])
      <3>1. /\ svc'.conflicts[i].entity = o.entity
            /\ svc'.conflicts[i].attribute = i[2] /\ i[2] \in Attributes
        BY <1>3, <2>2
      <3>2. svc'.open[<<o.entity, i[2]>>] = <<o.id, i[2]>>
        BY <1>1, <2>2, <3>1 DEF OpenAfter
      <3>3. i = <<o.id, i[2]>>
        BY <2>2 DEF ConflictIds
      <3> QED
        BY <3>1, <3>2, <3>3
    <2> QED
      BY <1>6, <2>1, <2>2, IngestConflicts
  <1>7. ASSUME NEW k \in Entities \X Attributes, svc'.open[k] # NoValue
        PROVE  /\ svc'.conflicts[svc'.open[k]] # NoValue
               /\ svc'.conflicts[svc'.open[k]].status = "open"
               /\ svc'.conflicts[svc'.open[k]].entity = k[1]
               /\ svc'.conflicts[svc'.open[k]].attribute = k[2]
    <2>1. CASE svc'.open[k] = svc.open[k]
      <3>1. PICK i \in ConflictIds : i = svc.open[k]
        BY <1>1, <1>7, <2>1
      <3>2. /\ svc.conflicts[i] # NoValue /\ svc.conflicts[i].status = "open"
            /\ svc.conflicts[i].entity = k[1] /\ svc.conflicts[i].attribute = k[2]
        BY <1>2, <1>7, <2>1, <3>1 DEF OpenConflictsAreIndexed
      <3> QED
        BY <2>1, <3>1, <3>2, IngestConflicts
    <2>2. CASE /\ k[1] = o.entity /\ k[2] \in NewlyDisputed(svc, o)
               /\ svc'.open[k] = <<o.id, k[2]>>
      <3>1. PICK i \in ConflictIds : i = <<o.id, k[2]>>
        BY <1>1, <1>3, <2>2 DEF ConflictIds
      <3>2. svc.conflicts[i] = NoValue
        BY <1>2, <3>1 DEF ConflictsAreSeen
      <3>3. ~ \E n \in Disputed(svc, o) : svc.open[<<o.entity, n>>] = i
        <4>1. ASSUME NEW n \in Disputed(svc, o), svc.open[<<o.entity, n>>] = i
              PROVE  FALSE
          <5>1. <<o.entity, n>> \in Entities \X Attributes
            BY <1>1, <4>1 DEF Disputed
          <5> QED
            BY <1>2, <3>2, <4>1, <5>1, NoValueAssumption DEF OpenConflictsAreIndexed
        <4> QED
          BY <4>1
      <3>4. i[1] = o.id /\ i[2] = k[2]
        BY <3>1
      <3>5. svc'.conflicts[i] = NewConflict(svc, o, k[2])
        BY <2>2, <3>3, <3>4 DEF ConflictsAfter
      <3>6. NewConflict(svc, o, k[2]) # NoValue
        BY <2>2, NewConflictType
      <3> QED
        BY <1>3, <2>2, <3>1, <3>5, <3>6
    <2> QED
      BY <2>1, <2>2, IngestConflicts
  <1>8. OpenConflictsAreIndexed'
    BY <1>6, <1>7 DEF OpenConflictsAreIndexed
  <1> QED
    BY <1>4, <1>8 DEF ConflictInv

\* A decision closes the conflict and its index entry together.
LEMMA DecisionKeepsConflicts ==
    ASSUME Inv, NEW i \in ConflictIds, NEW value \in Values,
           svc.conflicts[i] # NoValue, svc.conflicts[i].status # "resolved",
           svc'.seen = svc.seen,
           svc'.conflicts = [svc.conflicts EXCEPT ![i] =
               [@ EXCEPT !.status = "resolved", !.resolved_value = value]],
           svc'.open = [svc.open EXCEPT ![KeyOfConflict(svc, i)] = NoValue]
    PROVE  /\ ConflictInv'
           /\ svc'.conflicts \in [ConflictIds -> Conflict \cup {NoValue}]
           /\ svc'.open \in [Entities \X Attributes -> ConflictIds \cup {NoValue}]
  <1> DEFINE key == <<svc.conflicts[i].entity, svc.conflicts[i].attribute>>
  <1>1. /\ svc.open \in [Entities \X Attributes -> ConflictIds \cup {NoValue}]
        /\ svc.conflicts \in [ConflictIds -> Conflict \cup {NoValue}]
        /\ svc.conflicts[i] \in Conflict
    BY DEF Inv, TypeOK, Memory
  <1>2. OpenConflictsAreIndexed /\ ConflictsAreSeen
    BY DEF Inv, ConflictInv
  <1>3. svc.conflicts[i].status = "open" /\ key \in Entities \X Attributes
    BY <1>1 DEF Conflict
  <1>4. svc.open[key] = i
    BY <1>2, <1>3 DEF OpenConflictsAreIndexed
  <1>5. /\ svc'.conflicts[i] \in Conflict
        /\ svc'.conflicts[i].status = "resolved"
        /\ \A j \in ConflictIds : j # i => svc'.conflicts[j] = svc.conflicts[j]
    <2>1. svc'.conflicts[i] = [svc.conflicts[i] EXCEPT !.status = "resolved",
                                                       !.resolved_value = value]
      BY <1>1
    <2>2. svc'.conflicts[i] \in Conflict
      BY <1>1, <2>1 DEF Conflict
    <2>3. svc'.conflicts[i].status = "resolved"
      BY <1>1, <2>1 DEF Conflict
    <2>4. \A j \in ConflictIds : j # i => svc'.conflicts[j] = svc.conflicts[j]
      BY <1>1
    <2> QED
      BY <2>2, <2>3, <2>4
  <1>6. /\ svc'.open[key] = NoValue
        /\ \A k \in Entities \X Attributes : k # key => svc'.open[k] = svc.open[k]
    BY <1>1, <1>3 DEF KeyOfConflict
  <1>7. /\ svc'.conflicts \in [ConflictIds -> Conflict \cup {NoValue}]
        /\ svc'.open \in [Entities \X Attributes -> ConflictIds \cup {NoValue}]
    BY <1>1, <1>5
  <1>8. ConflictsAreSeen'
    BY <1>2, <1>5 DEF ConflictsAreSeen
  <1>9. ASSUME NEW j \in ConflictIds, svc'.conflicts[j] # NoValue,
               svc'.conflicts[j].status = "open"
        PROVE  svc'.open[<<svc'.conflicts[j].entity, svc'.conflicts[j].attribute>>] = j
    <2>1. j # i /\ svc'.conflicts[j] = svc.conflicts[j]
      BY <1>5, <1>9
    <2>2. svc.conflicts[j] \in Conflict
      BY <1>1, <1>9, <2>1
    <2>3. PICK k \in Entities \X Attributes :
             k = <<svc.conflicts[j].entity, svc.conflicts[j].attribute>>
      BY <2>2 DEF Conflict
    <2>4. svc.open[k] = j
      BY <1>2, <1>9, <2>1, <2>3 DEF OpenConflictsAreIndexed
    <2> QED
      BY <1>4, <1>6, <2>1, <2>3, <2>4
  <1>10. ASSUME NEW k \in Entities \X Attributes, svc'.open[k] # NoValue
         PROVE  /\ svc'.conflicts[svc'.open[k]] # NoValue
                /\ svc'.conflicts[svc'.open[k]].status = "open"
                /\ svc'.conflicts[svc'.open[k]].entity = k[1]
                /\ svc'.conflicts[svc'.open[k]].attribute = k[2]
    <2>1. k # key /\ svc'.open[k] = svc.open[k]
      BY <1>6, <1>10
    <2>2. PICK j \in ConflictIds : j = svc.open[k]
      BY <1>1, <1>10, <2>1
    <2>3. /\ svc.conflicts[j] # NoValue /\ svc.conflicts[j].status = "open"
          /\ svc.conflicts[j].entity = k[1] /\ svc.conflicts[j].attribute = k[2]
      BY <1>2, <1>10, <2>1, <2>2 DEF OpenConflictsAreIndexed
    <2>4. PICK f \in Entities, n \in Attributes : k = <<f, n>>
      OBVIOUS
    <2>5. j # i
      BY <2>1, <2>3, <2>4
    <2> QED
      BY <1>5, <2>1, <2>2, <2>3, <2>5
  <1>11. OpenConflictsAreIndexed'
    BY <1>9, <1>10 DEF OpenConflictsAreIndexed
  <1> QED
    BY <1>7, <1>8, <1>11 DEF ConflictInv

-----------------------------------------------------------------------------
(* The theorems.                                                           *)

\* An empty service satisfies the invariant.
LEMMA InitInv == Init => Inv
  <1> SUFFICES ASSUME Init PROVE Inv
    OBVIOUS
  <1>1. /\ minted = 0 /\ svc.seen = {} /\ svc.latest = NoValue
        /\ svc.states = [e \in Entities |-> NoValue]
        /\ svc.commits = [c \in {} |-> NoValue]
        /\ svc.conflicts = [i \in ConflictIds |-> NoValue]
        /\ svc.open = [k \in Entities \X Attributes |-> NoValue]
        /\ IsMemory(svc)
    BY DEF Init, EmptyService, IsMemory
  <1>2. DOMAIN svc.commits = {} /\ 1..0 = {} /\ svc.commits \in [1..0 -> Commit]
    BY <1>1
  <1>3. TypeOK
    <2>1. svc \in Memory(0)
      BY <1>1, <1>2, MemoryType
    <2> QED
      BY <1>1, <2>1, MaxCommitsAssumption DEF TypeOK
  <1>4. \A e \in Entities : CommitsOf(e) = {}
    BY <1>2 DEF CommitsOf
  <1>5. HistoryInv
    BY <1>1, <1>2, <1>4 DEF HistoryInv, HistoryIsOneChain, StatesReplayHistory,
        StatesReplay, CausesCommitOnce, CausesArePast
  <1>6. ConflictInv
    BY <1>1 DEF ConflictInv, OpenConflictsAreIndexed, ConflictsAreSeen
  <1> QED
    BY <1>1, <1>3, <1>5, <1>6 DEF Inv, StatesAreSourced

\* The invariant speaks of the service's memory and of nothing else.
LEMMA UnchangedInv ==
    ASSUME Inv, UNCHANGED vars
    PROVE  Inv'
  <1>1. TypeOK' /\ ConflictInv' /\ StatesAreSourced'
    BY DEF vars, Inv, TypeOK, ConflictInv, OpenConflictsAreIndexed, ConflictsAreSeen,
           StatesAreSourced
  <1>2. HistoryIsOneChain' /\ CausesCommitOnce' /\ CausesArePast'
    BY DEF vars, Inv, HistoryInv, HistoryIsOneChain, CausesCommitOnce, CausesArePast
  <1>3. StatesReplayHistory'
    BY DEF vars, Inv, HistoryInv, StatesReplayHistory, StatesReplay, FollowsHistory,
           CommitsOf
  <1> QED
    BY <1>1, <1>2, <1>3 DEF Inv, HistoryInv

\* Observations name their connector.
LEMMA MergedIsSourced ==
    ASSUME Inv, NEW o \in Observation
    PROVE  Sourced(Merged(svc, o))
  <1>1. Sourced(PreviousAttributes(svc, o.entity))
    BY DEF Inv, StatesAreSourced, Sourced, PreviousAttributes, NoAttributes, Observation
  <1>2. \A n \in Attributes : Incoming(o, n).connector # NoValue
    BY NoValueAssumption DEF Incoming, Observation
  <1> QED
    BY <1>1, <1>2 DEF Sourced, Merged

\* An observation preserves the invariant.
LEMMA IngestKeepsInv ==
    ASSUME Inv, NEW o \in Observation, IngestObservation(o)
    PROVE  Inv'
  <1>1. CASE svc' = svc /\ HistoryRests
    BY <1>1, UnchangedInv DEF HistoryRests, vars
  <1>2. CASE /\ o.id \notin svc.seen
             /\ svc'.seen = svc.seen \cup {o.id}
             /\ svc'.conflicts = ConflictsAfter(svc, o)
             /\ svc'.open = OpenAfter(svc, o)
             /\ IsMemory(svc')
             /\ \/ HistoryRests
                \/ HistoryGrows(o.entity, Cause({o.id}, NoValue), Merged(svc, o))
    <2>1. ConflictInv'
      BY <1>2, IngestKeepsConflicts
    <2>2. /\ svc'.conflicts \in [ConflictIds -> Conflict \cup {NoValue}]
          /\ svc'.open \in [Entities \X Attributes -> ConflictIds \cup {NoValue}]
      BY <1>2, IngestConflicts
    <2>3. /\ PastStays /\ svc'.seen \subseteq ObservationIds
          /\ ~ Past(svc, Cause({o.id}, NoValue)) /\ Past(svc', Cause({o.id}, NoValue))
      <3>1. svc.seen \subseteq svc'.seen /\ svc'.seen \subseteq ObservationIds
        BY <1>2 DEF Inv, TypeOK, Memory, Observation
      <3>2. \A i \in ConflictIds :
               svc.conflicts[i] # NoValue /\ svc.conflicts[i].status = "resolved" =>
                   svc'.conflicts[i] = svc.conflicts[i]
        BY <1>2, IngestConflicts
      <3> QED
        BY <1>2, <3>1, <3>2 DEF PastStays, Past, Cause
    <2>4. /\ HistoryInv' /\ StatesAreSourced'
          /\ svc'.states \in [Entities -> EntityState \cup {NoValue}]
          /\ svc'.commits \in [1..minted' -> Commit]
          /\ svc'.latest \in CommitIds \cup {NoValue}
          /\ minted' \in 0..MaxCommits
      <3>1. CASE HistoryRests
        BY <2>3, <3>1, RestKeepsHistory DEF HistoryRests, Inv, TypeOK
      <3>2. CASE HistoryGrows(o.entity, Cause({o.id}, NoValue), Merged(svc, o))
        <4>1. /\ Merged(svc, o) \in AttributeMap /\ o.entity \in Entities
              /\ Cause({o.id}, NoValue) \in Causes
          BY MemoryFacts, MapTypes DEF Inv, TypeOK, Observation, Cause, Causes
        <4>3. Sourced(Merged(svc, o))
          BY MergedIsSourced
        <4>2. minted' \in 0..MaxCommits
          BY <3>2 DEF HistoryGrows
        <4> QED
          BY <1>2, <2>3, <3>2, <4>1, <4>2, <4>3, GrowthKeepsHistory
      <3> QED
        BY <1>2, <3>1, <3>2
    <2>5. minted' \in Nat
      BY <2>4, MaxCommitsAssumption
    <2>6. TypeOK'
      BY <1>2, <2>2, <2>3, <2>4, <2>5, MemoryType DEF TypeOK
    <2> QED
      BY <2>1, <2>4, <2>6 DEF Inv
  <1> QED
    BY <1>1, <1>2, IngestStep

\* A resolution preserves the invariant.
LEMMA ResolveKeepsInv ==
    ASSUME Inv, NEW i \in ConflictIds, NEW value \in Values,
           ResolveConflict(i, value)
    PROVE  Inv'
  <1> DEFINE e == svc.conflicts[i].entity
             m == ResolvedAttributes(svc, i, value)
  <1>1. CASE svc' = svc /\ HistoryRests
    BY <1>1, UnchangedInv DEF HistoryRests, vars
  <1>2. CASE /\ svc.conflicts[i] # NoValue
             /\ svc.conflicts[i].status # "resolved"
             /\ svc'.seen = svc.seen
             /\ svc'.conflicts = [svc.conflicts EXCEPT ![i] =
                   [@ EXCEPT !.status = "resolved", !.resolved_value = value]]
             /\ svc'.open = [svc.open EXCEPT ![KeyOfConflict(svc, i)] = NoValue]
             /\ IsMemory(svc')
             /\ HistoryRests \/ HistoryGrows(e, CauseOfResolution(svc, i, value), m)
    <2>1. /\ ConflictInv'
          /\ svc'.conflicts \in [ConflictIds -> Conflict \cup {NoValue}]
          /\ svc'.open \in [Entities \X Attributes -> ConflictIds \cup {NoValue}]
      BY <1>2, DecisionKeepsConflicts
    <2>2. svc'.seen \subseteq ObservationIds
      BY <1>2 DEF Inv, TypeOK, Memory
    <2>3. /\ e \in Entities /\ m \in AttributeMap /\ Sourced(m)
          /\ CauseOfResolution(svc, i, value) \in Causes
          /\ CauseOfResolution(svc, i, value).resolves = i
      BY <1>2, ResolutionTypes
    <2>4. /\ svc'.conflicts[i] # NoValue /\ svc'.conflicts[i].status = "resolved"
          /\ PastStays
      <3>1. svc.conflicts \in [ConflictIds -> Conflict \cup {NoValue}]
        BY DEF Inv, TypeOK, Memory
      <3>2. /\ svc'.conflicts[i] # NoValue /\ svc'.conflicts[i].status = "resolved"
            /\ \A j \in ConflictIds : j # i => svc'.conflicts[j] = svc.conflicts[j]
        <4>1. svc'.conflicts[i] = [svc.conflicts[i] EXCEPT !.status = "resolved",
                                                           !.resolved_value = value]
          BY <1>2, <3>1
        <4>2. svc.conflicts[i] \in Conflict /\ svc'.conflicts[i] \in Conflict \cup {NoValue}
          BY <1>2, <2>1, <3>1
        <4>3. svc'.conflicts[i].status = "resolved"
          BY <4>1, <4>2 DEF Conflict
        <4>4. svc'.conflicts[i] # NoValue
          <5>1. [svc.conflicts[i] EXCEPT !.status = "resolved", !.resolved_value = value]
                    \in Conflict
            BY <4>2 DEF Conflict
          <5> QED
            BY <4>1, <5>1, NoValueAssumption
        <4>5. \A j \in ConflictIds : j # i => svc'.conflicts[j] = svc.conflicts[j]
          BY <1>2, <3>1
        <4> QED
          BY <4>3, <4>4, <4>5
      <3> QED
        BY <1>2, <3>2 DEF PastStays
    <2>5. /\ HistoryInv' /\ StatesAreSourced'
          /\ svc'.states \in [Entities -> EntityState \cup {NoValue}]
          /\ svc'.commits \in [1..minted' -> Commit]
          /\ svc'.latest \in CommitIds \cup {NoValue}
          /\ minted' \in 0..MaxCommits
      <3> HIDE DEF e, m
      <3>1. CASE HistoryRests
        BY <2>4, <3>1, RestKeepsHistory DEF HistoryRests, Inv, TypeOK
      <3>2. CASE HistoryGrows(e, CauseOfResolution(svc, i, value), m)
        <4>1. minted' \in 0..MaxCommits
          BY <3>2 DEF HistoryGrows
        <4>2. /\ ~ Past(svc, CauseOfResolution(svc, i, value))
              /\ Past(svc', CauseOfResolution(svc, i, value))
          BY <1>2, <2>3, <2>4, NoValueAssumption DEF Past
        <4> QED
          BY <2>3, <2>4, <3>2, <4>1, <4>2, GrowthKeepsHistory
      <3> QED
        BY <1>2, <3>1, <3>2
    <2>6. TypeOK'
      <3>1. minted' \in Nat
        BY <2>5, MaxCommitsAssumption
      <3>2. svc' \in Memory(minted')
        BY <1>2, <2>1, <2>2, <2>5, <3>1, MemoryType
      <3> QED
        BY <2>5, <3>2 DEF TypeOK
    <2> QED
      BY <2>1, <2>5, <2>6 DEF Inv
  <1> QED
    BY <1>1, <1>2, ResolveStep

\* Every step preserves the invariant.
LEMMA StepInv == Inv /\ [Next]_vars => Inv'
  <1> SUFFICES ASSUME Inv, [Next]_vars PROVE Inv'
    OBVIOUS
  <1>1. ASSUME NEW o \in Observation, IngestObservation(o) PROVE Inv'
    BY <1>1, IngestKeepsInv
  <1>2. ASSUME NEW i \in ConflictIds, NEW value \in Values,
               ResolveConflict(i, value)
        PROVE  Inv'
    BY <1>2, ResolveKeepsInv
  <1>3. CASE UNCHANGED vars
    BY <1>3, UnchangedInv
  <1> QED
    BY <1>1, <1>2, <1>3 DEF Next

\* The inductive invariant holds in every reachable state of the service.
THEOREM InvHolds == Spec => []Inv
  <1> QED
    BY InitInv, StepInv, PTL DEF Spec

\* The service's dictionaries keep their types (service.py:17-23).
THEOREM TypeCorrect == Spec => []TypeOK
  <1>1. Inv => TypeOK
    BY DEF Inv
  <1> QED
    BY <1>1, InvHolds, PTL

\* The commits of a tenant are one chain that validate_commit_chain accepts
\* (service.py:91-139).
THEOREM ChainHolds == Spec => []HistoryIsOneChain
  <1>1. Inv => HistoryIsOneChain
    BY DEF Inv, HistoryInv
  <1> QED
    BY <1>1, InvHolds, PTL

\* A state is what its commits replay to (service.py:42-89, 238-274).
THEOREM ReplayHolds == Spec => []StatesReplayHistory
  <1>1. Inv => StatesReplayHistory
    BY DEF Inv, HistoryInv
  <1> QED
    BY <1>1, InvHolds, PTL

\* An observation sent again is never committed again, a conflict resolved
\* again neither (service.py:32-36, 222-223).
THEOREM OnceHolds == Spec => []CausesCommitOnce
  <1>1. Inv => CausesCommitOnce
    BY DEF Inv, HistoryInv
  <1> QED
    BY <1>1, InvHolds, PTL

\* One open conflict per attribute, found through the index
\* (service.py:154-191, 276-283).
THEOREM IndexHolds == Spec => []OpenConflictsAreIndexed
  <1>1. Inv => OpenConflictsAreIndexed
    BY DEF Inv, ConflictInv
  <1> QED
    BY <1>1, InvHolds, PTL

\* Neither an observation nor another resolution touches a resolved conflict.
LEMMA StepKeepsResolution ==
    ASSUME Inv, [Next]_vars, NEW i \in ConflictIds
    PROVE  KeepsResolution(i)
  <1> SUFFICES ASSUME svc.conflicts[i] # NoValue,
                      svc.conflicts[i].status = "resolved"
               PROVE  svc'.conflicts[i] = svc.conflicts[i]
    BY DEF KeepsResolution
  <1>1. ASSUME NEW o \in Observation, IngestObservation(o)
        PROVE  svc'.conflicts[i] = svc.conflicts[i]
    <2>1. svc' = svc \/ /\ o.id \notin svc.seen
                        /\ svc'.conflicts = ConflictsAfter(svc, o)
                        /\ svc'.open = OpenAfter(svc, o)
      BY <1>1, IngestStep
    <2> QED
      BY <2>1, IngestConflicts
  <1>2. ASSUME NEW j \in ConflictIds, NEW value \in Values,
               ResolveConflict(j, value)
        PROVE  svc'.conflicts[i] = svc.conflicts[i]
    <2>1. \/ svc' = svc
          \/ /\ svc.conflicts[j].status # "resolved"
             /\ svc'.conflicts = [svc.conflicts EXCEPT ![j] =
                   [@ EXCEPT !.status = "resolved", !.resolved_value = value]]
      BY <1>2, ResolveStep
    <2>2. svc.conflicts \in [ConflictIds -> Conflict \cup {NoValue}]
      BY DEF Inv, TypeOK, Memory
    <2> QED
      BY <2>1, <2>2
  <1>3. CASE UNCHANGED vars
    BY <1>3 DEF vars
  <1> QED
    BY <1>1, <1>2, <1>3 DEF Next

\* A resolution is never revised (service.py:222-223, 276-283).
THEOREM ResolutionHolds == Spec => ResolutionIsFinal
  <1>1. Inv /\ [Next]_vars => [\A i \in ConflictIds : KeepsResolution(i)]_vars
    BY StepKeepsResolution
  <1> QED
    BY <1>1, InvHolds, PTL DEF Spec, ResolutionIsFinal

\* The newest commit tells why it was made.
LEMMA GrownCause ==
    ASSUME NEW e, NEW x, NEW m, HistoryGrows(e, x, m)
    PROVE  svc'.commits[svc'.latest].resolves = x.resolves
  BY DEF HistoryGrows, CommitsAfter, NewCommit

\* An observation replaces a fresh value only if its own source sent it.
LEMMA IngestIsJustified ==
    ASSUME Inv, NEW o \in Observation, IngestObservation(o),
           NEW e \in Entities, NEW n \in Attributes
    PROVE  JustifiedOverwrite(e, n)
  <1>1. \/ svc'.states = svc.states
        \/ /\ svc'.states = StatesAfter(svc, NextId, o.entity, Merged(svc, o))
           /\ svc'.commits[svc'.latest].resolves = NoValue
    <2>1. HistoryRests \/ HistoryGrows(o.entity, Cause({o.id}, NoValue), Merged(svc, o))
      BY IngestStep
    <2>2. CASE HistoryRests
      BY <2>2 DEF HistoryRests
    <2>3. CASE HistoryGrows(o.entity, Cause({o.id}, NoValue), Merged(svc, o))
      <3>1. svc'.commits[svc'.latest].resolves = Cause({o.id}, NoValue).resolves
        BY <2>3, GrownCause
      <3> QED
        BY <2>3, <3>1 DEF HistoryGrows, Cause
    <2> QED
      BY <2>1, <2>2, <2>3
  <1>2. CASE svc'.states[e] = svc.states[e]
    BY <1>2 DEF JustifiedOverwrite, PreviousAttributes
  <1>3. CASE /\ e = o.entity
             /\ svc'.states = StatesAfter(svc, NextId, o.entity, Merged(svc, o))
             /\ svc'.commits[svc'.latest].resolves = NoValue
    <2>1. svc.states \in [Entities -> EntityState \cup {NoValue}]
      BY DEF Inv, TypeOK, Memory
    <2>2. PreviousAttributes(svc, e) \in AttributeMap /\ Merged(svc, o) \in AttributeMap
      BY <1>3, MemoryFacts, MapTypes DEF Inv, TypeOK
    <2>3. [version |-> NextVersion(svc.states[e]), attributes |-> Merged(svc, o),
           commit |-> NextId] \in EntityState
      BY <1>3, <2>1, <2>2, MemoryFacts DEF NextVersion, EntityState
    <2>4. svc'.states[e] = [version |-> NextVersion(svc.states[e]),
                            attributes |-> Merged(svc, o), commit |-> NextId]
      BY <1>3, <2>1 DEF StatesAfter
    <2>5. PreviousAttributes(svc', e) = Merged(svc, o)
      BY <2>3, <2>4, NoValueAssumption DEF PreviousAttributes
    <2>6. CASE Merged(svc, o)[n] = PreviousAttributes(svc, e)[n]
      BY <2>5, <2>6 DEF JustifiedOverwrite
    <2>7. CASE /\ Merged(svc, o)[n] = Incoming(o, n)
               /\ o.payload[n] # NoValue /\ n \notin Disputed(svc, o)
      <3>1. ~ Disagree(PreviousAttributes(svc, e)[n], Incoming(o, n))
        BY <1>3, <2>7 DEF Disputed
      <3>2. PreviousAttributes(svc, e)[n] # NoValue =>
                PreviousAttributes(svc, e)[n].connector # NoValue
        BY DEF Inv, StatesAreSourced, Sourced, PreviousAttributes, NoAttributes
      <3> QED
        BY <1>3, <2>5, <2>7, <3>1, <3>2 DEF JustifiedOverwrite, Disagree
    <2> QED
      BY <1>3, <2>6, <2>7 DEF Merged
  <1>4. CASE /\ e # o.entity
             /\ svc'.states = StatesAfter(svc, NextId, o.entity, Merged(svc, o))
    <2>1. svc'.states[e] = svc.states[e]
      BY <1>4 DEF StatesAfter, Inv, TypeOK, Memory
    <2> QED
      BY <1>2, <2>1
  <1> QED
    BY <1>1, <1>2, <1>3, <1>4

\* A resolution replaces only the attribute whose open conflict it decides.
LEMMA ResolveIsJustified ==
    ASSUME Inv, NEW i \in ConflictIds, NEW value \in Values,
           ResolveConflict(i, value),
           NEW e \in Entities, NEW n \in Attributes
    PROVE  JustifiedOverwrite(e, n)
  <1> DEFINE f == svc.conflicts[i].entity
             a == svc.conflicts[i].attribute
             m == ResolvedAttributes(svc, i, value)
  <1>1. \/ svc'.states = svc.states
        \/ /\ svc.conflicts[i] # NoValue /\ svc.conflicts[i].status # "resolved"
           /\ svc'.states = StatesAfter(svc, NextId, f, m)
           /\ svc'.commits[svc'.latest].resolves = i
    <2>1. \/ HistoryRests
          \/ /\ svc.conflicts[i] # NoValue /\ svc.conflicts[i].status # "resolved"
             /\ HistoryGrows(f, CauseOfResolution(svc, i, value), m)
      BY ResolveStep
    <2>2. CASE HistoryRests
      BY <2>2 DEF HistoryRests
    <2>3. CASE /\ svc.conflicts[i] # NoValue /\ svc.conflicts[i].status # "resolved"
               /\ HistoryGrows(f, CauseOfResolution(svc, i, value), m)
      <3>1. svc'.commits[svc'.latest].resolves = CauseOfResolution(svc, i, value).resolves
        BY <2>3, GrownCause
      <3>2. CauseOfResolution(svc, i, value).resolves = i
        BY DEF CauseOfResolution, Cause
      <3> QED
        BY <2>3, <3>1, <3>2 DEF HistoryGrows
    <2> QED
      BY <2>1, <2>2, <2>3
  <1>2. CASE svc'.states[e] = svc.states[e]
    BY <1>2 DEF JustifiedOverwrite, PreviousAttributes
  <1>3. CASE /\ svc.conflicts[i] # NoValue /\ svc.conflicts[i].status # "resolved"
             /\ svc'.states = StatesAfter(svc, NextId, f, m)
             /\ svc'.commits[svc'.latest].resolves = i
    <2>1. /\ svc.states \in [Entities -> EntityState \cup {NoValue}]
          /\ svc.conflicts[i] \in Conflict
      BY <1>3 DEF Inv, TypeOK, Memory
    <2>2. CASE e # f
      <3>1. svc'.states[e] = svc.states[e]
        BY <1>3, <2>1, <2>2 DEF StatesAfter
      <3> QED
        BY <1>2, <3>1
    <2>3. CASE e = f
      <3>1. n # a => m[n] = PreviousAttributes(svc, e)[n]
        BY <1>3, <2>3, ResolutionTypes
      <3>2. m \in AttributeMap
        BY <1>3, ResolutionTypes
      <3> HIDE DEF m
      <3>3. [version |-> NextVersion(svc.states[e]), attributes |-> m,
             commit |-> NextId] \in EntityState
        BY <2>1, <3>2, MemoryFacts DEF NextVersion, EntityState
      <3>4. svc'.states[e] = [version |-> NextVersion(svc.states[e]),
                              attributes |-> m, commit |-> NextId]
        BY <1>3, <2>1, <2>3 DEF StatesAfter
      <3>5. PreviousAttributes(svc', e) = m
        BY <3>3, <3>4, NoValueAssumption DEF PreviousAttributes
      <3>6. n = a => svc.open[<<e, n>>] = i
        BY <1>3, <2>1, <2>3 DEF Inv, ConflictInv, OpenConflictsAreIndexed, Conflict
      <3> QED
        BY <1>3, <3>1, <3>5, <3>6, NoValueAssumption DEF JustifiedOverwrite
    <2> QED
      BY <2>2, <2>3
  <1> QED
    BY <1>1, <1>2, <1>3

\* No fresh value is overwritten but under the name of its connector or by one who
\* decides its open conflict (service.py:45-61, 213-283).
THEOREM NoSilentOverwrite == Spec => FreshValuesAreNotOverwritten
  <1>1. Inv /\ [Next]_vars =>
            [\A e \in Entities, n \in Attributes : JustifiedOverwrite(e, n)]_vars
    BY IngestIsJustified, ResolveIsJustified DEF Next, vars
  <1> QED
    BY <1>1, InvHolds, PTL DEF Spec, FreshValuesAreNotOverwritten

-----------------------------------------------------------------------------
(* Versions.                                                               *)

LEMMA CommitsAreFinite ==
    ASSUME Inv, NEW e \in Entities
    PROVE  IsFiniteSet(CommitsOf(e)) /\ Cardinality(CommitsOf(e)) \in Nat
  <1>1. minted \in Nat /\ CommitsOf(e) \subseteq 1..minted
    BY MemoryFacts DEF CommitsOf
  <1>2. IsFiniteSet(1..minted)
    BY <1>1, FS_Interval
  <1> QED
    BY <1>1, <1>2, FS_Subset, FS_CardinalityType

\* A commit makes one more commit of its entity, and one more version.
LEMMA GrowthCounts ==
    ASSUME Inv, VersionCountsCommits, NEW b \in Entities, NEW x, NEW m,
           HistoryGrows(b, x, m)
    PROVE  VersionCountsCommits'
  <1>1. /\ IsMemory(svc) /\ minted \in Nat /\ DOMAIN svc.commits = 1..minted
        /\ NextId \notin 1..minted
    BY MemoryFacts DEF NextId
  <1>2. svc.states \in [Entities -> EntityState \cup {NoValue}]
    BY DEF Inv, TypeOK, Memory
  <1> DEFINE state == [version |-> NextVersion(svc.states[b]),
                       attributes |-> m, commit |-> NextId]
             commit == NewCommit(svc, b, x, m)
  <1>3. /\ svc'.states = [svc.states EXCEPT ![b] = state]
        /\ svc'.commits = [i \in DOMAIN svc.commits \cup {NextId} |->
               IF i = NextId THEN commit ELSE svc.commits[i]]
        /\ state.version = NextVersion(svc.states[b]) /\ commit.entity = b
    BY DEF HistoryGrows, StatesAfter, CommitsAfter, NewCommit
  <1> HIDE DEF state, commit
  <1>4. ASSUME NEW e \in Entities, svc'.states[e] # NoValue
        PROVE  svc'.states[e].version = Cardinality(CommitsOf(e)')
    <2>1. CASE e # b
      <3>1. CommitsOf(e)' = CommitsOf(e)
        BY <1>1, <1>3, <2>1 DEF CommitsOf
      <3>2. svc'.states[e] = svc.states[e]
        BY <1>2, <1>3, <2>1
      <3> QED
        BY <1>4, <3>1, <3>2 DEF VersionCountsCommits
    <2>2. CASE e = b
      <3>1. CommitsOf(e)' = CommitsOf(e) \cup {NextId} /\ NextId \notin CommitsOf(e)
        BY <1>1, <1>3, <2>2 DEF CommitsOf
      <3>2. Cardinality(CommitsOf(e)') = Cardinality(CommitsOf(e)) + 1
        BY <3>1, CommitsAreFinite, FS_AddElement
      <3>3. svc'.states[e].version = NextVersion(svc.states[e])
        BY <1>2, <1>3, <2>2
      <3>4. CASE svc.states[e] = NoValue
        <4>1. CommitsOf(e) = {}
          BY <3>4 DEF Inv, HistoryInv, StatesReplayHistory, StatesReplay
        <4> QED
          BY <3>2, <3>3, <3>4, <4>1, FS_EmptySet DEF NextVersion
      <3>5. CASE svc.states[e] # NoValue
        BY <3>2, <3>3, <3>5 DEF NextVersion, VersionCountsCommits
      <3> QED
        BY <3>4, <3>5
    <2> QED
      BY <2>1, <2>2
  <1> QED
    BY <1>4 DEF VersionCountsCommits

LEMMA RestCounts ==
    ASSUME VersionCountsCommits, UNCHANGED svc \/ HistoryRests
    PROVE  VersionCountsCommits'
  <1>1. svc'.states = svc.states /\ svc'.commits = svc.commits
    BY DEF HistoryRests
  <1> QED
    BY <1>1 DEF VersionCountsCommits, CommitsOf

\* The version that a proposal names and an approval compares counts the
\* commits of the order: no commit leaves it alone, and nothing else moves it
\* (service.py:238-274).
THEOREM VersionsCount == Spec => []VersionCountsCommits
  <1>1. Init => VersionCountsCommits
    BY DEF Init, EmptyService, VersionCountsCommits
  <1>2. ASSUME Inv, VersionCountsCommits, [Next]_vars
        PROVE  VersionCountsCommits'
    <2>1. ASSUME NEW o \in Observation, IngestObservation(o)
          PROVE  VersionCountsCommits'
      <3>1. HistoryRests \/ HistoryGrows(o.entity, Cause({o.id}, NoValue), Merged(svc, o))
        BY <1>2, <2>1, IngestStep
      <3>2. o.entity \in Entities
        BY DEF Observation
      <3> QED
        BY <1>2, <3>1, <3>2, GrowthCounts, RestCounts
    <2>2. ASSUME NEW i \in ConflictIds, NEW value \in Values,
                 ResolveConflict(i, value)
          PROVE  VersionCountsCommits'
      <3>1. HistoryRests \/ HistoryGrows(svc.conflicts[i].entity,
                                 CauseOfResolution(svc, i, value),
                                         ResolvedAttributes(svc, i, value))
        BY <1>2, <2>2, ResolveStep
      <3>2. svc.conflicts[i].entity \in Entities
        BY <1>2, <2>2 DEF ResolveConflict, Inv, TypeOK, Memory, Conflict
      <3> QED
        BY <1>2, <3>1, <3>2, GrowthCounts, RestCounts
    <2>3. CASE UNCHANGED vars
      BY <1>2, <2>3, RestCounts DEF vars
    <2> QED
      BY <1>2, <2>1, <2>2, <2>3 DEF Next
  <1> QED
    BY <1>1, <1>2, InvHolds, PTL DEF Spec
=============================================================================
