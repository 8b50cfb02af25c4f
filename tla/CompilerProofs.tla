----------------------------- MODULE CompilerProofs -----------------------------
(***************************************************************************)
(* What the tables of the World State keep, for any number of processes,   *)
(* entities, attributes, values, connectors and observations.              *)
(***************************************************************************)
EXTENDS Compiler, FiniteSetTheorems, SequenceTheorems, WellFoundedInduction, TLAPS

-----------------------------------------------------------------------------
(* The inductive invariant of every deployment.  A memory may be ahead of   *)
(* the tables or behind them, but a state in it is either one that a stored *)
(* commit produced or comes with the commit that did.                       *)

\* A conflict's name tells its attribute and, through the one entity that an
\* observation is about, its entity.
Named(conflicts) ==
    /\ conflicts \in [ConflictIds -> Conflict \cup {NoValue}]
    /\ \A i \in ConflictIds : conflicts[i] # NoValue =>
          /\ conflicts[i].attribute = i[2]
          /\ \E o \in Offered : o.id = i[1] /\ o.entity = conflicts[i].entity

\* The index names conflicts that are there, under their own key.
Indexed(open, conflicts) ==
    /\ open \in [Entities \X Attributes -> ConflictIds \cup {NoValue}]
    /\ \A k \in Entities \X Attributes : open[k] # NoValue =>
          /\ conflicts[open[k]] # NoValue
          /\ k = <<conflicts[open[k]].entity, conflicts[open[k]].attribute>>

\* The index names open conflicts only.
Pending(w) ==
    \A k \in Entities \X Attributes :
        w.open[k] # NoValue => w.conflicts[w.open[k]].status = "open"

IsMemory(v) ==
    v \in [seen : {v.seen}, states : {v.states}, commits : {v.commits},
           latest : {v.latest}, conflicts : {v.conflicts}, open : {v.open}]

Typed(w) ==
    /\ IsMemory(w)
    /\ w.seen \subseteq ObservationIds
    /\ w.states \in [Entities -> EntityState \cup {NoValue}]
    /\ w.commits = [c \in DOMAIN w.commits |-> w.commits[c]]
    /\ DOMAIN w.commits \subseteq 1..MaxCommits
    /\ \A c \in DOMAIN w.commits : w.commits[c] \in Commit
    /\ w.latest \in CommitIds \cup {NoValue}
    /\ Named(w.conflicts)
    /\ Indexed(w.open, w.conflicts)

\* A state is a stored commit's, or the commit that made it is at hand.
Backed(w) ==
    \A e \in Entities : w.states[e] # NoValue =>
        \/ w.states[e].commit \in StoredIds
        \/ /\ w.states[e].commit \in DOMAIN w.commits
           /\ w.commits[w.states[e].commit].entity = e
           /\ w.commits[w.states[e].commit].after = ValuesOf(w.states[e].attributes)

TxBacked(t) ==
    /\ t.kind = "none" => t = NoTx
    /\ Named(t.conflicts)
    /\ t.state # NoValue <=> t.commit # NoValue
    /\ t.commit # NoValue =>
          /\ t.commit.id \in 1..MaxCommits \ StoredIds
          /\ t.commit.id = t.state.commit
          /\ t.commit.record.after = ValuesOf(t.state.attributes)

\* The commits of a process, in memory or about to be stored.
IdsOf(w, t) ==
    DOMAIN w.commits \cup IF t.commit = NoValue THEN {} ELSE {t.commit.id}

TablesTyped ==
    /\ observation_log \subseteq ObservationIds
    /\ state_projection \in [Entities -> EntityState \cup {NoValue}]
    /\ commit_log \in Seq(Row)
    /\ Named(conflict_table)
    /\ StoredIds \subseteq 1..MaxCommits
    /\ IsFiniteSet(StoredIds) /\ Cardinality(StoredIds) = Len(commit_log)

Inv ==
    /\ TablesTyped /\ ProjectionIsBackedByLog
    /\ mem = [p \in Processes |-> mem[p]] /\ tx \in [Processes -> Transaction]
    /\ \A p \in Processes :
          Typed(mem[p]) /\ Backed(mem[p]) /\ TxBacked(tx[p])
    /\ \A p, q \in Processes : p # q =>
          IdsOf(mem[p], tx[p]) \cap IdsOf(mem[q], tx[q]) \subseteq StoredIds

-----------------------------------------------------------------------------
(* Ids.                                                                    *)

LEMMA LeastNatural ==
    ASSUME NEW S \in SUBSET Nat, S # {}
    PROVE  \E m \in S : \A n \in S : m <= n
  <1>1. IsWellFoundedOn(OpToRel(<, Nat), Nat)
    BY NatLessThanWellFounded, Zenon
  <1>2. \E m \in S : \A n \in S : ~(<<n, m>> \in OpToRel(<, Nat))
    BY <1>1, WFMin, Zenon
  <1>3. ASSUME NEW m \in S, NEW n \in S, ~(<<n, m>> \in OpToRel(<, Nat))
        PROVE  m <= n
    BY <1>3 DEF OpToRel
  <1> QED
    BY <1>2, <1>3, Zenon

\* uuid4 gives an id that nobody has.
LEMMA FreshFacts ==
    ASSUME UsedIds \subseteq 1..MaxCommits, UsedIds # 1..MaxCommits
    PROVE  FreshId \in 1..MaxCommits /\ FreshId \notin UsedIds
  <1> DEFINE S == 1..MaxCommits \ UsedIds
  <1>1. 1..MaxCommits \subseteq Nat
    BY CompilerAssumption
  <1>2. S \in SUBSET Nat /\ S # {}
    BY <1>1
  <1>3. \E c \in S : \A d \in S : c <= d
    BY <1>2, LeastNatural
  <1>4. FreshId \in S
    BY <1>3 DEF FreshId
  <1> QED
    BY <1>4

-----------------------------------------------------------------------------
(* What the rules do to a memory.                                          *)

\* The maps the rules compute are typed.
LEMMA MapTypes ==
    ASSUME NEW w, Typed(w), NEW e \in Entities
    PROVE  /\ PreviousAttributes(w, e) \in AttributeMap
           /\ \A m \in AttributeMap : ValuesOf(m) \in ValueMap
           /\ \A o \in Observation : o.entity = e => Merged(w, o) \in AttributeMap
  <1>1. PreviousAttributes(w, e) \in AttributeMap
    BY DEF PreviousAttributes, NoAttributes, AttributeMap, Typed, EntityState
  <1>2. \A o \in Observation, n \in Attributes :
            o.payload[n] # NoValue => Incoming(o, n) \in Attribute
    BY DEF Incoming, Attribute, Observation, ValueMap
  <1>3. \A m \in AttributeMap : ValuesOf(m) \in ValueMap
    BY DEF AttributeMap, ValuesOf, ValueMap, Attribute
  <1> QED
    BY <1>1, <1>2, <1>3 DEF Merged, AttributeMap

StatesAfter(w, c, e, attributes) ==
    [w.states EXCEPT ![e] = [version |-> NextVersion(w.states[e]),
                             attributes |-> attributes, commit |-> c]]

\* What a commit is made for.
Causes == [observations : SUBSET ObservationIds,
           resolves : ConflictIds \cup {NoValue}]

CommitsAfter(w, c, e, cause, attributes) ==
    [i \in DOMAIN w.commits \cup {c} |->
        IF i = c THEN NewCommit(w, e, cause, attributes)
        ELSE w.commits[i]]

\* _create_commit and the state it produces.
LEMMA CommitFields ==
    ASSUME NEW w, IsMemory(w), NEW c, NEW e, NEW cause, NEW attributes,
           NEW v, v = WithCommit(w, c, e, cause, attributes)
    PROVE  /\ v.seen = w.seen
           /\ v.states = StatesAfter(w, c, e, attributes)
           /\ v.commits = CommitsAfter(w, c, e, cause, attributes)
           /\ v.latest = c /\ v.conflicts = w.conflicts /\ v.open = w.open
           /\ IsMemory(v)
  <1> DEFINE x == CommitsAfter(w, c, e, cause, attributes)
             y == StatesAfter(w, c, e, attributes)
  <1>1. v = [w EXCEPT !.commits = x, !.latest = c, !.states = y]
    BY DEF WithCommit, CommitsAfter, StatesAfter
  <1> HIDE DEF x, y
  <1>2. v.seen = w.seen /\ v.states = y /\ v.commits = x /\ v.latest = c
        /\ v.conflicts = w.conflicts /\ v.open = w.open /\ IsMemory(v)
    BY <1>1 DEF IsMemory
  <1> QED
    BY <1>2 DEF x, y

\* A commit under a fresh id backs the state that it produces, and leaves the
\* other states backed.
LEMMA CommitKeeps ==
    ASSUME NEW w, Typed(w), Backed(w),
           NEW c \in 1..MaxCommits, c \notin DOMAIN w.commits, c \notin StoredIds,
           NEW e \in Entities, NEW x \in Causes,
           NEW m \in AttributeMap, NEW v, v = WithCommit(w, c, e, x, m)
    PROVE  /\ Typed(v) /\ Backed(v) /\ v.states[e] # NoValue
           /\ v.seen = w.seen /\ v.conflicts = w.conflicts /\ v.open = w.open
           /\ v.latest = c
           /\ v.states[e].commit = c /\ v.states[e].attributes = m
           /\ v.states[e].version = NextVersion(w.states[e])
           /\ \A f \in Entities : f # e => v.states[f] = w.states[f]
           /\ DOMAIN v.commits = DOMAIN w.commits \cup {c}
           /\ v.commits[c].observations = x.observations
           /\ v.commits[c].before = ValuesOf(PreviousAttributes(w, e))
           /\ \A d \in DOMAIN w.commits : v.commits[d] = w.commits[d]
  <1> DEFINE state == [version |-> NextVersion(w.states[e]),
                       attributes |-> m, commit |-> c]
             commit == NewCommit(w, e, x, m)
  <1>1. /\ v.seen = w.seen
        /\ v.states = [w.states EXCEPT ![e] = state]
        /\ v.commits = [i \in DOMAIN w.commits \cup {c} |->
               IF i = c THEN commit ELSE w.commits[i]]
        /\ v.latest = c /\ v.conflicts = w.conflicts /\ v.open = w.open
        /\ IsMemory(v)
    <2>1. IsMemory(w)
      BY DEF Typed
    <2>2. /\ v.seen = w.seen
          /\ v.states = StatesAfter(w, c, e, m)
          /\ v.commits = CommitsAfter(w, c, e, x, m)
          /\ v.latest = c /\ v.conflicts = w.conflicts /\ v.open = w.open
          /\ IsMemory(v)
      BY <2>1, CommitFields
    <2> QED
      BY <2>2 DEF StatesAfter, CommitsAfter
  <1>2. c \in CommitIds
    BY CompilerAssumption DEF CommitIds
  <1>3. /\ state \in EntityState /\ state.commit = c /\ state.attributes = m
        /\ state.version = NextVersion(w.states[e])
    <2>1. NextVersion(w.states[e]) \in Nat \ {0}
      BY DEF Typed, NextVersion, EntityState
    <2> QED
      BY <1>2, <2>1 DEF EntityState
  <1>4. /\ commit \in Commit /\ commit.entity = e /\ commit.after = ValuesOf(m)
        /\ commit.observations = x.observations
        /\ commit.before = ValuesOf(PreviousAttributes(w, e))
    <2>1. /\ ValuesOf(PreviousAttributes(w, e)) \in ValueMap
          /\ ValuesOf(m) \in ValueMap
      BY MapTypes
    <2> QED
      BY <2>1 DEF NewCommit, ParentOf, Commit, Causes, Typed
  <1> HIDE DEF state, commit
  <1>5. /\ v.states[e] = state /\ state # NoValue
        /\ \A f \in Entities : f # e => v.states[f] = w.states[f]
        /\ v.states \in [Entities -> EntityState \cup {NoValue}]
    BY <1>1, <1>3, NoValueAssumption DEF Typed
  <1>6. /\ DOMAIN v.commits = DOMAIN w.commits \cup {c}
        /\ v.commits[c] = commit
        /\ \A d \in DOMAIN w.commits : v.commits[d] = w.commits[d]
        /\ v.commits = [d \in DOMAIN v.commits |-> v.commits[d]]
    BY <1>1
  <1>7. Typed(v)
    BY <1>1, <1>2, <1>4, <1>5, <1>6 DEF Typed
  <1>8. Backed(v)
    <2>1. ASSUME NEW f \in Entities, f # e, w.states[f] # NoValue
          PROVE  \/ v.states[f].commit \in StoredIds
                 \/ /\ v.states[f].commit \in DOMAIN v.commits
                    /\ v.commits[v.states[f].commit].entity = f
                    /\ v.commits[v.states[f].commit].after =
                           ValuesOf(v.states[f].attributes)
      BY <1>5, <1>6, <2>1 DEF Backed
    <2>2. /\ v.states[e].commit \in DOMAIN v.commits
          /\ v.commits[v.states[e].commit].entity = e
          /\ v.commits[v.states[e].commit].after = ValuesOf(v.states[e].attributes)
      BY <1>3, <1>4, <1>5, <1>6
    <2> QED
      BY <1>5, <2>1, <2>2 DEF Backed
  <1> QED
    BY <1>1, <1>3, <1>4, <1>5, <1>6, <1>7, <1>8

SeenAfter(w, o) == w.seen \cup {o.id}

Noted(w, o) == [WithConflicts(w, o) EXCEPT !.seen = w.seen \cup {o.id}]

\* _record_conflict and the note that the observation was seen.
LEMMA NotedFields ==
    ASSUME NEW w, IsMemory(w), NEW o, NEW v, v = Noted(w, o)
    PROVE  /\ v.seen = SeenAfter(w, o) /\ v.states = w.states
           /\ v.commits = w.commits /\ v.latest = w.latest
           /\ v.conflicts = ConflictsAfter(w, o) /\ v.open = OpenAfter(w, o)
           /\ IsMemory(v)
  <1> DEFINE y == OpenAfter(w, o)
             z == ConflictsAfter(w, o)
             u == [w EXCEPT !.open = y, !.conflicts = z]
             x == SeenAfter(w, o)
  <1>1. v = [u EXCEPT !.seen = x]
    BY DEF Noted, WithConflicts, SeenAfter
  <1> HIDE DEF x, y, z
  <1>2. u.states = w.states /\ u.commits = w.commits /\ u.latest = w.latest
        /\ u.open = y /\ u.conflicts = z /\ IsMemory(u)
    BY DEF IsMemory
  <1> HIDE DEF u
  <1>3. v.seen = x /\ v.states = u.states /\ v.commits = u.commits
        /\ v.latest = u.latest /\ v.conflicts = u.conflicts /\ v.open = u.open
        /\ IsMemory(v)
    BY <1>1, <1>2 DEF IsMemory
  <1> QED
    BY <1>2, <1>3 DEF x, y, z

\* A disputed attribute has a value, and both sides can be told.
LEMMA DisputeFacts ==
    ASSUME NEW w, Typed(w), NEW o \in Observation, NEW n \in Disputed(w, o)
    PROVE  /\ n \in Attributes
           /\ CandidateOf(PreviousAttributes(w, o.entity)[n]) \in Candidate
           /\ CandidateOf(Incoming(o, n)) \in Candidate
  <1> DEFINE existing == PreviousAttributes(w, o.entity)[n]
             rival == Incoming(o, n)
  <1>1. PreviousAttributes(w, o.entity) \in AttributeMap
    BY MapTypes DEF Observation
  <1>2. n \in Attributes /\ o.payload[n] # NoValue /\ Disagree(existing, rival)
    BY DEF Disputed
  <1>3. existing \in Attribute /\ existing.connector # NoValue
    BY <1>1, <1>2 DEF AttributeMap, Disagree
  <1>4. rival \in Attribute /\ rival.connector \in Connectors
    BY <1>2 DEF Incoming, Attribute, Observation, ValueMap
  <1> HIDE DEF existing, rival
  <1>5. CandidateOf(existing) \in Candidate /\ CandidateOf(rival) \in Candidate
    BY <1>3, <1>4 DEF CandidateOf, Candidate, Attribute
  <1> QED
    BY <1>2, <1>5 DEF existing, rival

\* The candidates of a conflict are one or more, and only grow.
LEMMA CandidateLists ==
    ASSUME NEW list \in Seq(Candidate) \ {<<>>}, NEW x \in Candidate, NEW y \in Candidate
    PROVE  Append(list, x) \in Seq(Candidate) \ {<<>>}
           /\ <<x, y>> \in Seq(Candidate) \ {<<>>}
  <1>1. Append(list, x) \in Seq(Candidate) /\ Len(Append(list, x)) = Len(list) + 1
        /\ Len(list) \in Nat
    OBVIOUS
  <1>2. <<x, y>> \in Seq(Candidate) /\ Len(<<x, y>>) = 2
    OBVIOUS
  <1>3. Len(<<>>) = 0
    OBVIOUS
  <1> QED
    BY <1>1, <1>2, <1>3

\* A set of natural numbers with an upper bound has a greatest one.
LEMMA GreatestNatural ==
    ASSUME NEW n \in Nat, NEW S \in SUBSET (1..n), S # {}
    PROVE  \E k \in S : \A j \in S : j <= k
  <1> DEFINE Below == {m \in Nat : n - m \in S}
  <1>1. Below # {}
    <2>1. PICK k \in S : TRUE
      OBVIOUS
    <2>2. k \in 1..n /\ n - k \in Nat /\ n - (n - k) = k
      OBVIOUS
    <2> QED
      BY <2>1, <2>2
  <1>2. IsWellFoundedOn(OpToRel(<, Nat), Nat)
    BY NatLessThanWellFounded, Zenon
  <1>3. Below \subseteq Nat
    OBVIOUS
  <1> HIDE DEF Below
  <1>4. PICK m \in Below : \A l \in Below : ~(<<l, m>> \in OpToRel(<, Nat))
    BY <1>1, <1>2, <1>3, WFMin, Zenon
  <1>5. ASSUME NEW l \in Below PROVE m <= l
    <2>1. ~(<<l, m>> \in OpToRel(<, Nat)) /\ l \in Nat /\ m \in Nat
      BY <1>3, <1>4
    <2> QED
      BY <2>1 DEF OpToRel
  <1>6. m \in Nat /\ n - m \in S
    BY DEF Below
  <1>7. ASSUME NEW j \in S PROVE j <= n - m
    <2>1. j \in 1..n /\ n - j \in Nat /\ n - (n - j) = j
      OBVIOUS
    <2>2. n - j \in Below
      BY <2>1 DEF Below
    <2> QED
      BY <1>5, <1>6, <2>1, <2>2
  <1> QED
    BY <1>6, <1>7

\* A resolution names observations of its conflict: one at least, and the last
\* of them is the source of the value it sets.
LEMMA SourceTypes ==
    ASSUME NEW conflict \in Conflict, NEW value
    PROVE  /\ SourceIds(conflict, value) \subseteq ObservationIds
           /\ SourceIds(conflict, value) # {}
           /\ LastSourceId(conflict, value) \in SourceIds(conflict, value)
  <1> DEFINE list == conflict.candidates
             up == Upholding(conflict, value)
             last == CHOOSE k \in up : \A j \in up : j <= k
  <1>1. /\ list \in Seq(Candidate) /\ Len(list) \in Nat /\ DOMAIN list = 1..Len(list)
        /\ list # <<>>
    BY DEF Conflict
  <1>2. DOMAIN list # {}
    <2> HIDE DEF list
    <2>1. Len(list) # 0
      BY <1>1, EmptySeq
    <2>2. 1 \in 1..Len(list)
      BY <1>1, <2>1
    <2> QED
      BY <1>1, <2>2
  <1>3. up \subseteq 1..Len(list) /\ up # {}
    BY <1>1, <1>2 DEF Upholding, Matching
  <1> HIDE DEF up
  <1>4. \E k \in up : \A j \in up : j <= k
    BY <1>1, <1>3, GreatestNatural
  <1>5. last \in up
    BY <1>4
  <1>6. \A k \in up : list[k] \in Candidate
    BY <1>1, <1>3
  <1>7. SourceIds(conflict, value) = {list[k].observation : k \in up}
    BY DEF SourceIds, up
  <1>8. LastSourceId(conflict, value) = list[last].observation
    BY DEF LastSourceId, up
  <1> HIDE DEF last, list
  <1> QED
    BY <1>3, <1>5, <1>6, <1>7, <1>8 DEF Candidate

\* Disputes keep the names of conflicts and the index of the open ones.
LEMMA DisputesAreNamed ==
    ASSUME NEW w, Typed(w), NEW o \in Offered,
           NEW conflicts, conflicts = ConflictsAfter(w, o),
           NEW open, open = OpenAfter(w, o)
    PROVE  /\ Named(conflicts) /\ Indexed(open, conflicts)
           /\ \A i \in ConflictIds : w.conflicts[i] # NoValue => conflicts[i] # NoValue
  <1>0. o \in Observation /\ o.entity \in Entities /\ o.id \in ObservationIds
    BY CompilerAssumption DEF Observation
  <1>1. /\ Named(w.conflicts) /\ Indexed(w.open, w.conflicts)
        /\ w.conflicts \in [ConflictIds -> Conflict \cup {NoValue}]
        /\ w.open \in [Entities \X Attributes -> ConflictIds \cup {NoValue}]
    BY DEF Typed, Named, Indexed
  <1>2. \A n \in Disputed(w, o) :
           n \in Attributes /\ CandidateOf(Incoming(o, n)) \in Candidate
    BY <1>0, DisputeFacts
  <1>3. ASSUME NEW i \in ConflictIds, NEW n \in Disputed(w, o),
               w.open[<<o.entity, n>>] = i
        PROVE  /\ conflicts[i] \in Conflict /\ w.conflicts[i] # NoValue
               /\ conflicts[i].entity = w.conflicts[i].entity
               /\ conflicts[i].attribute = w.conflicts[i].attribute
    <2>1. <<o.entity, n>> \in Entities \X Attributes /\ i # NoValue
      BY <1>0, <1>2, NoValueAssumption
    <2>2. /\ w.conflicts[i] # NoValue /\ w.conflicts[i] \in Conflict
          /\ w.conflicts[i].attribute = n
      BY <1>1, <1>3, <2>1 DEF Indexed
    <2>3. PICK list : /\ list \in {w.conflicts[i].candidates,
                                   Append(w.conflicts[i].candidates,
                                          CandidateOf(Incoming(o, n)))}
                      /\ conflicts[i] = [w.conflicts[i] EXCEPT !.candidates = list]
      BY <1>3, <2>2 DEF ConflictsAfter, JoinedConflict
    <2>4. w.conflicts[i].candidates \in Seq(Candidate) \ {<<>>}
      BY <2>2 DEF Conflict
    <2>5. list \in Seq(Candidate) \ {<<>>}
      BY <1>2, <2>3, <2>4, CandidateLists
    <2> QED
      BY <2>2, <2>3, <2>5 DEF Conflict
  <1>4. ASSUME NEW n \in NewlyDisputed(w, o)
        PROVE  /\ NewConflict(w, o, n) \in Conflict
               /\ NewConflict(w, o, n).entity = o.entity
               /\ NewConflict(w, o, n).attribute = n
    <2> DEFINE list == <<CandidateOf(PreviousAttributes(w, o.entity)[n]),
                         CandidateOf(Incoming(o, n))>>
    <2>1. /\ n \in Attributes
          /\ CandidateOf(PreviousAttributes(w, o.entity)[n]) \in Candidate
          /\ CandidateOf(Incoming(o, n)) \in Candidate
      BY <1>0, DisputeFacts DEF NewlyDisputed
    <2>2. list \in Seq(Candidate) \ {<<>>}
      BY <2>1, CandidateLists
    <2>3. NewConflict(w, o, n) =
              [entity |-> o.entity, attribute |-> n, candidates |-> list,
               status |-> "open", resolved_value |-> NoValue]
      BY DEF NewConflict
    <2> HIDE DEF list
    <2> QED
      BY <1>0, <2>1, <2>2, <2>3 DEF Conflict
  <1>5. ASSUME NEW i \in ConflictIds
        PROVE  \/ \E n \in Disputed(w, o) : w.open[<<o.entity, n>>] = i
               \/ /\ i[1] = o.id /\ i[2] \in NewlyDisputed(w, o)
                  /\ conflicts[i] = NewConflict(w, o, i[2])
               \/ conflicts[i] = w.conflicts[i]
    BY DEF ConflictsAfter
  <1>6. \A i \in ConflictIds : conflicts[i] \in Conflict \cup {NoValue}
    BY <1>1, <1>3, <1>4, <1>5
  <1>7. conflicts \in [ConflictIds -> Conflict \cup {NoValue}]
    <2>1. conflicts = [i \in ConflictIds |-> conflicts[i]]
      BY DEF ConflictsAfter
    <2> QED
      BY <1>6, <2>1
  <1>8. ASSUME NEW i \in ConflictIds, w.conflicts[i] # NoValue
        PROVE  /\ conflicts[i] # NoValue
               /\ conflicts[i].entity = w.conflicts[i].entity
               /\ conflicts[i].attribute = w.conflicts[i].attribute
    <2>1. CASE \E n \in Disputed(w, o) : w.open[<<o.entity, n>>] = i
      BY <1>3, <2>1, NoValueAssumption
    <2>2. CASE /\ i[1] = o.id /\ i[2] \in NewlyDisputed(w, o)
               /\ conflicts[i] = NewConflict(w, o, i[2])
      <3>1. PICK u \in Offered : u.id = i[1] /\ u.entity = w.conflicts[i].entity
        BY <1>1, <1>8 DEF Named
      <3>2. w.conflicts[i].attribute = i[2] /\ u.entity = o.entity
        BY <1>1, <1>8, <2>2, <3>1, CompilerAssumption DEF Named
      <3> QED
        BY <1>4, <2>2, <3>1, <3>2, NoValueAssumption
    <2>3. CASE conflicts[i] = w.conflicts[i]
      BY <1>8, <2>3
    <2> QED
      BY <1>5, <2>1, <2>2, <2>3
  <1>9. Named(conflicts)
    <2>1. ASSUME NEW i \in ConflictIds, conflicts[i] # NoValue
          PROVE  /\ conflicts[i].attribute = i[2]
                 /\ \E u \in Offered : u.id = i[1] /\ u.entity = conflicts[i].entity
      <3>1. CASE w.conflicts[i] # NoValue
        BY <1>1, <1>8, <3>1 DEF Named
      <3>2. CASE w.conflicts[i] = NoValue
        <4>1. /\ i[1] = o.id /\ i[2] \in NewlyDisputed(w, o)
              /\ conflicts[i] = NewConflict(w, o, i[2])
          BY <1>3, <1>5, <2>1, <3>2
        <4> QED
          BY <1>4, <4>1
      <3> QED
        BY <3>1, <3>2
    <2> QED
      BY <1>7, <2>1 DEF Named
  <1>10. open \in [Entities \X Attributes -> ConflictIds \cup {NoValue}]
    BY <1>0, <1>1, <1>2 DEF OpenAfter, ConflictIds, NewlyDisputed
  <1>11. ASSUME NEW k \in Entities \X Attributes, open[k] # NoValue
         PROVE  /\ conflicts[open[k]] # NoValue
                /\ k = <<conflicts[open[k]].entity, conflicts[open[k]].attribute>>
    <2>1. CASE k[1] = o.entity /\ k[2] \in NewlyDisputed(w, o)
      <3>1. open[k] = <<o.id, k[2]>> /\ w.open[k] = NoValue
        BY <2>1 DEF OpenAfter, NewlyDisputed
      <3>2. PICK i \in ConflictIds : i = <<o.id, k[2]>>
        BY <1>0 DEF ConflictIds
      <3>3. conflicts[i] = NewConflict(w, o, k[2])
        <4>1. ASSUME NEW n \in Disputed(w, o), w.open[<<o.entity, n>>] = i
              PROVE  FALSE
          <5>1. <<o.entity, n>> \in Entities \X Attributes /\ i # NoValue
            BY <1>0, <1>2, NoValueAssumption
          <5>2. w.conflicts[i] # NoValue /\ w.conflicts[i].attribute = n
            BY <1>1, <4>1, <5>1 DEF Indexed
          <5>3. n = k[2]
            BY <1>1, <3>2, <5>2 DEF Named
          <5> QED
            BY <2>1, <3>1, <4>1, <5>1, <5>3
        <4> QED
          BY <2>1, <3>2, <4>1 DEF ConflictsAfter
      <3> QED
        BY <1>4, <2>1, <3>1, <3>2, <3>3, NoValueAssumption
    <2>2. CASE ~(k[1] = o.entity /\ k[2] \in NewlyDisputed(w, o))
      <3>1. open[k] = w.open[k] /\ w.open[k] # NoValue /\ w.open[k] \in ConflictIds
        BY <1>1, <1>11, <2>2 DEF OpenAfter
      <3>2. /\ w.conflicts[w.open[k]] # NoValue
            /\ k = <<w.conflicts[w.open[k]].entity, w.conflicts[w.open[k]].attribute>>
        BY <1>1, <3>1 DEF Indexed
      <3> QED
        BY <1>8, <3>1, <3>2
    <2> QED
      BY <2>1, <2>2
  <1>12. Indexed(open, conflicts)
    BY <1>10, <1>11 DEF Indexed
  <1> QED
    BY <1>8, <1>9, <1>12

\* An observation that is noted, with its disputes.
LEMMA NotedKeeps ==
    ASSUME NEW w, Typed(w), Backed(w), NEW o \in Offered,
           NEW v, v = Noted(w, o)
    PROVE  /\ Typed(v) /\ Backed(v)
           /\ v.seen = w.seen \cup {o.id} /\ v.states = w.states
           /\ v.commits = w.commits /\ v.latest = w.latest
           /\ v.conflicts = ConflictsAfter(w, o) /\ v.open = OpenAfter(w, o)
           /\ \A i \in ConflictIds : w.conflicts[i] # NoValue => v.conflicts[i] # NoValue
  <1>1. /\ v.seen = w.seen \cup {o.id} /\ v.states = w.states
        /\ v.commits = w.commits /\ v.latest = w.latest
        /\ v.conflicts = ConflictsAfter(w, o) /\ v.open = OpenAfter(w, o)
        /\ IsMemory(v)
    <2>1. IsMemory(w)
      BY DEF Typed
    <2>2. /\ v.seen = SeenAfter(w, o) /\ v.states = w.states
          /\ v.commits = w.commits /\ v.latest = w.latest
          /\ v.conflicts = ConflictsAfter(w, o) /\ v.open = OpenAfter(w, o)
          /\ IsMemory(v)
      BY <2>1, NotedFields
    <2> QED
      BY <2>2 DEF SeenAfter
  <1>2. /\ Named(v.conflicts) /\ Indexed(v.open, v.conflicts)
        /\ \A i \in ConflictIds : w.conflicts[i] # NoValue => v.conflicts[i] # NoValue
    BY <1>1, DisputesAreNamed
  <1>3. o.id \in ObservationIds
    BY CompilerAssumption DEF Observation
  <1>4. Typed(v)
    BY <1>1, <1>2, <1>3 DEF Typed
  <1>5. Backed(v)
    BY <1>1 DEF Backed
  <1> QED
    BY <1>1, <1>2, <1>4, <1>5

\* ingest leaves a memory alone that knows the id, and otherwise notes the
\* observation and commits what is news.
LEMMA IngestKeeps ==
    ASSUME NEW w, Typed(w), Backed(w), NEW o \in Offered, ~Raises(w, o),
           NEW c \in 1..MaxCommits, c \notin DOMAIN w.commits, c \notin StoredIds,
           NEW v, v = Ingest(w, o, c)
    PROVE  /\ Typed(v) /\ Backed(v) /\ v.states[o.entity] # NoValue
           /\ v.seen = w.seen \cup {o.id}
           /\ \A i \in ConflictIds : w.conflicts[i] # NoValue => v.conflicts[i] # NoValue
           /\ \/ v.conflicts = w.conflicts /\ o.id \in w.seen
              \/ v.conflicts = ConflictsAfter(w, o) /\ o.id \notin w.seen
           /\ \A f \in Entities : f # o.entity => v.states[f] = w.states[f]
           /\ \/ /\ v.states = w.states /\ v.commits = w.commits
                 /\ v.latest = w.latest
              \/ /\ v.latest = c /\ v.states[o.entity].commit = c
                 /\ v.states[o.entity].attributes = Merged(w, o)
                 /\ o.id \notin w.seen
                 /\ DOMAIN v.commits = DOMAIN w.commits \cup {c}
                 /\ v.commits[c].observations = {o.id}
                 /\ v.commits[c].before = ValuesOf(PreviousAttributes(w, o.entity))
                 /\ \A d \in DOMAIN w.commits : v.commits[d] = w.commits[d]
  <1>0. o \in Observation /\ o.entity \in Entities /\ o.id \in ObservationIds
    BY CompilerAssumption DEF Observation
  <1>1. CASE o.id \in w.seen
    <2>1. v = w
      BY <1>1 DEF Ingest
    <2>2. w.states[o.entity] # NoValue
      BY <1>1 DEF Raises
    <2> QED
      BY <1>1, <2>1, <2>2
  <1>2. CASE o.id \notin w.seen
    <2> DEFINE noted == Noted(w, o)
               m == Merged(w, o)
               cause == Cause({o.id}, NoValue)
    <2>1. /\ Typed(noted) /\ Backed(noted)
          /\ noted.seen = w.seen \cup {o.id} /\ noted.states = w.states
          /\ noted.commits = w.commits /\ noted.latest = w.latest
          /\ noted.conflicts = ConflictsAfter(w, o)
          /\ \A i \in ConflictIds :
                w.conflicts[i] # NoValue => noted.conflicts[i] # NoValue
      BY NotedKeeps
    <2>2. m \in AttributeMap
      BY <1>0, MapTypes
    <2>3. v = IF IsNews(w, o) THEN WithCommit(noted, c, o.entity, cause, m) ELSE noted
      BY <1>2 DEF Ingest, Compile, Noted
    <2>c. cause \in Causes /\ cause.observations = {o.id}
      BY <1>0 DEF Cause, Causes
    <2> HIDE DEF noted, m, cause
    <2>4. CASE ~IsNews(w, o)
      <3>1. v = noted /\ w.states[o.entity] # NoValue
        BY <2>3, <2>4 DEF IsNews
      <3> QED
        BY <1>2, <2>1, <3>1
    <2>5. CASE IsNews(w, o)
      <3>1. v = WithCommit(noted, c, o.entity, cause, m)
        BY <2>3, <2>5
      <3>2. /\ Typed(v) /\ Backed(v) /\ v.states[o.entity] # NoValue
            /\ v.seen = noted.seen /\ v.conflicts = noted.conflicts
            /\ v.open = noted.open
            /\ v.latest = c
            /\ v.states[o.entity].commit = c /\ v.states[o.entity].attributes = m
            /\ v.states[o.entity].version = NextVersion(noted.states[o.entity])
            /\ \A f \in Entities : f # o.entity => v.states[f] = noted.states[f]
            /\ DOMAIN v.commits = DOMAIN noted.commits \cup {c}
            /\ v.commits[c].observations = {o.id}
            /\ v.commits[c].before = ValuesOf(PreviousAttributes(noted, o.entity))
            /\ \A d \in DOMAIN noted.commits : v.commits[d] = noted.commits[d]
        BY <1>0, <2>1, <2>2, <2>c, <3>1, CommitKeeps
      <3>3. PreviousAttributes(noted, o.entity) = PreviousAttributes(w, o.entity)
        BY <2>1 DEF PreviousAttributes
      <3> QED
        BY <1>2, <2>1, <3>2, <3>3 DEF m
    <2> QED
      BY <2>4, <2>5
  <1> QED
    BY <1>1, <1>2

ConflictsDecided(w, i, value) ==
    [w.conflicts EXCEPT ![i] =
        [@ EXCEPT !.status = "resolved", !.resolved_value = value]]

OpenDecided(w, i) == [w.open EXCEPT ![KeyOfConflict(w, i)] = NoValue]

\* The decision on a conflict.
LEMMA DecidedFields ==
    ASSUME NEW w, IsMemory(w), NEW i, NEW value,
           NEW v, v = Decided(w, i, value)
    PROVE  /\ v.seen = w.seen /\ v.states = w.states
           /\ v.commits = w.commits /\ v.latest = w.latest
           /\ v.conflicts = ConflictsDecided(w, i, value)
           /\ v.open = OpenDecided(w, i)
           /\ IsMemory(v)
  <1> DEFINE x == ConflictsDecided(w, i, value)
             y == OpenDecided(w, i)
  <1>1. v = [w EXCEPT !.conflicts = x, !.open = y]
    BY DEF Decided, IsMemory, ConflictsDecided, OpenDecided
  <1> HIDE DEF x, y
  <1>2. v.seen = w.seen /\ v.states = w.states /\ v.commits = w.commits
        /\ v.latest = w.latest /\ v.conflicts = x /\ v.open = y /\ IsMemory(v)
    BY <1>1 DEF IsMemory
  <1> QED
    BY <1>2 DEF x, y

LEMMA DecisionKeeps ==
    ASSUME NEW w, Typed(w), Backed(w), NEW i \in ConflictIds,
           w.conflicts[i] # NoValue, NEW value \in Values,
           NEW v, v = Decided(w, i, value)
    PROVE  /\ Typed(v) /\ Backed(v)
           /\ v.seen = w.seen /\ v.states = w.states
           /\ v.commits = w.commits /\ v.latest = w.latest
           /\ v.conflicts[i] \in Conflict /\ v.conflicts[i].status = "resolved"
           /\ v.conflicts[i].entity = w.conflicts[i].entity
           /\ v.conflicts[i].candidates = w.conflicts[i].candidates
           /\ \A j \in ConflictIds : j # i => v.conflicts[j] = w.conflicts[j]
           /\ Pending(w) => Pending(v)
  <1> DEFINE decided == [w.conflicts[i] EXCEPT !.status = "resolved",
                                               !.resolved_value = value]
             k == KeyOfConflict(w, i)
  <1>1. /\ v.seen = w.seen /\ v.states = w.states
        /\ v.commits = w.commits /\ v.latest = w.latest
        /\ v.conflicts = [w.conflicts EXCEPT ![i] =
               [@ EXCEPT !.status = "resolved", !.resolved_value = value]]
        /\ v.open = [w.open EXCEPT ![k] = NoValue]
        /\ IsMemory(v)
    <2>1. IsMemory(w)
      BY DEF Typed
    <2>2. /\ v.seen = w.seen /\ v.states = w.states
          /\ v.commits = w.commits /\ v.latest = w.latest
          /\ v.conflicts = ConflictsDecided(w, i, value)
          /\ v.open = OpenDecided(w, i)
          /\ IsMemory(v)
      BY <2>1, DecidedFields
    <2> QED
      BY <2>2 DEF ConflictsDecided, OpenDecided
  <1>2. /\ Named(w.conflicts) /\ Indexed(w.open, w.conflicts)
        /\ w.conflicts \in [ConflictIds -> Conflict \cup {NoValue}]
        /\ w.open \in [Entities \X Attributes -> ConflictIds \cup {NoValue}]
    BY DEF Typed, Named, Indexed
  <1>3. /\ decided \in Conflict /\ decided.status = "resolved"
        /\ decided.entity = w.conflicts[i].entity
        /\ decided.attribute = w.conflicts[i].attribute
        /\ decided.candidates = w.conflicts[i].candidates
    <2>1. w.conflicts[i] \in Conflict
      BY <1>2
    <2> QED
      BY <2>1 DEF Conflict
  <1>4. v.conflicts = [w.conflicts EXCEPT ![i] = decided]
    BY <1>1, <1>2
  <1> HIDE DEF decided, k
  <1>5. /\ v.conflicts[i] = decided /\ decided # NoValue
        /\ \A j \in ConflictIds : j # i => v.conflicts[j] = w.conflicts[j]
        /\ v.conflicts \in [ConflictIds -> Conflict \cup {NoValue}]
    BY <1>2, <1>3, <1>4, NoValueAssumption
  <1>6. \A j \in ConflictIds : w.conflicts[j] # NoValue =>
            /\ v.conflicts[j] # NoValue
            /\ v.conflicts[j].entity = w.conflicts[j].entity
            /\ v.conflicts[j].attribute = w.conflicts[j].attribute
    BY <1>3, <1>5
  <1>7. Named(v.conflicts)
    BY <1>2, <1>3, <1>5 DEF Named
  <1>8. /\ v.open \in [Entities \X Attributes -> ConflictIds \cup {NoValue}]
        /\ \A l \in Entities \X Attributes : v.open[l] \in {w.open[l], NoValue}
    BY <1>1, <1>2
  <1>9. Indexed(v.open, v.conflicts)
    <2>1. ASSUME NEW l \in Entities \X Attributes, v.open[l] # NoValue
          PROVE  /\ v.conflicts[v.open[l]] # NoValue
                 /\ l = <<v.conflicts[v.open[l]].entity, v.conflicts[v.open[l]].attribute>>
      <3>1. v.open[l] = w.open[l] /\ v.open[l] \in ConflictIds
        BY <1>8, <2>1
      <3>2. /\ w.conflicts[w.open[l]] # NoValue
            /\ l = <<w.conflicts[w.open[l]].entity, w.conflicts[w.open[l]].attribute>>
        BY <1>2, <2>1, <3>1 DEF Indexed
      <3> QED
        BY <1>6, <3>1, <3>2
    <2> QED
      BY <1>8, <2>1 DEF Indexed
  <1>10. Typed(v)
    BY <1>1, <1>7, <1>9 DEF Typed
  <1>11. Backed(v)
    BY <1>1 DEF Backed
  <1>12. ASSUME Pending(w), NEW l \in Entities \X Attributes, v.open[l] # NoValue
         PROVE  v.conflicts[v.open[l]].status = "open"
    <2>1. v.open[l] = w.open[l] /\ w.open[l] \in ConflictIds
      BY <1>2, <1>8, <1>12
    <2>2. w.conflicts[w.open[l]].status = "open"
      BY <1>12, <2>1 DEF Pending
    <2>3. w.open[l] # i
      <3>1. CASE w.open[l] = i
        <4>1. l = <<w.conflicts[i].entity, w.conflicts[i].attribute>>
          BY <1>2, <1>12, <2>1, <3>1 DEF Indexed
        <4>2. l = k
          BY <4>1 DEF k, KeyOfConflict
        <4> QED
          BY <1>1, <1>2, <1>12, <4>2
      <3> QED
        BY <3>1
    <2> QED
      BY <1>5, <2>1, <2>2, <2>3
  <1> QED
    BY <1>1, <1>3, <1>5, <1>10, <1>11, <1>12 DEF Pending

\* resolve_conflict decides, and commits what was decided if the entity has
\* a state.
LEMMA ResolveKeeps ==
    ASSUME NEW w, Typed(w), Backed(w), NEW i \in ConflictIds,
           w.conflicts[i] # NoValue, NEW value \in Values,
           NEW c \in 1..MaxCommits, c \notin DOMAIN w.commits, c \notin StoredIds,
           NEW v, v = Resolve(w, i, value, c)
    PROVE  /\ Typed(v) /\ Backed(v) /\ v.seen = w.seen
           /\ v.conflicts[i] \in Conflict /\ v.conflicts[i].status = "resolved"
           /\ v.conflicts[i].candidates = w.conflicts[i].candidates
           /\ \A j \in ConflictIds : j # i => v.conflicts[j] = w.conflicts[j]
           /\ Pending(w) => Pending(v)
           /\ \A e \in Entities : w.states[e] # NoValue => v.states[e] # NoValue
           /\ \/ /\ v.states = w.states /\ v.commits = w.commits
                 /\ v.latest = w.latest
              \/ /\ v.latest = c
                 /\ w.states[w.conflicts[i].entity] # NoValue
                 /\ v.states[w.conflicts[i].entity].commit = c
                 /\ v.states[w.conflicts[i].entity].version =
                        NextVersion(w.states[w.conflicts[i].entity])
                 /\ v.states[w.conflicts[i].entity].attributes =
                        ResolvedAttributes(w, i, value)
                 /\ \A f \in Entities : f # w.conflicts[i].entity =>
                       v.states[f] = w.states[f]
                 /\ DOMAIN v.commits = DOMAIN w.commits \cup {c}
                 /\ v.commits[c].observations = SourceIds(w.conflicts[i], value)
                 /\ v.commits[c].before =
                        ValuesOf(PreviousAttributes(w, w.conflicts[i].entity))
                 /\ \A d \in DOMAIN w.commits : v.commits[d] = w.commits[d]
  <1>1. /\ w.conflicts[i] \in Conflict
        /\ w.conflicts[i].entity \in Entities /\ w.conflicts[i].attribute \in Attributes
    BY DEF Typed, Named, Conflict
  <1>2. CASE w.conflicts[i].status = "resolved"
    <2>1. v = w
      BY <1>2 DEF Resolve
    <2> QED
      BY <1>1, <1>2, <2>1
  <1>3. CASE w.conflicts[i].status # "resolved"
    <2> DEFINE decided == Decided(w, i, value)
               e == w.conflicts[i].entity
               m == ResolvedAttributes(w, i, value)
               x == CauseOfResolution(w, i, value)
    <2>0. /\ x \in Causes /\ x.observations = SourceIds(w.conflicts[i], value)
          /\ LastSourceId(w.conflicts[i], value) \in ObservationIds
      <3>1. /\ SourceIds(w.conflicts[i], value) \subseteq ObservationIds
            /\ LastSourceId(w.conflicts[i], value) \in ObservationIds
        BY <1>1, SourceTypes
      <3> QED
        BY <3>1 DEF CauseOfResolution, Cause, Causes
    <2>1. /\ Typed(decided) /\ Backed(decided)
          /\ decided.seen = w.seen /\ decided.states = w.states
          /\ decided.commits = w.commits /\ decided.latest = w.latest
          /\ decided.conflicts[i] \in Conflict
          /\ decided.conflicts[i].status = "resolved"
          /\ decided.conflicts[i].entity = w.conflicts[i].entity
          /\ decided.conflicts[i].candidates = w.conflicts[i].candidates
          /\ \A j \in ConflictIds : j # i => decided.conflicts[j] = w.conflicts[j]
          /\ Pending(w) => Pending(decided)
      BY DecisionKeeps
    <2>2. m \in AttributeMap
      <3>1. PreviousAttributes(w, e) \in AttributeMap
        BY <1>1, MapTypes
      <3>2. [value |-> value, connector |-> Operator, freshness |-> "fresh",
             source |-> LastSourceId(w.conflicts[i], value)] \in Attribute
        BY <2>0 DEF Attribute, Freshness
      <3> QED
        BY <1>1, <3>1, <3>2 DEF ResolvedAttributes, AttributeMap
    <2>3. v = IF w.states[e] = NoValue THEN decided
              ELSE WithCommit(decided, c, e, x, m)
      BY <1>3 DEF Resolve, ResolveOpen
    <2>4. e \in Entities
      BY <1>1
    <2> HIDE DEF decided, m, x
    <2>5. CASE w.states[e] = NoValue
      <3>1. v = decided
        BY <2>3, <2>5
      <3> QED
        BY <2>1, <3>1
    <2>6. CASE w.states[e] # NoValue
      <3>1. c \notin DOMAIN decided.commits /\ v = WithCommit(decided, c, e, x, m)
        BY <2>1, <2>3, <2>6
      <3> HIDE DEF e
      <3>c. /\ Typed(decided) /\ Backed(decided) /\ m \in AttributeMap
            /\ e \in Entities /\ x \in Causes
            /\ c \notin DOMAIN decided.commits /\ v = WithCommit(decided, c, e, x, m)
        BY <2>0, <2>1, <2>2, <2>4, <3>1
      <3>2. /\ Typed(v) /\ Backed(v) /\ v.states[e] # NoValue
            /\ v.seen = decided.seen /\ v.conflicts = decided.conflicts
            /\ v.open = decided.open
            /\ v.latest = c
            /\ v.states[e].commit = c /\ v.states[e].attributes = m
            /\ v.states[e].version = NextVersion(decided.states[e])
            /\ \A f \in Entities : f # e => v.states[f] = decided.states[f]
            /\ DOMAIN v.commits = DOMAIN decided.commits \cup {c}
            /\ v.commits[c].observations = x.observations
            /\ v.commits[c].before = ValuesOf(PreviousAttributes(decided, e))
            /\ \A d \in DOMAIN decided.commits : v.commits[d] = decided.commits[d]
        BY <3>c, CommitKeeps
      <3>3. PreviousAttributes(decided, e) = PreviousAttributes(w, e)
        BY <2>1 DEF PreviousAttributes
      <3>4. /\ v.latest = c /\ w.states[e] # NoValue /\ v.states[e].commit = c
            /\ v.states[e].version = NextVersion(w.states[e])
            /\ v.states[e].attributes = m
            /\ \A f \in Entities : f # e => v.states[f] = w.states[f]
            /\ DOMAIN v.commits = DOMAIN w.commits \cup {c}
            /\ v.commits[c].observations = SourceIds(w.conflicts[i], value)
            /\ v.commits[c].before = ValuesOf(PreviousAttributes(w, e))
            /\ \A d \in DOMAIN w.commits : v.commits[d] = w.commits[d]
        BY <2>0, <2>1, <2>6, <3>2, <3>3
      <3>5. \A f \in Entities : w.states[f] # NoValue => v.states[f] # NoValue
        BY <3>2, <3>4
      <3>6. Pending(w) => Pending(v)
        BY <2>1, <3>2 DEF Pending
      <3>7. /\ v.seen = w.seen /\ v.conflicts[i] \in Conflict
            /\ v.conflicts[i].status = "resolved"
            /\ v.conflicts[i].candidates = w.conflicts[i].candidates
            /\ \A j \in ConflictIds : j # i => v.conflicts[j] = w.conflicts[j]
        BY <2>1, <3>2
      <3> QED
        BY <3>2, <3>4, <3>5, <3>6, <3>7 DEF e, m
    <2> QED
      BY <2>5, <2>6
  <1> QED
    BY <1>2, <1>3

StatesHydrated(w, e, state) == [w.states EXCEPT ![e] = state]

CommitsHydrated(w, e, state, with_hash) ==
    IF ~with_hash THEN w.commits
    ELSE [i \in DOMAIN w.commits \cup {state.commit} |->
             IF i = state.commit THEN Stub(e) ELSE w.commits[i]]

\* hydrate puts the stored state in the place of the one in memory.
LEMMA HydratedFields ==
    ASSUME NEW w, IsMemory(w), NEW e, NEW state, NEW with_hash,
           NEW v, v = Hydrated(w, e, state, with_hash)
    PROVE  /\ v.seen = w.seen /\ v.states = StatesHydrated(w, e, state)
           /\ v.commits = CommitsHydrated(w, e, state, with_hash)
           /\ v.latest = HeadAfter(w, state)
           /\ v.conflicts = w.conflicts /\ v.open = w.open
           /\ IsMemory(v)
  <1> DEFINE x == CommitsHydrated(w, e, state, with_hash)
             y == HeadAfter(w, state)
             z == StatesHydrated(w, e, state)
             s == [w EXCEPT !.states = z]
             l == [s EXCEPT !.latest = y]
  <1>1. v = [l EXCEPT !.commits = x]
    BY DEF Hydrated, CommitsHydrated, StatesHydrated, IsMemory
  <1> HIDE DEF x, y, z
  <1>2. /\ s.seen = w.seen /\ s.states = z /\ s.commits = w.commits
        /\ s.latest = w.latest /\ s.conflicts = w.conflicts /\ s.open = w.open
        /\ IsMemory(s)
    BY DEF IsMemory
  <1> HIDE DEF s
  <1>3. /\ l.seen = s.seen /\ l.states = s.states /\ l.commits = s.commits
        /\ l.latest = y /\ l.conflicts = s.conflicts /\ l.open = s.open
        /\ IsMemory(l)
    BY <1>2 DEF IsMemory
  <1> HIDE DEF l
  <1>4. /\ v.seen = l.seen /\ v.states = l.states /\ v.commits = x
        /\ v.latest = l.latest /\ v.conflicts = l.conflicts /\ v.open = l.open
        /\ IsMemory(v)
    BY <1>1, <1>3 DEF IsMemory
  <1> QED
    BY <1>2, <1>3, <1>4 DEF x, y, z

LEMMA HydratedKeeps ==
    ASSUME NEW w, Typed(w), Backed(w), StoredIds \subseteq 1..MaxCommits,
           NEW e \in Entities, NEW state \in EntityState, state.commit \in StoredIds,
           NEW with_hash \in BOOLEAN, NEW v, v = Hydrated(w, e, state, with_hash)
    PROVE  /\ Typed(v) /\ Backed(v) /\ v.states[e] = state
           /\ v.seen = w.seen /\ v.conflicts = w.conflicts /\ v.open = w.open
           /\ \A f \in Entities : f # e => v.states[f] = w.states[f]
           /\ DOMAIN w.commits \subseteq DOMAIN v.commits
           /\ DOMAIN v.commits \subseteq DOMAIN w.commits \cup {state.commit}
           /\ \A d \in DOMAIN v.commits :
                 \/ d \in DOMAIN w.commits /\ v.commits[d] = w.commits[d]
                 \/ d = state.commit /\ v.commits[d].observations = {}
           /\ v.latest \in {w.latest, state.commit}
           /\ v.latest # NoValue
           /\ with_hash => state.commit \in DOMAIN v.commits
  <1>1. /\ v.seen = w.seen /\ v.states = [w.states EXCEPT ![e] = state]
        /\ v.commits = CommitsHydrated(w, e, state, with_hash)
        /\ v.latest = HeadAfter(w, state)
        /\ v.conflicts = w.conflicts /\ v.open = w.open
        /\ IsMemory(v)
    <2>1. IsMemory(w)
      BY DEF Typed
    <2>2. /\ v.seen = w.seen /\ v.states = StatesHydrated(w, e, state)
          /\ v.commits = CommitsHydrated(w, e, state, with_hash)
          /\ v.latest = HeadAfter(w, state)
          /\ v.conflicts = w.conflicts /\ v.open = w.open
          /\ IsMemory(v)
      BY <2>1, HydratedFields
    <2> QED
      BY <2>2 DEF StatesHydrated
  <1>2. state.commit \in CommitIds
    BY DEF EntityState
  <1>3. /\ v.latest \in {w.latest, state.commit} /\ v.latest # NoValue
        /\ v.latest \in CommitIds \cup {NoValue}
    <2>1. HeadAfter(w, state) \in {w.latest, state.commit} /\ HeadAfter(w, state) # NoValue
      BY <1>2, NoValueAssumption DEF HeadAfter
    <2> QED
      BY <1>1, <1>2, <2>1 DEF Typed
  <1>4. /\ v.states[e] = state
        /\ \A f \in Entities : f # e => v.states[f] = w.states[f]
        /\ v.states \in [Entities -> EntityState \cup {NoValue}]
    BY <1>1 DEF Typed
  <1>5. Stub(e) \in Commit /\ Stub(e).observations = {}
    BY DEF Stub, Commit, NoAttributes, ValueMap
  <1>6. /\ DOMAIN w.commits \subseteq DOMAIN v.commits
        /\ DOMAIN v.commits \subseteq DOMAIN w.commits \cup {state.commit}
        /\ \A d \in DOMAIN v.commits :
              \/ d \in DOMAIN w.commits /\ v.commits[d] = w.commits[d]
              \/ d = state.commit /\ v.commits[d] = Stub(e)
        /\ v.commits = [d \in DOMAIN v.commits |-> v.commits[d]]
        /\ with_hash => state.commit \in DOMAIN v.commits
    <2>1. CASE with_hash = FALSE
      <3>1. v.commits = w.commits
        BY <1>1, <2>1 DEF CommitsHydrated
      <3> QED
        BY <2>1, <3>1 DEF Typed
    <2>2. CASE with_hash = TRUE
      <3>1. v.commits = [i \in DOMAIN w.commits \cup {state.commit} |->
                            IF i = state.commit THEN Stub(e) ELSE w.commits[i]]
        BY <1>1, <2>2 DEF CommitsHydrated
      <3> QED
        BY <3>1
    <2> QED
      BY <2>1, <2>2
  <1>7. Typed(v)
    BY <1>1, <1>3, <1>4, <1>5, <1>6 DEF Typed
  <1>8. Backed(v)
    BY <1>4, <1>6 DEF Backed
  <1> QED
    BY <1>1, <1>3, <1>4, <1>5, <1>6, <1>7, <1>8

\* What the handlers load, backed by the tables.
LEMMA LoadedKeeps ==
    ASSUME NEW w, Typed(w), Backed(w), TablesTyped, ProjectionIsBackedByLog,
           NEW e \in Entities, NEW v, v = Loaded(w, e)
    PROVE  /\ Typed(v) /\ Backed(v)
           /\ v.seen = w.seen /\ v.conflicts = w.conflicts /\ v.open = w.open
           /\ KnowsHead(w) => KnowsHead(v)
           /\ state_projection[e] # NoValue => v.states[e] = state_projection[e]
           /\ state_projection[e] = NoValue => v = w
           /\ \A f \in Entities : f # e => v.states[f] = w.states[f]
           /\ DOMAIN w.commits \subseteq DOMAIN v.commits
           /\ DOMAIN v.commits \subseteq DOMAIN w.commits \cup StoredIds
           /\ \A d \in DOMAIN v.commits :
                 \/ d \in DOMAIN w.commits /\ v.commits[d] = w.commits[d]
                 \/ d \in StoredIds /\ v.commits[d].observations = {}
  <1>1. CASE state_projection[e] = NoValue
    <2>1. v = w
      BY <1>1 DEF Loaded
    <2> QED
      BY <1>1, <2>1
  <1>2. CASE state_projection[e] # NoValue
    <2>1. PICK state \in EntityState : state = state_projection[e]
      BY <1>2 DEF TablesTyped
    <2>2. state.commit \in StoredIds
      BY <1>2, <2>1 DEF ProjectionIsBackedByLog, RowsFor, StoredIds
    <2>3. PICK with_hash \in BOOLEAN :
              v = Hydrated(w, e, state, with_hash) /\ (with_hash <=> state.commit \in StoredIds)
      <3>1. (state.commit \in StoredIds) \in BOOLEAN
        BY SMT
      <3>2. v = Hydrated(w, e, state, state.commit \in StoredIds)
        BY <1>2, <2>1 DEF Loaded
      <3> QED
        BY <3>1, <3>2
    <2>4. StoredIds \subseteq 1..MaxCommits
      BY DEF TablesTyped
    <2>5. /\ Typed(v) /\ Backed(v) /\ v.states[e] = state
          /\ v.seen = w.seen /\ v.conflicts = w.conflicts /\ v.open = w.open
          /\ \A f \in Entities : f # e => v.states[f] = w.states[f]
          /\ DOMAIN w.commits \subseteq DOMAIN v.commits
          /\ DOMAIN v.commits \subseteq DOMAIN w.commits \cup {state.commit}
          /\ \A d \in DOMAIN v.commits :
                \/ d \in DOMAIN w.commits /\ v.commits[d] = w.commits[d]
                \/ d = state.commit /\ v.commits[d].observations = {}
          /\ v.latest \in {w.latest, state.commit}
          /\ v.latest # NoValue
          /\ with_hash => state.commit \in DOMAIN v.commits
      BY <2>2, <2>3, <2>4, HydratedKeeps
    <2>6. KnowsHead(w) => KnowsHead(v)
      BY <2>2, <2>3, <2>5 DEF KnowsHead
    <2> QED
      BY <1>2, <2>1, <2>2, <2>5, <2>6
  <1> QED
    BY <1>1, <1>2

ConflictsStored(w, rows) ==
    [i \in ConflictIds |-> IF rows[i] # NoValue THEN rows[i] ELSE w.conflicts[i]]

OpenStored(w, rows) ==
    [k \in Entities \X Attributes |->
        LET opened == {i \in RowsOf(rows, k) : rows[i].status = "open"} IN
        IF opened # {} THEN CHOOSE i \in opened : TRUE
        ELSE IF RowsOf(rows, k) # {} THEN NoValue ELSE w.open[k]]

\* hydrate_conflict, for each of the rows.
LEMMA StoredConflictsKeep ==
    ASSUME NEW w, Typed(w), Backed(w), NEW rows, Named(rows),
           NEW v, v = WithStoredConflicts(w, rows)
    PROVE  /\ Typed(v) /\ Backed(v)
           /\ v.seen = w.seen /\ v.states = w.states
           /\ v.commits = w.commits /\ v.latest = w.latest
           /\ v.conflicts = ConflictsStored(w, rows)
           /\ \A i \in ConflictIds : rows[i] # NoValue => v.conflicts[i] = rows[i]
           /\ \A i \in ConflictIds : rows[i] = NoValue => v.conflicts[i] = w.conflicts[i]
           /\ Pending(w) => Pending(v)
  <1> DEFINE x == ConflictsStored(w, rows)
             y == OpenStored(w, rows)
  <1>1. v = [w EXCEPT !.conflicts = x, !.open = y]
    BY DEF WithStoredConflicts, ConflictsStored, OpenStored
  <1> HIDE DEF x, y
  <1>2. /\ v.seen = w.seen /\ v.states = w.states /\ v.commits = w.commits
        /\ v.latest = w.latest /\ v.conflicts = x /\ v.open = y /\ IsMemory(v)
    BY <1>1 DEF IsMemory, Typed
  <1>3. /\ Named(w.conflicts) /\ Indexed(w.open, w.conflicts)
        /\ w.conflicts \in [ConflictIds -> Conflict \cup {NoValue}]
        /\ w.open \in [Entities \X Attributes -> ConflictIds \cup {NoValue}]
        /\ rows \in [ConflictIds -> Conflict \cup {NoValue}]
    BY DEF Typed, Named, Indexed
  <1>4. /\ \A i \in ConflictIds : rows[i] # NoValue => x[i] = rows[i]
        /\ \A i \in ConflictIds : rows[i] = NoValue => x[i] = w.conflicts[i]
        /\ x \in [ConflictIds -> Conflict \cup {NoValue}]
    BY <1>3 DEF x, ConflictsStored
  <1>5. Named(x)
    <2>1. ASSUME NEW i \in ConflictIds, x[i] # NoValue
          PROVE  /\ x[i].attribute = i[2]
                 /\ \E o \in Offered : o.id = i[1] /\ o.entity = x[i].entity
      <3>1. CASE rows[i] # NoValue
        BY <1>4, <3>1 DEF Named
      <3>2. CASE rows[i] = NoValue
        <4>1. x[i] = w.conflicts[i]
          BY <1>4, <3>2
        <4> QED
          BY <1>3, <2>1, <4>1 DEF Named
      <3> QED
        BY <3>1, <3>2
    <2> QED
      BY <1>4, <2>1 DEF Named
  <1>6. ASSUME NEW i \in ConflictIds, rows[i] # NoValue, w.conflicts[i] # NoValue
        PROVE  /\ rows[i].entity = w.conflicts[i].entity
               /\ rows[i].attribute = w.conflicts[i].attribute
    <2>1. PICK o \in Offered : o.id = i[1] /\ o.entity = rows[i].entity
      BY <1>6 DEF Named
    <2>2. PICK u \in Offered : u.id = i[1] /\ u.entity = w.conflicts[i].entity
      BY <1>3, <1>6 DEF Named
    <2>3. o.entity = u.entity
      BY <2>1, <2>2, CompilerAssumption
    <2> QED
      BY <1>3, <1>6, <2>1, <2>2, <2>3 DEF Named
  <1>7. ASSUME NEW k \in Entities \X Attributes
        PROVE  \/ /\ y[k] \in RowsOf(rows, k) /\ rows[y[k]].status = "open"
               \/ y[k] = NoValue
               \/ y[k] = w.open[k] /\ RowsOf(rows, k) = {}
    <2> DEFINE opened == {i \in RowsOf(rows, k) : rows[i].status = "open"}
    <2>1. y[k] = IF opened # {} THEN CHOOSE i \in opened : TRUE
                 ELSE IF RowsOf(rows, k) # {} THEN NoValue ELSE w.open[k]
      BY DEF y, OpenStored
    <2>2. opened # {} => (CHOOSE i \in opened : TRUE) \in opened
      OBVIOUS
    <2>3. \A i \in opened : i \in RowsOf(rows, k) /\ rows[i].status = "open"
      OBVIOUS
    <2> QED
      BY <2>1, <2>2, <2>3
  <1>8. y \in [Entities \X Attributes -> ConflictIds \cup {NoValue}]
    <2>1. y = [k \in Entities \X Attributes |-> y[k]]
      BY DEF y, OpenStored
    <2>2. \A k \in Entities \X Attributes : y[k] \in ConflictIds \cup {NoValue}
      BY <1>3, <1>7 DEF RowsOf
    <2> QED
      BY <2>1, <2>2
  <1>9. ASSUME NEW k \in Entities \X Attributes, y[k] # NoValue
        PROVE  /\ x[y[k]] # NoValue
               /\ k = <<x[y[k]].entity, x[y[k]].attribute>>
               /\ Pending(w) => x[y[k]].status = "open"
    <2>1. CASE y[k] \in RowsOf(rows, k) /\ rows[y[k]].status = "open"
      BY <1>4, <2>1 DEF RowsOf
    <2>2. CASE y[k] = w.open[k] /\ RowsOf(rows, k) = {}
      <3>1. PICK i \in ConflictIds : i = w.open[k]
        BY <1>3, <1>9, <2>2
      <3>2. /\ w.conflicts[i] # NoValue
            /\ k = <<w.conflicts[i].entity, w.conflicts[i].attribute>>
        BY <1>3, <1>9, <2>2, <3>1 DEF Indexed
      <3>3. rows[i] = NoValue
        BY <1>6, <2>2, <3>1, <3>2 DEF RowsOf
      <3>4. Pending(w) => w.conflicts[i].status = "open"
        BY <1>9, <2>2, <3>1 DEF Pending
      <3> QED
        BY <1>4, <2>2, <3>1, <3>2, <3>3, <3>4
    <2> QED
      BY <1>7, <1>9, <2>1, <2>2
  <1>10. Indexed(y, x)
    BY <1>8, <1>9 DEF Indexed
  <1>11. Typed(v)
    BY <1>2, <1>5, <1>10 DEF Typed
  <1>12. Backed(v)
    BY <1>2 DEF Backed
  <1>13. Pending(w) => Pending(v)
    BY <1>2, <1>9 DEF Pending
  <1> QED
    BY <1>2, <1>4, <1>11, <1>12, <1>13 DEF x

LEMMA EmptyFacts ==
    /\ Typed(EmptyService) /\ Backed(EmptyService) /\ TxBacked(NoTx)
    /\ NoTx \in Transaction /\ IdsOf(EmptyService, NoTx) = {}
    /\ Named(NoConflicts)
  <1>1. /\ EmptyService.commits = [c \in {} |-> NoValue]
        /\ EmptyService.conflicts = NoConflicts /\ EmptyService.latest = NoValue
        /\ EmptyService.states = [e \in Entities |-> NoValue]
        /\ EmptyService.open = [k \in Entities \X Attributes |-> NoValue]
        /\ EmptyService.seen = {} /\ IsMemory(EmptyService)
    BY DEF EmptyService, NoConflicts, IsMemory
  <1>2. Named(NoConflicts)
    BY DEF Named, NoConflicts
  <1>3. Indexed(EmptyService.open, EmptyService.conflicts)
    BY <1>1 DEF Indexed
  <1>4. DOMAIN EmptyService.commits = {}
    BY <1>1
  <1>5. Typed(EmptyService)
    BY <1>1, <1>2, <1>3, <1>4 DEF Typed
  <1>6. Backed(EmptyService)
    BY <1>1 DEF Backed
  <1>7. NoTx \in Transaction /\ NoTx.commit = NoValue /\ NoTx.state = NoValue
        /\ NoTx.conflicts = NoConflicts
    <2>1. NoConflicts \in [ConflictIds -> Conflict \cup {NoValue}]
      BY DEF NoConflicts
    <2> QED
      BY <2>1 DEF NoTx, Transaction
  <1>8. TxBacked(NoTx)
    BY <1>2, <1>7 DEF TxBacked
  <1>9. IdsOf(EmptyService, NoTx) = {}
    BY <1>4, <1>7 DEF IdsOf
  <1> QED
    BY <1>2, <1>5, <1>6, <1>7, <1>8, <1>9

Stores(t, kind, v, e, o, conflicts) ==
    \/ t = Storing(kind, v, e, o) /\ conflicts = NoConflicts
    \/ t = [Storing(kind, v, e, o) EXCEPT !.conflicts = conflicts]

Stored(t, kind, v, e, o, conflicts) ==
    /\ t.kind = kind /\ t.observation = o /\ t.conflicts = conflicts
    /\ t.commit = NoValue <=> v.states[e].commit \in StoredIds
    /\ t.commit # NoValue =>
          /\ t.state = v.states[e] /\ t.commit.id = v.states[e].commit
          /\ t.commit.id \in DOMAIN v.commits
          /\ t.commit.record = v.commits[t.commit.id]
          /\ t.commit.record.entity = e
    /\ IdsOf(v, t) = DOMAIN v.commits

\* What persist stores of a state that is backed.
LEMMA StoringFacts ==
    ASSUME NEW v, Typed(v), Backed(v), NEW e \in Entities, v.states[e] # NoValue,
           NEW kind \in {"ingest", "verify", "resolve", "read", "observe"},
           NEW o \in Offered \cup {NoValue}, NEW conflicts, Named(conflicts),
           NEW t, Stores(t, kind, v, e, o, conflicts)
    PROVE  /\ t \in Transaction /\ TxBacked(t)
           /\ Stored(t, kind, v, e, o, conflicts)
  <1> DEFINE state == v.states[e]
             row == [id |-> state.commit, record |-> v.commits[state.commit]]
             stored == state.commit \in StoredIds
             commit == IF stored THEN NoValue ELSE row
             written == IF stored THEN NoValue ELSE state
  <1>1. state \in EntityState
    BY DEF Typed
  <1>2. t = [kind |-> kind, observation |-> o, commit |-> commit,
             state |-> written, conflicts |-> conflicts]
    BY DEF Stores, Storing, NoTx
  <1>3. ~stored =>
           /\ row \in Row /\ row.id = state.commit
           /\ row.record = v.commits[state.commit]
           /\ row.record.entity = e
           /\ row.record.after = ValuesOf(state.attributes)
           /\ row.id \in DOMAIN v.commits
           /\ row.id \in 1..MaxCommits
    <2>1. ASSUME ~stored
          PROVE  /\ state.commit \in DOMAIN v.commits
                 /\ v.commits[state.commit].entity = e
                 /\ v.commits[state.commit].after = ValuesOf(state.attributes)
      BY <2>1 DEF Backed
    <2>2. ~stored => v.commits[state.commit] \in Commit /\ state.commit \in 1..MaxCommits
      BY <2>1 DEF Typed
    <2> QED
      BY <1>1, <2>1, <2>2 DEF Row, EntityState
  <1>4. conflicts \in [ConflictIds -> Conflict \cup {NoValue}]
    BY DEF Named
  <1> HIDE DEF state, row
  <1>5. /\ t.kind = kind /\ t.observation = o /\ t.commit = commit
        /\ t.state = written /\ t.conflicts = conflicts
    BY <1>2
  <1>6. commit = NoValue <=> stored
    BY <1>3, NoValueAssumption
  <1>7. t \in Transaction
    <2>1. commit \in Row \cup {NoValue} /\ written \in EntityState \cup {NoValue}
      BY <1>1, <1>3
    <2> HIDE DEF commit, written
    <2> QED
      BY <1>2, <1>4, <2>1 DEF Transaction
  <1>8. TxBacked(t)
    BY <1>1, <1>3, <1>5, NoValueAssumption DEF TxBacked
  <1> QED
    BY <1>3, <1>5, <1>6, <1>7, <1>8 DEF Stored, IdsOf, state

LEMMA UsedFacts ==
    ASSUME Inv
    PROVE  /\ StoredIds \subseteq UsedIds /\ UsedIds \subseteq 1..MaxCommits
           /\ \A p \in Processes : IdsOf(mem[p], tx[p]) \subseteq UsedIds
  <1>1. \A p \in Processes : Typed(mem[p]) /\ TxBacked(tx[p])
    BY DEF Inv
  <1>2. \A p \in Processes : DOMAIN mem[p].commits \subseteq 1..MaxCommits
    BY <1>1 DEF Typed
  <1>3. \A p \in Processes : tx[p].commit # NoValue => tx[p].commit.id \in 1..MaxCommits
    BY <1>1 DEF TxBacked
  <1>4. StoredIds \subseteq 1..MaxCommits
    BY DEF Inv, TablesTyped
  <1> DEFINE held == {DOMAIN mem[p].commits : p \in Processes}
             named == {tx[p].commit.id : p \in {q \in Processes : tx[q].commit # NoValue}}
  <1>a. UsedIds = StoredIds \cup (UNION held) \cup named
    BY DEF UsedIds
  <1>b. \A c : c \in UNION held <=> \E p \in Processes : c \in DOMAIN mem[p].commits
    BY Zenon
  <1>c. \A c : c \in named <=>
            \E p \in Processes : tx[p].commit # NoValue /\ c = tx[p].commit.id
    BY Zenon
  <1> HIDE DEF held, named
  <1>d. \A c : c \in UsedIds <=> \/ c \in StoredIds
                                \/ c \in UNION held
                                \/ c \in named
    BY <1>a
  <1>5. ASSUME NEW c \in UsedIds
        PROVE  c \in 1..MaxCommits
    <2>1. CASE c \in StoredIds
      BY <1>4, <2>1
    <2>2. CASE c \in UNION held
      BY <1>2, <1>b, <2>2
    <2>3. CASE c \in named
      BY <1>3, <1>c, <2>3
    <2> QED
      BY <1>d, <2>1, <2>2, <2>3
  <1>6. ASSUME NEW p \in Processes, NEW c \in IdsOf(mem[p], tx[p])
        PROVE  c \in UsedIds
    <2>1. CASE c \in DOMAIN mem[p].commits
      BY <1>b, <1>d, <2>1
    <2>2. CASE tx[p].commit # NoValue /\ c = tx[p].commit.id
      BY <1>c, <1>d, <2>2
    <2> QED
      BY <2>1, <2>2 DEF IdsOf
  <1> QED
    BY <1>5, <1>6 DEF UsedIds

\* Process p goes on with memory v and transaction t, whose commits are its
\* own, stored ones, or new ones.
Works(p, v, t) ==
    mem' = [mem EXCEPT ![p] = v] /\ tx' = [tx EXCEPT ![p] = t] /\ UNCHANGED tables

Mints(p, v, t, new) ==
    /\ new \cap UsedIds = {}
    /\ IdsOf(v, t) \subseteq IdsOf(mem[p], tx[p]) \cup StoredIds \cup new

\* A handler that ends in its process: the tables stay, its memory and its
\* transaction are in order, and its new commits bear ids that nobody has.
LEMMA WorkKeeps ==
    ASSUME Inv, NEW p \in Processes, NEW v, NEW t, Works(p, v, t),
           Typed(v), Backed(v), t \in Transaction, TxBacked(t),
           NEW new, Mints(p, v, t, new)
    PROVE  Inv'
  <1>0. /\ UNCHANGED tables /\ new \cap UsedIds = {}
        /\ mem' = [mem EXCEPT ![p] = v] /\ tx' = [tx EXCEPT ![p] = t]
        /\ IdsOf(v, t) \subseteq IdsOf(mem[p], tx[p]) \cup StoredIds \cup new
    BY DEF Works, Mints
  <1>1. StoredIds' = StoredIds /\ TablesTyped' /\ ProjectionIsBackedByLog'
    BY <1>0 DEF Inv, tables, StoredIds, TablesTyped, ProjectionIsBackedByLog, RowsFor, Named
  <1>2. /\ mem'[p] = v /\ tx'[p] = t
        /\ \A q \in Processes : q # p => mem'[q] = mem[q] /\ tx'[q] = tx[q]
        /\ mem' = [q \in Processes |-> mem'[q]] /\ tx' \in [Processes -> Transaction]
    BY <1>0 DEF Inv
  <1>3. \A q \in Processes : Typed(mem'[q]) /\ Backed(mem'[q]) /\ TxBacked(tx'[q])
    BY <1>2 DEF Inv
  <1>4. \A q \in Processes : (Typed(mem[q]) /\ Backed(mem[q]) /\ TxBacked(tx[q]))'
    BY <1>1, <1>3 DEF Backed, TxBacked
  <1>5. ASSUME NEW q \in Processes, q # p
        PROVE  IdsOf(v, t) \cap IdsOf(mem[q], tx[q]) \subseteq StoredIds
    <2>1. IdsOf(mem[q], tx[q]) \subseteq UsedIds
      BY UsedFacts
    <2>2. IdsOf(mem[p], tx[p]) \cap IdsOf(mem[q], tx[q]) \subseteq StoredIds
      BY <1>5 DEF Inv
    <2> QED
      BY <1>0, <2>1, <2>2
  <1>6. \A q, r \in Processes : q # r =>
            IdsOf(mem[q], tx[q]) \cap IdsOf(mem[r], tx[r]) \subseteq StoredIds
    BY DEF Inv
  <1>7. \A q, r \in Processes : q # r =>
            IdsOf(mem'[q], tx'[q]) \cap IdsOf(mem'[r], tx'[r]) \subseteq StoredIds
    BY <1>2, <1>5, <1>6
  <1>8. (\A q, r \in Processes : q # r =>
            IdsOf(mem[q], tx[q]) \cap IdsOf(mem[r], tx[r]) \subseteq StoredIds)'
    BY <1>1, <1>7 DEF IdsOf
  <1> QED
    BY <1>1, <1>2, <1>4, <1>8 DEF Inv

-----------------------------------------------------------------------------
(* The handlers.                                                           *)

Outcome(p) ==
    \E v, t, new :
        /\ Works(p, v, t) /\ Mints(p, v, t, new)
        /\ Typed(v) /\ Backed(v) /\ t \in Transaction /\ TxBacked(t)

LEMMA WorkEnds ==
    ASSUME NEW p, NEW v, NEW t, NEW new, Works(p, v, t), Mints(p, v, t, new),
           Typed(v), Backed(v), t \in Transaction, TxBacked(t)
    PROVE  Outcome(p)
  BY DEF Outcome

LEMMA OutcomeKeeps ==
    ASSUME Inv, NEW p \in Processes, Outcome(p)
    PROVE  Inv'
  <1>1. PICK v, t, new :
            /\ Works(p, v, t) /\ Mints(p, v, t, new)
            /\ Typed(v) /\ Backed(v) /\ t \in Transaction /\ TxBacked(t)
    BY DEF Outcome
  <1> QED
    BY <1>1, WorkKeeps

\* The commits of a memory that process p is working on.
Extends(p, w) == DOMAIN w.commits \subseteq DOMAIN mem[p].commits \cup StoredIds

LEMMA IdleFacts ==
    ASSUME Inv, NEW p \in Processes, tx[p].kind = "none"
    PROVE  /\ tx[p] = NoTx /\ tx = [tx EXCEPT ![p] = NoTx]
           /\ IdsOf(mem[p], tx[p]) = DOMAIN mem[p].commits
           /\ Typed(mem[p]) /\ Backed(mem[p])
           /\ TablesTyped /\ ProjectionIsBackedByLog
  <1>1. TxBacked(tx[p]) /\ tx \in [Processes -> Transaction]
    BY DEF Inv
  <1>2. tx[p] = NoTx
    BY <1>1 DEF TxBacked
  <1>3. tx = [tx EXCEPT ![p] = NoTx]
    BY <1>1, <1>2
  <1>4. IdsOf(mem[p], tx[p]) = DOMAIN mem[p].commits
    BY <1>2 DEF IdsOf, NoTx
  <1> QED
    BY <1>2, <1>3, <1>4 DEF Inv

LEMMA BeginFacts ==
    ASSUME Inv, NEW p \in Processes, Begins(p)
    PROVE  /\ tx[p].kind = "none" /\ FreshId \in 1..MaxCommits
           /\ {FreshId} \cap UsedIds = {} /\ FreshId \notin StoredIds
           /\ FreshId \notin DOMAIN mem[p].commits
  <1>1. /\ StoredIds \subseteq UsedIds /\ UsedIds \subseteq 1..MaxCommits
        /\ IdsOf(mem[p], tx[p]) \subseteq UsedIds
    BY UsedFacts
  <1>2. FreshId \in 1..MaxCommits /\ FreshId \notin UsedIds
    BY <1>1, FreshFacts DEF Begins
  <1> QED
    BY <1>1, <1>2 DEF Begins, IdsOf

\* ingest, whether it returns or raises.
LEMMA CompiledKeeps ==
    ASSUME NEW w, Typed(w), Backed(w), NEW o \in Offered,
           NEW c \in 1..MaxCommits, c \notin DOMAIN w.commits, c \notin StoredIds,
           NEW v, \/ Raises(w, o) /\ v = Interrupted(w, o)
                  \/ ~Raises(w, o) /\ v = Ingest(w, o, c)
    PROVE  /\ Typed(v) /\ Backed(v)
           /\ ~Raises(w, o) => v.states[o.entity] # NoValue
           /\ DOMAIN v.commits \subseteq DOMAIN w.commits \cup {c}
  <1>1. CASE Raises(w, o) /\ o.id \in w.seen
    <2>1. v = w
      BY <1>1 DEF Interrupted
    <2> QED
      BY <1>1, <2>1
  <1>2. CASE Raises(w, o) /\ o.id \notin w.seen
    <2>1. v = Noted(w, o)
      BY <1>2 DEF Interrupted, Noted
    <2>2. Typed(v) /\ Backed(v) /\ v.commits = w.commits
      BY <2>1, NotedKeeps
    <2> QED
      BY <1>2, <2>2
  <1>3. CASE ~Raises(w, o)
    <2>1. v = Ingest(w, o, c)
      BY <1>3
    <2>2. /\ Typed(v) /\ Backed(v) /\ v.states[o.entity] # NoValue
          /\ \/ /\ v.states = w.states /\ v.commits = w.commits
                /\ v.latest = w.latest
             \/ /\ v.latest = c /\ v.states[o.entity].commit = c
                /\ v.states[o.entity].attributes = Merged(w, o)
                /\ o.id \notin w.seen
                /\ DOMAIN v.commits = DOMAIN w.commits \cup {c}
                /\ v.commits[c].observations = {o.id}
                /\ v.commits[c].before = ValuesOf(PreviousAttributes(w, o.entity))
                /\ \A d \in DOMAIN w.commits : v.commits[d] = w.commits[d]
      BY <1>3, <2>1, IngestKeeps
    <2> QED
      BY <1>3, <2>2
  <1> QED
    BY <1>1, <1>2, <1>3

\* ingest with nothing to store.
LEMMA CompilingEnds ==
    ASSUME Inv, UNCHANGED tables, NEW p \in Processes, Begins(p),
           NEW w, Typed(w), Backed(w), NEW o \in Offered,
           Extends(p, w), Raises(w, o) \/ o.id \in observation_log,
           NEW v, \/ Raises(w, o) /\ v = Interrupted(w, o)
                  \/ ~Raises(w, o) /\ v = Ingest(w, o, FreshId),
           mem' = [mem EXCEPT ![p] = v], UNCHANGED tx
    PROVE  Outcome(p)
  <1>1. /\ tx[p].kind = "none" /\ FreshId \in 1..MaxCommits
        /\ {FreshId} \cap UsedIds = {} /\ FreshId \notin StoredIds
        /\ FreshId \notin DOMAIN mem[p].commits
    BY BeginFacts
  <1>2. /\ tx[p] = NoTx /\ tx = [tx EXCEPT ![p] = NoTx]
        /\ IdsOf(mem[p], tx[p]) = DOMAIN mem[p].commits
    BY <1>1, IdleFacts
  <1>3. PICK c \in 1..MaxCommits : c = FreshId
    BY <1>1
  <1>4. /\ Typed(v) /\ Backed(v)
        /\ DOMAIN v.commits \subseteq DOMAIN w.commits \cup {c}
    <2>1. c \notin DOMAIN w.commits /\ c \notin StoredIds
      BY <1>1, <1>3 DEF Extends
    <2> QED
      BY <1>3, <2>1, CompiledKeeps
  <1>5. PICK t \in Transaction : t = NoTx
    BY EmptyFacts
  <1>6. TxBacked(t) /\ Works(p, v, t)
    BY <1>2, <1>5, EmptyFacts DEF Works
  <1>7. IdsOf(v, t) \subseteq IdsOf(mem[p], tx[p]) \cup StoredIds \cup {c}
    BY <1>2, <1>4, <1>5 DEF IdsOf, NoTx, Extends
  <1>8. Mints(p, v, t, {c})
    BY <1>1, <1>3, <1>7 DEF Mints
  <1> QED
    BY <1>4, <1>6, <1>8, WorkEnds

\* ingest and persist.
LEMMA IngestingEnds ==
    ASSUME Inv, UNCHANGED tables, NEW p \in Processes, Begins(p),
           NEW w, Typed(w), Backed(w), NEW o \in Offered,
           Extends(p, w), NEW next \in {"ingest", "verify", "read"},
           Ingesting(p, w, o, next)
    PROVE  Outcome(p)
  <1>1. CASE Raises(w, o)
    <2>1. PICK v : v = Interrupted(w, o)
      OBVIOUS
    <2>2. mem' = [mem EXCEPT ![p] = v] /\ UNCHANGED tx
      BY <1>1, <2>1 DEF Ingesting
    <2> QED
      BY <1>1, <2>1, <2>2, CompilingEnds
  <1>2. CASE ~Raises(w, o)
    <2>1. /\ tx[p].kind = "none" /\ FreshId \in 1..MaxCommits
          /\ {FreshId} \cap UsedIds = {} /\ FreshId \notin StoredIds
          /\ FreshId \notin DOMAIN mem[p].commits
      BY BeginFacts
    <2>2. IdsOf(mem[p], tx[p]) = DOMAIN mem[p].commits
      BY <2>1, IdleFacts
    <2>3. PICK c \in 1..MaxCommits : c = FreshId
      BY <2>1
    <2>4. PICK v : v = Ingest(w, o, c)
      OBVIOUS
    <2>5. /\ Typed(v) /\ Backed(v)
          /\ ~Raises(w, o) => v.states[o.entity] # NoValue
          /\ DOMAIN v.commits \subseteq DOMAIN w.commits \cup {c}
      <3>1. c \notin DOMAIN w.commits /\ c \notin StoredIds
        BY <2>1, <2>3 DEF Extends
      <3> QED
        BY <1>2, <2>4, <3>1, CompiledKeeps
    <2>6. PICK e \in Entities : e = o.entity
      BY CompilerAssumption DEF Observation
    <2>7. PICK conflicts : conflicts = IF next = "ingest" THEN v.conflicts ELSE NoConflicts
      OBVIOUS
    <2>8. PICK t : t = IF next = "ingest"
                       THEN [Storing(next, v, e, o) EXCEPT !.conflicts = conflicts]
                       ELSE Storing(next, v, e, o)
      OBVIOUS
    <2>9. mem' = [mem EXCEPT ![p] = v] /\ tx' = [tx EXCEPT ![p] = t]
      BY <1>2, <2>3, <2>4, <2>6, <2>7, <2>8 DEF Ingesting
    <2>10. Named(conflicts)
      BY <2>5, <2>7, EmptyFacts DEF Typed
    <2>11. /\ Stores(t, next, v, e, o, conflicts)
           /\ next \in {"ingest", "verify", "resolve", "read", "observe"}
           /\ o \in Offered \cup {NoValue} /\ v.states[e] # NoValue
      BY <1>2, <2>5, <2>6, <2>7, <2>8 DEF Stores
    <2>12. t \in Transaction /\ TxBacked(t) /\ Stored(t, next, v, e, o, conflicts)
      BY <2>5, <2>10, <2>11, StoringFacts
    <2>13. IdsOf(v, t) \subseteq IdsOf(mem[p], tx[p]) \cup StoredIds \cup {c}
      BY <2>2, <2>5, <2>12 DEF Extends, Stored
    <2>14. Works(p, v, t) /\ Mints(p, v, t, {c})
      BY <2>1, <2>3, <2>9, <2>13 DEF Works, Mints
    <2> QED
      BY <2>5, <2>12, <2>14, WorkEnds
  <1> QED
    BY <1>1, <1>2

LEMMA ApiIngestEnds ==
    ASSUME Inv, NEW p \in Processes, NEW o \in Offered, ApiIngest(p, o)
    PROVE  Outcome(p)
  <1>1. Begins(p) /\ UNCHANGED tables
    BY DEF ApiIngest
  <1>2. /\ tx[p].kind = "none" /\ tx[p] = NoTx /\ tx = [tx EXCEPT ![p] = NoTx]
        /\ IdsOf(mem[p], tx[p]) = DOMAIN mem[p].commits
        /\ Typed(mem[p]) /\ Backed(mem[p])
        /\ TablesTyped /\ ProjectionIsBackedByLog
    BY <1>1, IdleFacts DEF Begins
  <1>3. PICK e \in Entities : e = o.entity
    BY CompilerAssumption DEF Observation
  <1>4. PICK w : w = Loaded(mem[p], e)
    OBVIOUS
  <1>5. /\ Typed(w) /\ Backed(w)
        /\ Extends(p, w)
    BY <1>2, <1>4, LoadedKeeps DEF Extends
  <1>6. PICK v : v = WithStoredConflicts(w, conflict_table)
    OBVIOUS
  <1>7. Typed(v) /\ Backed(v) /\ Extends(p, v)
    <2>1. Typed(v) /\ Backed(v) /\ v.commits = w.commits
      BY <1>2, <1>5, <1>6, StoredConflictsKeep DEF TablesTyped
    <2> QED
      BY <1>5, <2>1 DEF Extends
  <1>8. CASE o.id \notin observation_log
    <2>1. Ingesting(p, v, o, "ingest")
      BY <1>3, <1>4, <1>6, <1>8 DEF ApiIngest
    <2>2. PICK next \in {"ingest", "verify", "read"} : next = "ingest"
      OBVIOUS
    <2>3. Ingesting(p, v, o, next)
      BY <2>1, <2>2
    <2> QED
      BY <1>1, <1>5, <1>7, <2>3, IngestingEnds
  <1>9. CASE o.id \in observation_log /\ state_projection[e] # NoValue
    <2>1. mem' = [mem EXCEPT ![p] = w] /\ tx' = [tx EXCEPT ![p] = NoTx]
      BY <1>2, <1>3, <1>4, <1>9 DEF ApiIngest
    <2>2. PICK t \in Transaction : t = NoTx
      BY EmptyFacts
    <2>3. TxBacked(t) /\ tx' = [tx EXCEPT ![p] = t]
      BY <2>1, <2>2, EmptyFacts
    <2>4. IdsOf(w, t) \subseteq IdsOf(mem[p], tx[p]) \cup StoredIds \cup {}
      BY <1>2, <1>5, <2>2 DEF IdsOf, NoTx, Extends
    <2>5. Works(p, w, t) /\ Mints(p, w, t, {})
      BY <1>1, <2>1, <2>3, <2>4 DEF Works, Mints
    <2> QED
      BY <1>5, <2>3, <2>5, WorkEnds
  <1>10. CASE o.id \in observation_log /\ state_projection[e] = NoValue
    <2>1. PICK u : u = IF Raises(v, o) THEN Interrupted(v, o) ELSE Ingest(v, o, FreshId)
      OBVIOUS
    <2>2. mem' = [mem EXCEPT ![p] = u] /\ UNCHANGED tx
      BY <1>3, <1>4, <1>6, <1>10, <2>1 DEF ApiIngest
    <2>3. \/ Raises(v, o) /\ u = Interrupted(v, o)
          \/ ~Raises(v, o) /\ u = Ingest(v, o, FreshId)
      BY <2>1
    <2> QED
      BY <1>1, <1>7, <1>10, <2>2, <2>3, CompilingEnds
  <1> QED
    BY <1>8, <1>9, <1>10

LEMMA ApiVerifyEnds ==
    ASSUME Inv, NEW p \in Processes, NEW o \in Offered, ApiVerify(p, o)
    PROVE  Outcome(p)
  <1>1. Begins(p) /\ UNCHANGED tables
    BY DEF ApiVerify
  <1>2. /\ Typed(mem[p]) /\ Backed(mem[p])
        /\ TablesTyped /\ ProjectionIsBackedByLog
    BY <1>1, IdleFacts DEF Begins
  <1>3. PICK e \in Entities : e = o.entity
    BY CompilerAssumption DEF Observation
  <1>4. PICK w : w = Loaded(mem[p], e)
    OBVIOUS
  <1>5. /\ Typed(w) /\ Backed(w)
        /\ Extends(p, w)
    BY <1>2, <1>4, LoadedKeeps DEF Extends
  <1>6. CASE o.id \notin observation_log
    <2>1. Ingesting(p, w, o, "verify")
      BY <1>3, <1>4, <1>6 DEF ApiVerify
    <2>2. PICK next \in {"ingest", "verify", "read"} : next = "verify"
      OBVIOUS
    <2>3. Ingesting(p, w, o, next)
      BY <2>1, <2>2
    <2> QED
      BY <1>1, <1>5, <2>3, IngestingEnds
  <1>7. CASE o.id \in observation_log
    <2>1. PICK u : u = IF Raises(w, o) THEN Interrupted(w, o) ELSE Ingest(w, o, FreshId)
      OBVIOUS
    <2>2. mem' = [mem EXCEPT ![p] = u] /\ UNCHANGED tx
      BY <1>3, <1>4, <1>7, <2>1 DEF ApiVerify
    <2>3. \/ Raises(w, o) /\ u = Interrupted(w, o)
          \/ ~Raises(w, o) /\ u = Ingest(w, o, FreshId)
      BY <2>1
    <2> QED
      BY <1>1, <1>5, <1>7, <2>2, <2>3, CompilingEnds
  <1> QED
    BY <1>6, <1>7

LEMMA WorkerReadEnds ==
    ASSUME Inv, NEW p \in Processes, NEW o \in Offered, WorkerRead(p, o)
    PROVE  Outcome(p)
  <1>1. Begins(p) /\ UNCHANGED tables
    BY DEF WorkerRead
  <1>2. /\ Typed(mem[p]) /\ Backed(mem[p])
        /\ TablesTyped /\ ProjectionIsBackedByLog
    BY <1>1, IdleFacts DEF Begins
  <1>3. PICK e \in Entities : e = o.entity
    BY CompilerAssumption DEF Observation
  <1>4. PICK w : w = Loaded(mem[p], e)
    OBVIOUS
  <1>5. /\ Typed(w) /\ Backed(w)
        /\ Extends(p, w)
    BY <1>2, <1>4, LoadedKeeps DEF Extends
  <1>6. Ingesting(p, w, o, "read")
    BY <1>3, <1>4 DEF WorkerRead
  <1>7. PICK next \in {"ingest", "verify", "read"} : next = "read"
    OBVIOUS
  <1>8. Ingesting(p, w, o, next)
    BY <1>6, <1>7
  <1> QED
    BY <1>1, <1>5, <1>8, IngestingEnds

\* The rows that a resolution loads and stores.
RowOnly(i, conflict) == [NoConflicts EXCEPT ![i] = conflict]

LEMMA OneRow ==
    ASSUME NEW conflicts, Named(conflicts), NEW i \in ConflictIds,
           NEW row, row = RowOnly(i, conflicts[i])
    PROVE  /\ Named(row) /\ row[i] = conflicts[i]
           /\ \A j \in ConflictIds : j # i => row[j] = NoValue
  <1>1. /\ NoConflicts \in [ConflictIds -> Conflict \cup {NoValue}]
        /\ \A j \in ConflictIds : NoConflicts[j] = NoValue
    BY DEF NoConflicts
  <1>2. /\ row \in [ConflictIds -> Conflict \cup {NoValue}]
        /\ row[i] = conflicts[i]
        /\ \A j \in ConflictIds : j # i => row[j] = NoValue
    BY <1>1 DEF Named, RowOnly
  <1> QED
    BY <1>2 DEF Named

\* What resolve_conflict works on and leaves: memory w, with the projection of
\* the entity and the row of conflict i in it, becomes v, and t is to be stored.
Resolution(p, i, e, row, w, c, v, t) ==
    /\ e \in Entities /\ e = conflict_table[i].entity
    /\ Named(row) /\ row[i] = conflict_table[i]
    /\ \A j \in ConflictIds : j # i => row[j] = NoValue
    /\ w = WithStoredConflicts(Loaded(mem[p], e), row) /\ w.conflicts[i] = row[i]
    /\ \E value \in Values : v = Resolve(w, i, value, c)
    /\ c \in 1..MaxCommits /\ {c} \cap UsedIds = {} /\ c \notin StoredIds
    /\ DOMAIN w.commits \subseteq DOMAIN mem[p].commits \cup StoredIds
    /\ Works(p, v, t) /\ Typed(v) /\ Backed(v) /\ v.seen = w.seen
    /\ v.conflicts[i] \in Conflict /\ v.conflicts[i].status = "resolved"
    /\ \A j \in ConflictIds : j # i => v.conflicts[j] = w.conflicts[j]
    /\ Pending(w) => Pending(v)
    /\ \A f \in Entities : w.states[f] # NoValue => v.states[f] # NoValue
    /\ \/ /\ v.states = w.states /\ v.commits = w.commits /\ v.latest = w.latest
       \/ /\ v.latest = c /\ w.states[e] # NoValue /\ v.states[e].commit = c
          /\ v.states[e].version = NextVersion(w.states[e])
          /\ \A f \in Entities : f # e => v.states[f] = w.states[f]
          /\ DOMAIN v.commits = DOMAIN w.commits \cup {c}
          /\ v.commits[c].before = ValuesOf(PreviousAttributes(w, e))
    /\ t \in Transaction /\ TxBacked(t) /\ t.kind = "resolve"
    /\ t.observation = NoValue
    /\ t.conflicts[i] = v.conflicts[i]
    /\ \A j \in ConflictIds : j # i => t.conflicts[j] = NoValue
    /\ IdsOf(v, t) = DOMAIN v.commits
    /\ t.commit # NoValue =>
          /\ v.states[e].commit \notin StoredIds /\ state_projection[e] # NoValue
          /\ t.state = v.states[e] /\ t.commit.id = v.states[e].commit
          /\ t.commit.id \in DOMAIN v.commits
          /\ t.commit.record = v.commits[t.commit.id] /\ t.commit.record.entity = e

LEMMA ApiResolveFacts ==
    ASSUME Inv, NEW p \in Processes, NEW i \in ConflictIds, NEW value \in Values,
           ApiResolve(p, i, value)
    PROVE  \E e, row, w, c, v, t : Resolution(p, i, e, row, w, c, v, t)
  <1>1. /\ Begins(p) /\ UNCHANGED tables
        /\ conflict_table[i] # NoValue /\ conflict_table[i].status = "open"
    BY DEF ApiResolve
  <1>2. /\ IdsOf(mem[p], tx[p]) = DOMAIN mem[p].commits
        /\ Typed(mem[p]) /\ Backed(mem[p])
        /\ TablesTyped /\ ProjectionIsBackedByLog
    BY <1>1, IdleFacts DEF Begins
  <1>3. Named(conflict_table)
    BY <1>2 DEF TablesTyped
  <1>4. PICK e \in Entities : e = conflict_table[i].entity
    BY <1>1, <1>3 DEF Named, Conflict
  <1>5. PICK row : row = [NoConflicts EXCEPT ![i] = conflict_table[i]]
    OBVIOUS
  <1>6. /\ Named(row) /\ row[i] = conflict_table[i]
        /\ \A j \in ConflictIds : j # i => row[j] = NoValue
    <2>1. row = RowOnly(i, conflict_table[i])
      BY <1>5 DEF RowOnly
    <2> QED
      BY <1>3, <2>1, OneRow
  <1>7. PICK l : l = Loaded(mem[p], e)
    OBVIOUS
  <1>8. /\ Typed(l) /\ Backed(l)
        /\ state_projection[e] # NoValue => l.states[e] = state_projection[e]
        /\ Extends(p, l)
    BY <1>2, <1>7, LoadedKeeps DEF Extends
  <1>9. PICK w : w = WithStoredConflicts(l, row)
    OBVIOUS
  <1>10. /\ Typed(w) /\ Backed(w) /\ w.states = l.states /\ w.commits = l.commits
         /\ \A j \in ConflictIds : row[j] # NoValue => w.conflicts[j] = row[j]
    BY <1>6, <1>8, <1>9, StoredConflictsKeep
  <1>11. w.conflicts[i] # NoValue
    BY <1>1, <1>6, <1>10
  <1>12. /\ FreshId \in 1..MaxCommits
         /\ {FreshId} \cap UsedIds = {} /\ FreshId \notin StoredIds
         /\ FreshId \notin DOMAIN mem[p].commits
    BY <1>1, BeginFacts
  <1>13. PICK c \in 1..MaxCommits : c = FreshId
    BY <1>12
  <1>14. PICK v : v = Resolve(w, i, value, c)
    OBVIOUS
  <1>15. c \notin DOMAIN w.commits /\ c \notin StoredIds
    BY <1>8, <1>10, <1>12, <1>13 DEF Extends
  <1>16. /\ Typed(v) /\ Backed(v) /\ v.seen = w.seen
         /\ v.conflicts[i] \in Conflict /\ v.conflicts[i].status = "resolved"
         /\ \A j \in ConflictIds : j # i => v.conflicts[j] = w.conflicts[j]
         /\ Pending(w) => Pending(v)
         /\ \A f \in Entities : w.states[f] # NoValue => v.states[f] # NoValue
         /\ \/ /\ v.states = w.states /\ v.commits = w.commits
               /\ v.latest = w.latest
            \/ /\ v.latest = c
               /\ w.states[w.conflicts[i].entity] # NoValue
               /\ v.states[w.conflicts[i].entity].commit = c
               /\ v.states[w.conflicts[i].entity].version =
                      NextVersion(w.states[w.conflicts[i].entity])
               /\ \A f \in Entities : f # w.conflicts[i].entity =>
                     v.states[f] = w.states[f]
               /\ DOMAIN v.commits = DOMAIN w.commits \cup {c}
               /\ v.commits[c].observations = SourceIds(w.conflicts[i], value)
               /\ v.commits[c].before =
                      ValuesOf(PreviousAttributes(w, w.conflicts[i].entity))
               /\ \A d \in DOMAIN w.commits : v.commits[d] = w.commits[d]
    BY <1>10, <1>11, <1>14, <1>15, ResolveKeeps
  <1>18. PICK conflicts : conflicts = [NoConflicts EXCEPT ![i] = v.conflicts[i]]
    OBVIOUS
  <1>19. /\ Named(conflicts) /\ conflicts[i] = v.conflicts[i]
         /\ \A j \in ConflictIds : j # i => conflicts[j] = NoValue
    <2>1. conflicts = RowOnly(i, v.conflicts[i]) /\ Named(v.conflicts)
      BY <1>16, <1>18 DEF RowOnly, Typed
    <2>2. conflicts[i] = v.conflicts[i]
      BY <1>18 DEF NoConflicts
    <2> QED
      BY <2>1, <2>2, OneRow
  <1>20. PICK save : save = IF state_projection[e] = NoValue
                            THEN [NoTx EXCEPT !.kind = "resolve"]
                            ELSE Storing("resolve", v, e, NoValue)
    OBVIOUS
  <1>21. save.conflicts = NoConflicts /\ DOMAIN save = DOMAIN NoTx
    BY <1>20 DEF Storing, NoTx
  <1>22. PICK t : t = [save EXCEPT !.conflicts = conflicts]
    OBVIOUS
  <1>23. /\ mem' = [mem EXCEPT ![p] = v]
         /\ tx' = [tx EXCEPT ![p] = [save EXCEPT !.conflicts[i] = v.conflicts[i]]]
    BY <1>4, <1>5, <1>7, <1>9, <1>13, <1>14, <1>20 DEF ApiResolve
  <1>24. Works(p, v, t)
    BY <1>1, <1>18, <1>21, <1>22, <1>23 DEF Works
  <1>25. /\ t \in Transaction /\ TxBacked(t) /\ IdsOf(v, t) = DOMAIN v.commits
         /\ t.kind = "resolve" /\ t.observation = NoValue /\ t.conflicts = conflicts
         /\ t.commit # NoValue =>
               /\ v.states[e].commit \notin StoredIds /\ state_projection[e] # NoValue
               /\ t.state = v.states[e] /\ t.commit.id = v.states[e].commit
               /\ t.commit.id \in DOMAIN v.commits
               /\ t.commit.record = v.commits[t.commit.id] /\ t.commit.record.entity = e
    <2>1. CASE state_projection[e] = NoValue
      <3>1. t = [kind |-> "resolve", observation |-> NoValue, commit |-> NoValue,
                 state |-> NoValue, conflicts |-> conflicts]
        BY <1>20, <1>22, <2>1 DEF NoTx
      <3> QED
        BY <1>19, <3>1 DEF Transaction, TxBacked, Named, IdsOf
    <2>2. CASE state_projection[e] # NoValue
      <3>1. v.states[e] # NoValue
        BY <1>8, <1>10, <1>16, <2>2
      <3>2. PICK kind \in {"ingest", "verify", "resolve", "read", "observe"} :
                kind = "resolve"
        OBVIOUS
      <3>3. PICK o \in Offered \cup {NoValue} : o = NoValue
        OBVIOUS
      <3>4. Stores(t, kind, v, e, o, conflicts)
        BY <1>20, <1>22, <2>2, <3>2, <3>3 DEF Stores
      <3>5. t \in Transaction /\ TxBacked(t) /\ Stored(t, kind, v, e, o, conflicts)
        BY <1>16, <1>19, <3>1, <3>4, StoringFacts
      <3> QED
        BY <2>2, <3>2, <3>3, <3>5 DEF Stored
    <2> QED
      BY <2>1, <2>2
  <1>26. w.conflicts[i] = row[i] /\ w.conflicts[i].entity = e
    BY <1>1, <1>4, <1>6, <1>10
  <1>27. DOMAIN w.commits \subseteq DOMAIN mem[p].commits \cup StoredIds
    BY <1>8, <1>10 DEF Extends
  <1>28. \/ /\ v.states = w.states /\ v.commits = w.commits /\ v.latest = w.latest
         \/ /\ v.latest = c /\ w.states[e] # NoValue /\ v.states[e].commit = c
            /\ v.states[e].version = NextVersion(w.states[e])
            /\ \A f \in Entities : f # e => v.states[f] = w.states[f]
            /\ DOMAIN v.commits = DOMAIN w.commits \cup {c}
            /\ v.commits[c].before = ValuesOf(PreviousAttributes(w, e))
    BY <1>16, <1>26
  <1>29. Resolution(p, i, e, row, w, c, v, t)
    <2>1. /\ e \in Entities /\ e = conflict_table[i].entity
          /\ Named(row) /\ row[i] = conflict_table[i]
          /\ \A j \in ConflictIds : j # i => row[j] = NoValue
          /\ w = WithStoredConflicts(Loaded(mem[p], e), row) /\ w.conflicts[i] = row[i]
          /\ \E x \in Values : v = Resolve(w, i, x, c)
      BY <1>4, <1>6, <1>7, <1>9, <1>14, <1>26
    <2>2. c \in 1..MaxCommits /\ {c} \cap UsedIds = {} /\ c \notin StoredIds
      BY <1>12, <1>13
    <2>3. /\ Works(p, v, t) /\ Typed(v) /\ Backed(v) /\ v.seen = w.seen
          /\ v.conflicts[i] \in Conflict /\ v.conflicts[i].status = "resolved"
          /\ \A j \in ConflictIds : j # i => v.conflicts[j] = w.conflicts[j]
          /\ Pending(w) => Pending(v)
          /\ \A f \in Entities : w.states[f] # NoValue => v.states[f] # NoValue
      BY <1>16, <1>24
    <2>4. /\ t.conflicts[i] = v.conflicts[i]
          /\ \A j \in ConflictIds : j # i => t.conflicts[j] = NoValue
      BY <1>19, <1>25
    <2> QED
      BY <1>25, <1>27, <1>28, <2>1, <2>2, <2>3, <2>4 DEF Resolution
  <1> QED
    BY <1>29

LEMMA ApiResolveEnds ==
    ASSUME Inv, NEW p \in Processes, NEW i \in ConflictIds, NEW value \in Values,
           ApiResolve(p, i, value)
    PROVE  Outcome(p)
  <1>1. PICK e, row, w, c, v, t : Resolution(p, i, e, row, w, c, v, t)
    BY ApiResolveFacts
  <1>2. tx[p].kind = "none"
    BY DEF ApiResolve, Begins
  <1>3. IdsOf(mem[p], tx[p]) = DOMAIN mem[p].commits
    BY <1>2, IdleFacts
  <1>4. Mints(p, v, t, {c})
    BY <1>1, <1>3 DEF Mints, Resolution
  <1>5. Works(p, v, t) /\ Typed(v) /\ Backed(v) /\ t \in Transaction /\ TxBacked(t)
    BY <1>1 DEF Resolution
  <1> QED
    BY <1>4, <1>5, WorkEnds

LEMMA ApiLookEnds ==
    ASSUME Inv, NEW p \in Processes, NEW e \in Entities, ApiLook(p, e)
    PROVE  Outcome(p)
  <1>1. tx[p].kind = "none" /\ state_projection[e] # NoValue /\ UNCHANGED <<tables, tx>>
    BY DEF ApiLook
  <1>2. /\ tx[p] = NoTx /\ tx = [tx EXCEPT ![p] = NoTx]
        /\ IdsOf(mem[p], tx[p]) = DOMAIN mem[p].commits
        /\ Typed(mem[p]) /\ Backed(mem[p])
        /\ TablesTyped /\ ProjectionIsBackedByLog
    BY <1>1, IdleFacts
  <1>3. PICK state \in EntityState : state = state_projection[e]
    BY <1>1, <1>2 DEF TablesTyped
  <1>4. state.commit \in StoredIds /\ StoredIds \subseteq 1..MaxCommits
    BY <1>1, <1>2, <1>3 DEF ProjectionIsBackedByLog, RowsFor, StoredIds, TablesTyped
  <1>5. PICK with_hash \in BOOLEAN : with_hash = FALSE
    OBVIOUS
  <1>6. PICK v : v = Hydrated(mem[p], e, state, with_hash)
    OBVIOUS
  <1>7. mem' = [mem EXCEPT ![p] = v]
    BY <1>3, <1>5, <1>6 DEF ApiLook, Inv
  <1>8. /\ Typed(v) /\ Backed(v)
        /\ DOMAIN v.commits \subseteq DOMAIN mem[p].commits \cup {state.commit}
    BY <1>2, <1>4, <1>6, HydratedKeeps
  <1>9. PICK t \in Transaction : t = NoTx
    BY EmptyFacts
  <1>10. TxBacked(t) /\ Works(p, v, t)
    BY <1>1, <1>2, <1>7, <1>9, EmptyFacts DEF Works
  <1>11. IdsOf(v, t) \subseteq IdsOf(mem[p], tx[p]) \cup StoredIds \cup {}
    BY <1>2, <1>4, <1>8, <1>9 DEF IdsOf, NoTx
  <1>12. Mints(p, v, t, {})
    BY <1>11 DEF Mints
  <1> QED
    BY <1>8, <1>10, <1>12, WorkEnds

\* The state that a command rebuilds is what is stored but for its connectors.
LEMMA RebuiltFacts ==
    ASSUME NEW stored \in EntityState, NEW state, state = Rebuilt(stored)
    PROVE  /\ state \in EntityState /\ state.commit = stored.commit
           /\ state.version = stored.version
           /\ \A n \in Attributes :
                 IF stored.attributes[n] = NoValue THEN state.attributes[n] = NoValue
                 ELSE /\ state.attributes[n] \in Attribute
                      /\ state.attributes[n].source = stored.attributes[n].source
  <1> DEFINE attributes == [n \in Attributes |->
                 IF stored.attributes[n] = NoValue THEN NoValue
                 ELSE [stored.attributes[n] EXCEPT !.connector = NoValue]]
  <1>1. state = [stored EXCEPT !.attributes = attributes]
    BY DEF Rebuilt
  <1>2. ASSUME NEW n \in Attributes, stored.attributes[n] # NoValue
        PROVE  /\ attributes[n] \in Attribute
               /\ attributes[n].source = stored.attributes[n].source
    <2>1. stored.attributes[n] \in Attribute
      BY <1>2 DEF EntityState, AttributeMap
    <2>2. attributes[n] = [stored.attributes[n] EXCEPT !.connector = NoValue]
      BY <1>2
    <2> QED
      BY <2>1, <2>2 DEF Attribute
  <1>3. attributes \in AttributeMap
    BY <1>2 DEF AttributeMap
  <1>4. \A n \in Attributes : stored.attributes[n] = NoValue => attributes[n] = NoValue
    OBVIOUS
  <1> HIDE DEF attributes
  <1>5. /\ state \in EntityState /\ state.commit = stored.commit
        /\ state.version = stored.version /\ state.attributes = attributes
    BY <1>1, <1>3 DEF EntityState
  <1> QED
    BY <1>2, <1>4, <1>5

\* What a command loads: the stored state without its connectors, or nothing.
LEMMA CommandLoads ==
    ASSUME TablesTyped, ProjectionIsBackedByLog, NEW e \in Entities,
           NEW w, w = LoadedByCommand(e)
    PROVE  /\ Typed(w) /\ Backed(w) /\ KnowsHead(w) /\ Pending(w)
           /\ w.seen = {} /\ w.conflicts = NoConflicts
           /\ DOMAIN w.commits \subseteq StoredIds
           /\ \A d \in DOMAIN w.commits : w.commits[d].observations = {}
           /\ \A f \in Entities : f # e => w.states[f] = NoValue
           /\ state_projection[e] = NoValue => w.states[e] = NoValue
           /\ state_projection[e] # NoValue =>
                 w.states[e] = Rebuilt(state_projection[e])
  <1>1. PICK empty : empty = EmptyService
    OBVIOUS
  <1>2. /\ Typed(empty) /\ Backed(empty) /\ DOMAIN empty.commits = {}
        /\ empty.seen = {} /\ empty.latest = NoValue /\ empty.conflicts = NoConflicts
        /\ \A f \in Entities : empty.states[f] = NoValue
        /\ \A k \in Entities \X Attributes : empty.open[k] = NoValue
    BY <1>1, EmptyFacts DEF IdsOf, EmptyService, NoConflicts
  <1>3. CASE state_projection[e] = NoValue
    <2>1. w = empty
      BY <1>1, <1>3 DEF LoadedByCommand
    <2> QED
      BY <1>2, <1>3, <2>1 DEF KnowsHead, Pending
  <1>4. CASE state_projection[e] # NoValue
    <2>1. PICK stored \in EntityState : stored = state_projection[e]
      BY <1>4 DEF TablesTyped
    <2>2. PICK state : state = Rebuilt(stored)
      OBVIOUS
    <2>3. state \in EntityState /\ state.commit = stored.commit
      BY <2>2, RebuiltFacts
    <2>4. stored.commit \in StoredIds /\ StoredIds \subseteq 1..MaxCommits
      BY <1>4, <2>1 DEF ProjectionIsBackedByLog, RowsFor, StoredIds, TablesTyped
    <2>5. PICK with_hash \in BOOLEAN : with_hash = TRUE
      OBVIOUS
    <2>6. w = Hydrated(empty, e, state, with_hash)
      BY <1>1, <1>4, <2>1, <2>2, <2>4, <2>5 DEF LoadedByCommand
    <2>7. /\ Typed(w) /\ Backed(w) /\ w.states[e] = state
          /\ w.seen = empty.seen /\ w.conflicts = empty.conflicts /\ w.open = empty.open
          /\ \A f \in Entities : f # e => w.states[f] = empty.states[f]
          /\ DOMAIN w.commits \subseteq DOMAIN empty.commits \cup {state.commit}
          /\ \A d \in DOMAIN w.commits :
                \/ d \in DOMAIN empty.commits /\ w.commits[d] = empty.commits[d]
                \/ d = state.commit /\ w.commits[d].observations = {}
          /\ w.latest \in {empty.latest, state.commit} /\ w.latest # NoValue
          /\ with_hash => state.commit \in DOMAIN w.commits
      BY <1>2, <2>3, <2>4, <2>6, HydratedKeeps
    <2>8. KnowsHead(w) /\ Pending(w)
      BY <1>2, <2>5, <2>7 DEF KnowsHead, Pending
    <2> QED
      BY <1>2, <1>4, <2>1, <2>2, <2>3, <2>4, <2>7, <2>8
  <1> QED
    BY <1>3, <1>4

LEMMA ObserveCommandEnds ==
    ASSUME Inv, NEW p \in Processes, NEW o \in Offered, ObserveCommand(p, o)
    PROVE  Outcome(p)
  <1>1. Begins(p) /\ UNCHANGED <<tables, mem>>
    BY DEF ObserveCommand
  <1>2. /\ IdsOf(mem[p], tx[p]) = DOMAIN mem[p].commits
        /\ Typed(mem[p]) /\ Backed(mem[p])
        /\ TablesTyped /\ ProjectionIsBackedByLog
    BY <1>1, IdleFacts DEF Begins
  <1>3. PICK e \in Entities : e = o.entity
    BY CompilerAssumption DEF Observation
  <1>6. PICK w : w = LoadedByCommand(e)
    OBVIOUS
  <1>7. Typed(w) /\ Backed(w) /\ DOMAIN w.commits \subseteq StoredIds
    BY <1>2, <1>6, CommandLoads
  <1>8. /\ FreshId \in 1..MaxCommits
        /\ {FreshId} \cap UsedIds = {} /\ FreshId \notin StoredIds
    BY <1>1, BeginFacts
  <1>9. PICK c \in 1..MaxCommits : c = FreshId
    BY <1>8
  <1>10. PICK v : v = Ingest(w, o, c)
    OBVIOUS
  <1>11. PICK kind \in {"ingest", "verify", "resolve", "read", "observe"} :
             kind = "observe"
    OBVIOUS
  <1>12. PICK t : t = Storing(kind, v, e, o)
    OBVIOUS
  <1>13. ~Raises(w, o) /\ tx' = [tx EXCEPT ![p] = t]
    BY <1>3, <1>6, <1>9, <1>10, <1>11, <1>12 DEF ObserveCommand
  <1>14. /\ Typed(v) /\ Backed(v)
         /\ ~Raises(w, o) => v.states[o.entity] # NoValue
         /\ DOMAIN v.commits \subseteq DOMAIN w.commits \cup {c}
    BY <1>7, <1>8, <1>9, <1>10, <1>13, CompiledKeeps
  <1>15. PICK conflicts : conflicts = NoConflicts
    OBVIOUS
  <1>16. /\ Named(conflicts) /\ o \in Offered \cup {NoValue} /\ v.states[e] # NoValue
         /\ Stores(t, kind, v, e, o, conflicts)
    BY <1>3, <1>12, <1>13, <1>14, <1>15, EmptyFacts DEF Stores
  <1>17. /\ t \in Transaction /\ TxBacked(t) /\ t.kind = kind /\ t.observation = o
         /\ t.commit # NoValue =>
               /\ t.state = v.states[e] /\ t.commit.id = v.states[e].commit
               /\ t.commit.id \in DOMAIN v.commits
               /\ t.commit.record = v.commits[t.commit.id]
               /\ t.commit.record.entity = e
    <2>1. t \in Transaction /\ TxBacked(t) /\ Stored(t, kind, v, e, o, conflicts)
      BY <1>14, <1>16, StoringFacts
    <2> QED
      BY <2>1 DEF Stored
  <1>18. PICK u : u = mem[p]
    OBVIOUS
  <1>19. mem' = [mem EXCEPT ![p] = u]
    BY <1>1, <1>18 DEF Inv
  <1>20. IdsOf(u, t) \subseteq IdsOf(mem[p], tx[p]) \cup StoredIds \cup {c}
    BY <1>2, <1>7, <1>14, <1>17, <1>18 DEF IdsOf
  <1>21. Works(p, u, t) /\ Mints(p, u, t, {c})
    BY <1>1, <1>8, <1>9, <1>13, <1>19, <1>20 DEF Works, Mints
  <1>22. Typed(u) /\ Backed(u)
    BY <1>2, <1>18
  <1> QED
    BY <1>17, <1>21, <1>22, WorkEnds

LEMMA RollbackKeeps ==
    ASSUME Inv, NEW p \in Processes, Rollback(p)
    PROVE  Inv'
  <1>1. UNCHANGED <<tables, mem>> /\ tx' = [tx EXCEPT ![p] = NoTx]
    BY DEF Rollback, Ends
  <1>2. PICK t \in Transaction : t = NoTx
    BY EmptyFacts
  <1>3. PICK u : u = mem[p]
    OBVIOUS
  <1>4. mem' = [mem EXCEPT ![p] = u] /\ Typed(u) /\ Backed(u) /\ TxBacked(t)
    BY <1>1, <1>2, <1>3, EmptyFacts DEF Inv
  <1>5. IdsOf(u, t) \subseteq IdsOf(mem[p], tx[p]) \cup StoredIds \cup {}
    BY <1>2, <1>3 DEF IdsOf, NoTx
  <1>6. Works(p, u, t) /\ Mints(p, u, t, {})
    BY <1>1, <1>2, <1>4, <1>5 DEF Works, Mints
  <1> QED
    BY <1>4, <1>6, WorkKeeps

LEMMA RestartEnds ==
    ASSUME Inv, NEW p \in Processes, Restart(p)
    PROVE  Outcome(p)
  <1>1. /\ UNCHANGED tables /\ mem' = [mem EXCEPT ![p] = EmptyService]
        /\ tx' = [tx EXCEPT ![p] = NoTx]
    BY DEF Restart
  <1>2. PICK t \in Transaction : t = NoTx
    BY EmptyFacts
  <1>3. PICK u : u = EmptyService
    OBVIOUS
  <1>4. Typed(u) /\ Backed(u) /\ TxBacked(t) /\ IdsOf(u, t) = {}
    BY <1>2, <1>3, EmptyFacts
  <1>5. Works(p, u, t) /\ Mints(p, u, t, {})
    BY <1>1, <1>2, <1>3, <1>4 DEF Works, Mints
  <1> QED
    BY <1>4, <1>5, WorkEnds

\* Store, for a transaction without a commit and for one with.
LEMMA StoreFacts ==
    ASSUME Inv, NEW p \in Processes, Store(p)
    PROVE  /\ tx[p].kind # "none"
           /\ commit_log' \in Seq(Row)
           /\ \A i \in DOMAIN commit_log :
                 i \in DOMAIN commit_log' /\ commit_log'[i] = commit_log[i]
           /\ tx[p].commit = NoValue =>
                 /\ commit_log' = commit_log /\ state_projection' = state_projection
                 /\ StoredIds' = StoredIds
           /\ tx[p].commit # NoValue =>
                 /\ tx[p].commit \in Row /\ tx[p].state \in EntityState
                 /\ Len(commit_log') = Len(commit_log) + 1
                 /\ commit_log'[Len(commit_log) + 1] = tx[p].commit
                 /\ Len(commit_log) + 1 \in DOMAIN commit_log'
                 /\ state_projection' = [state_projection EXCEPT
                        ![tx[p].commit.record.entity] = tx[p].state]
                 /\ StoredIds' = StoredIds \cup {tx[p].commit.id}
  <1>1. PICK t \in Transaction : t = tx[p]
    BY DEF Inv
  <1>2. TxBacked(t) /\ commit_log \in Seq(Row)
    BY <1>1 DEF Inv, TablesTyped
  <1>3. /\ t.kind # "none"
        /\ commit_log' = IF t.commit = NoValue THEN commit_log
                         ELSE Append(commit_log, t.commit)
        /\ state_projection' = IF t.state = NoValue THEN state_projection
               ELSE [state_projection EXCEPT ![t.commit.record.entity] = t.state]
    BY <1>1 DEF Store, Ends, Appends, Projects
  <1>4. t.commit \in Row \cup {NoValue} /\ t.state \in EntityState \cup {NoValue}
    BY DEF Transaction
  <1>5. CASE t.commit = NoValue
    <2>1. t.state = NoValue
      BY <1>2, <1>5 DEF TxBacked
    <2>2. commit_log' = commit_log /\ state_projection' = state_projection
      BY <1>3, <1>5, <2>1
    <2>3. StoredIds' = StoredIds
      BY <2>2 DEF StoredIds
    <2> QED
      BY <1>1, <1>2, <1>3, <1>5, <2>2, <2>3
  <1>6. CASE t.commit # NoValue
    <2>1. t.commit \in Row /\ t.state \in EntityState /\ t.state # NoValue
      BY <1>2, <1>4, <1>6 DEF TxBacked
    <2>2. commit_log' = Append(commit_log, t.commit)
      BY <1>3, <1>6
    <2>3. /\ commit_log' \in Seq(Row)
          /\ Len(commit_log') = Len(commit_log) + 1
          /\ commit_log'[Len(commit_log) + 1] = t.commit
          /\ DOMAIN commit_log = 1..Len(commit_log)
          /\ DOMAIN commit_log' = 1..(Len(commit_log) + 1)
          /\ \A i \in 1..Len(commit_log) : commit_log'[i] = commit_log[i]
          /\ Len(commit_log) \in Nat
      BY <1>2, <2>1, <2>2
    <2>4. DOMAIN commit_log' = DOMAIN commit_log \cup {Len(commit_log) + 1}
      BY <2>3
    <2>5. StoredIds' = StoredIds \cup {t.commit.id}
      BY <2>3, <2>4 DEF StoredIds
    <2> QED
      BY <1>1, <1>3, <1>6, <2>1, <2>3, <2>4, <2>5
  <1> QED
    BY <1>5, <1>6

LEMMA StoreKeeps ==
    ASSUME Inv, NEW p \in Processes, Store(p)
    PROVE  Inv'
  <1>1. PICK t \in Transaction : t = tx[p]
    BY DEF Inv
  <1>2. /\ TxBacked(t) /\ TablesTyped /\ ProjectionIsBackedByLog
        /\ tx \in [Processes -> Transaction]
    BY <1>1 DEF Inv
  <1>3. /\ t.kind # "none"
        /\ commit_log' \in Seq(Row)
        /\ \A i \in DOMAIN commit_log :
              i \in DOMAIN commit_log' /\ commit_log'[i] = commit_log[i]
        /\ t.commit = NoValue =>
              /\ commit_log' = commit_log /\ state_projection' = state_projection
              /\ StoredIds' = StoredIds
        /\ t.commit # NoValue =>
              /\ t.commit \in Row /\ t.state \in EntityState
              /\ Len(commit_log') = Len(commit_log) + 1
              /\ commit_log'[Len(commit_log) + 1] = t.commit
              /\ Len(commit_log) + 1 \in DOMAIN commit_log'
              /\ state_projection' = [state_projection EXCEPT
                     ![t.commit.record.entity] = t.state]
              /\ StoredIds' = StoredIds \cup {t.commit.id}
    BY <1>1, StoreFacts
  <1>4. /\ observation_log' = IF t.observation = NoValue THEN observation_log
                              ELSE observation_log \cup {t.observation.id}
        /\ conflict_table' = [i \in ConflictIds |->
               IF t.conflicts[i] = NoValue THEN conflict_table[i] ELSE t.conflicts[i]]
        /\ tx' = [tx EXCEPT ![p] = NoTx] /\ mem' = mem
    BY <1>1 DEF Store, Ends, Logs, SavesConflicts
  <1>5. StoredIds \subseteq StoredIds'
    BY <1>3
  <1>6. TablesTyped'
    <2>1. observation_log' \subseteq ObservationIds
      BY <1>2, <1>4, CompilerAssumption DEF TablesTyped, Transaction, Observation
    <2>2. state_projection' \in [Entities -> EntityState \cup {NoValue}]
      BY <1>2, <1>3 DEF TablesTyped
    <2>3. Named(conflict_table')
      BY <1>2, <1>4 DEF TablesTyped, TxBacked, Named
    <2>4. Named(conflict_table)'
      BY <2>3 DEF Named
    <2>5. /\ StoredIds' \subseteq 1..MaxCommits
          /\ IsFiniteSet(StoredIds') /\ Cardinality(StoredIds') = Len(commit_log')
      <3>1. CASE t.commit = NoValue
        BY <1>2, <1>3, <3>1 DEF TablesTyped
      <3>2. CASE t.commit # NoValue
        <4>1. t.commit.id \in 1..MaxCommits \ StoredIds
          BY <1>2, <3>2 DEF TxBacked
        <4>2. StoredIds' = StoredIds \cup {t.commit.id}
          BY <1>3, <3>2
        <4>3. IsFiniteSet(StoredIds) /\ StoredIds \subseteq 1..MaxCommits
          BY <1>2 DEF TablesTyped
        <4>4. /\ IsFiniteSet(StoredIds \cup {t.commit.id})
              /\ Cardinality(StoredIds \cup {t.commit.id}) = Cardinality(StoredIds) + 1
          BY <4>1, <4>3, FS_AddElement
        <4> QED
          BY <1>2, <1>3, <3>2, <4>1, <4>2, <4>3, <4>4 DEF TablesTyped
      <3> QED
        BY <3>1, <3>2
    <2> QED
      BY <1>3, <2>1, <2>2, <2>4, <2>5 DEF TablesTyped
  <1>7. ProjectionIsBackedByLog'
    <2>1. ASSUME NEW e \in Entities, state_projection[e] # NoValue,
                 state_projection'[e] = state_projection[e]
          PROVE  \E i \in DOMAIN commit_log' :
                    /\ commit_log'[i].record.entity = e
                    /\ commit_log'[i].id = state_projection'[e].commit
                    /\ commit_log'[i].record.after =
                           ValuesOf(state_projection'[e].attributes)
      <3>1. PICK i \in DOMAIN commit_log :
                /\ commit_log[i].record.entity = e
                /\ commit_log[i].id = state_projection[e].commit
                /\ commit_log[i].record.after = ValuesOf(state_projection[e].attributes)
        BY <1>2, <2>1 DEF ProjectionIsBackedByLog, RowsFor
      <3> QED
        BY <1>3, <2>1, <3>1
    <2>2. ASSUME t.commit # NoValue, NEW e \in Entities, e = t.commit.record.entity
          PROVE  \E i \in DOMAIN commit_log' :
                    /\ commit_log'[i].record.entity = e
                    /\ commit_log'[i].id = state_projection'[e].commit
                    /\ commit_log'[i].record.after =
                           ValuesOf(state_projection'[e].attributes)
      <3>1. t.commit.id = t.state.commit
            /\ t.commit.record.after = ValuesOf(t.state.attributes)
        BY <1>2, <2>2 DEF TxBacked
      <3>2. state_projection'[e] = t.state
        BY <1>2, <1>3, <2>2 DEF TablesTyped
      <3> QED
        BY <1>3, <2>2, <3>1, <3>2
    <2>3. ASSUME NEW e \in Entities, state_projection'[e] # NoValue
          PROVE  \/ state_projection[e] # NoValue
                    /\ state_projection'[e] = state_projection[e]
                 \/ t.commit # NoValue /\ e = t.commit.record.entity
      BY <1>2, <1>3, <2>3 DEF TablesTyped
    <2>4. \A e \in Entities : state_projection'[e] # NoValue =>
              \E i \in DOMAIN commit_log' :
                    /\ commit_log'[i].record.entity = e
                    /\ commit_log'[i].id = state_projection'[e].commit
                    /\ commit_log'[i].record.after =
                           ValuesOf(state_projection'[e].attributes)
      BY <2>1, <2>2, <2>3
    <2> QED
      BY <2>4 DEF ProjectionIsBackedByLog, RowsFor
  <1>8. /\ tx'[p] = NoTx
        /\ \A q \in Processes : q # p => tx'[q] = tx[q]
        /\ tx' \in [Processes -> Transaction]
    BY <1>2, <1>4, EmptyFacts
  <1>9. ASSUME NEW q \in Processes
        PROVE  (Typed(mem[q]) /\ Backed(mem[q]) /\ TxBacked(tx[q]))'
    <2>1. Typed(mem[q]) /\ Backed(mem[q]) /\ TxBacked(tx[q])
      BY DEF Inv
    <2>2. Typed(mem[q])'
      BY <1>4, <2>1
    <2>3. Backed(mem[q])'
      BY <1>4, <1>5, <2>1 DEF Backed
    <2>4. TxBacked(tx[q])'
      <3>1. CASE q = p
        BY <1>8, <3>1, EmptyFacts DEF TxBacked, NoTx
      <3>2. CASE q # p
        <4>1. ASSUME tx[q].commit # NoValue, t.commit # NoValue,
                     tx[q].commit.id = t.commit.id
              PROVE  FALSE
          <5>1. IdsOf(mem[p], tx[p]) \cap IdsOf(mem[q], tx[q]) \subseteq StoredIds
            BY <3>2 DEF Inv
          <5>2. t.commit.id \in StoredIds
            BY <1>1, <4>1, <5>1 DEF IdsOf
          <5> QED
            BY <1>2, <4>1, <5>2 DEF TxBacked
        <4>2. tx[q].commit # NoValue => tx[q].commit.id \notin StoredIds'
          BY <1>3, <2>1, <4>1 DEF TxBacked
        <4> QED
          BY <1>8, <2>1, <3>2, <4>2 DEF TxBacked
      <3> QED
        BY <3>1, <3>2
    <2> QED
      BY <2>2, <2>3, <2>4
  <1>10. \A q, r \in Processes : q # r =>
             (IdsOf(mem[q], tx[q]) \cap IdsOf(mem[r], tx[r]) \subseteq StoredIds)'
    <2>1. \A q \in Processes : IdsOf(mem'[q], tx'[q]) \subseteq IdsOf(mem[q], tx[q])
      BY <1>4, <1>8 DEF IdsOf, NoTx
    <2>2. \A q, r \in Processes : q # r =>
              IdsOf(mem[q], tx[q]) \cap IdsOf(mem[r], tx[r]) \subseteq StoredIds
      BY DEF Inv
    <2>3. \A q, r \in Processes : q # r =>
              IdsOf(mem'[q], tx'[q]) \cap IdsOf(mem'[r], tx'[r]) \subseteq StoredIds'
      BY <1>5, <2>1, <2>2
    <2> QED
      BY <2>3 DEF IdsOf
  <1> QED
    BY <1>4, <1>6, <1>7, <1>8, <1>9, <1>10 DEF Inv

LEMMA InitKeeps ==
    ASSUME Init
    PROVE  Inv
  <1>1. /\ observation_log = {} /\ state_projection = [e \in Entities |-> NoValue]
        /\ commit_log = <<>> /\ conflict_table = NoConflicts
        /\ mem = [p \in Processes |-> EmptyService]
        /\ tx = [p \in Processes |-> NoTx]
    BY DEF Init
  <1>2. StoredIds = {}
    BY <1>1 DEF StoredIds
  <1>3. TablesTyped
    <2>1. IsFiniteSet(StoredIds) /\ Cardinality(StoredIds) = 0
      BY <1>2, FS_EmptySet
    <2>2. commit_log \in Seq(Row) /\ Len(commit_log) = 0
      BY <1>1
    <2> QED
      BY <1>1, <1>2, <2>1, <2>2, EmptyFacts DEF TablesTyped
  <1>4. ProjectionIsBackedByLog
    BY <1>1 DEF ProjectionIsBackedByLog
  <1>5. \A p \in Processes : mem[p] = EmptyService /\ tx[p] = NoTx
    BY <1>1
  <1>6. mem = [p \in Processes |-> mem[p]] /\ tx \in [Processes -> Transaction]
    BY <1>1, EmptyFacts
  <1> QED
    BY <1>3, <1>4, <1>5, <1>6, EmptyFacts DEF Inv

\* What a step of the system is.
Step(p) == Outcome(p) \/ Store(p) \/ Rollback(p)

LEMMA StepFacts ==
    ASSUME Inv, [Next]_vars
    PROVE  UNCHANGED vars \/ \E p \in Processes : Step(p)
  <1>1. Apis \cup Workers \cup Commands = Processes
    BY DEF Processes
  <1>2. ASSUME NEW p \in Apis, NEW o \in Offered, ApiIngest(p, o) \/ ApiVerify(p, o)
        PROVE  p \in Processes /\ Step(p)
    BY <1>1, <1>2, ApiIngestEnds, ApiVerifyEnds DEF Step
  <1>3. ASSUME NEW p \in Apis, NEW i \in ConflictIds, NEW value \in Values,
               ApiResolve(p, i, value)
        PROVE  p \in Processes /\ Step(p)
    BY <1>1, <1>3, ApiResolveEnds DEF Step
  <1>4. ASSUME NEW p \in Apis, NEW e \in Entities, ApiLook(p, e)
        PROVE  p \in Processes /\ Step(p)
    BY <1>1, <1>4, ApiLookEnds DEF Step
  <1>5. ASSUME NEW p \in Workers, NEW o \in Offered, WorkerRead(p, o)
        PROVE  p \in Processes /\ Step(p)
    BY <1>1, <1>5, WorkerReadEnds DEF Step
  <1>6. ASSUME NEW p \in Commands, NEW o \in Offered, ObserveCommand(p, o)
        PROVE  p \in Processes /\ Step(p)
    BY <1>1, <1>6, ObserveCommandEnds DEF Step
  <1>7. ASSUME NEW p \in Processes, Store(p) \/ Rollback(p) \/ Restart(p)
        PROVE  Step(p)
    BY <1>7, RestartEnds DEF Step
  <1> QED
    BY <1>2, <1>3, <1>4, <1>5, <1>6, <1>7, Zenon DEF Next

LEMMA NextKeeps ==
    ASSUME Inv, [Next]_vars
    PROVE  Inv'
  <1>1. UNCHANGED vars \/ \E p \in Processes : Step(p)
    BY StepFacts
  <1>2. ASSUME NEW p \in Processes, Step(p)
        PROVE  Inv'
    BY <1>2, OutcomeKeeps, StoreKeeps, RollbackKeeps DEF Step
  <1>8. CASE UNCHANGED vars
    <2>1. mem' = mem /\ tx' = tx /\ UNCHANGED tables
      BY <1>8 DEF vars, tables
    <2>2. StoredIds' = StoredIds
      BY <2>1 DEF tables, StoredIds
    <2>3. TablesTyped' /\ ProjectionIsBackedByLog'
      BY <2>1, <2>2 DEF Inv, tables, TablesTyped, ProjectionIsBackedByLog, RowsFor, Named
    <2>4. \A p \in Processes : (Typed(mem[p]) /\ Backed(mem[p]) /\ TxBacked(tx[p]))'
      BY <2>1, <2>2 DEF Inv, Backed, TxBacked
    <2>5. (\A p, q \in Processes : p # q =>
              IdsOf(mem[p], tx[p]) \cap IdsOf(mem[q], tx[q]) \subseteq StoredIds)'
      BY <2>1, <2>2 DEF Inv, IdsOf
    <2> QED
      BY <2>1, <2>3, <2>4, <2>5 DEF Inv
  <1> QED
    BY <1>1, <1>2, <1>8

LEMMA InvHolds == Spec => []Inv
  <1>1. Init => Inv
    BY InitKeeps
  <1>2. Inv /\ [Next]_vars => Inv'
    BY NextKeeps
  <1> QED
    BY <1>1, <1>2, PTL DEF Spec

\* The tables hold rows of their kind and no commit id twice, whatever the
\* processes do at the same time (db/repositories.py:33-155).
THEOREM TypesHold == Spec => []TypeOK
  <1>1. Inv => TypeOK
    <2> SUFFICES ASSUME Inv PROVE TypeOK
      OBVIOUS
    <2>1. TablesTyped /\ tx \in [Processes -> Transaction]
      BY DEF Inv
    <2>2. \A i \in DOMAIN commit_log :
             commit_log[i].id \in CommitIds /\ commit_log[i].record \in Commit
      <3>1. \A i \in DOMAIN commit_log : commit_log[i] \in Row
        BY <2>1 DEF TablesTyped
      <3> QED
        BY <3>1 DEF Row
    <2>3. \A p \in Processes :
             /\ mem[p].states \in [Entities -> EntityState \cup {NoValue}]
             /\ mem[p].conflicts \in [ConflictIds -> Conflict \cup {NoValue}]
             /\ \A c \in DOMAIN mem[p].commits : mem[p].commits[c] \in Commit
      BY DEF Inv, Typed, Named
    <2> QED
      BY <2>1, <2>2, <2>3 DEF TypeOK, TablesTyped, Named
  <1> QED
    BY <1>1, InvHolds, PTL

\* Whatever the processes store, lose or forget, the projection of an entity
\* is what one of the stored commits left (world_state/persistence.py:25-71).
THEOREM ProjectionsAreBacked == Spec => []ProjectionIsBackedByLog
  <1>1. Inv => ProjectionIsBackedByLog
    BY DEF Inv
  <1> QED
    BY <1>1, InvHolds, PTL

-----------------------------------------------------------------------------
(* What an observation leaves: each of its values is in the state of its   *)
(* entity or in an open dispute.                                           *)

\* The observation's value of attribute n is among the sides of the conflict.
Sides(conflict, o, n) ==
    \E k \in DOMAIN conflict.candidates :
        /\ conflict.candidates[k].value = o.payload[n]
        /\ conflict.candidates[k].connector = o.connector

\* Attribute n of the entity is disputed, and the observation is a side.
Disputes(conflicts, o, n) ==
    \E i \in ConflictIds :
        /\ conflicts[i] # NoValue
        /\ conflicts[i].entity = o.entity /\ conflicts[i].attribute = n
        /\ conflicts[i].status = "open"
        /\ Sides(conflicts[i], o, n)

\* The conflict gains or opens a dispute with what the observation says.
LEMMA JoinedFacts ==
    ASSUME NEW w, NEW i, w.conflicts[i] \in Conflict, NEW o \in Observation,
           NEW n \in Attributes, w.conflicts[i].attribute = n,
           CandidateOf(Incoming(o, n)) \in Candidate, NEW x, x = JoinedConflict(w, o, i)
    PROVE  /\ x \in Conflict /\ x.entity = w.conflicts[i].entity
           /\ x.attribute = n /\ x.status = w.conflicts[i].status
           /\ Sides(x, o, n)
           /\ \A k \in DOMAIN x.candidates :
                 \/ x.candidates[k].observation = o.id
                 \/ /\ k \in DOMAIN w.conflicts[i].candidates
                    /\ x.candidates[k] = w.conflicts[i].candidates[k]
  <1> DEFINE rival == CandidateOf(Incoming(o, n))
             old == w.conflicts[i].candidates
  <1>1. /\ rival.value = o.payload[n] /\ rival.connector = o.connector
        /\ rival.observation = o.id
    BY DEF CandidateOf, Incoming
  <1>2. old \in Seq(Candidate) \ {<<>>} /\ rival \in Candidate
    BY DEF Conflict
  <1>3. PICK list : /\ x = [w.conflicts[i] EXCEPT !.candidates = list]
                    /\ \/ list = old /\ AlreadySeen(w.conflicts[i], rival)
                       \/ list = Append(old, rival)
    BY DEF JoinedConflict
  <1>4. list \in Seq(Candidate) \ {<<>>}
    BY <1>2, <1>3, CandidateLists
  <1>5. /\ x \in Conflict /\ x.entity = w.conflicts[i].entity
        /\ x.attribute = n /\ x.status = w.conflicts[i].status /\ x.candidates = list
    BY <1>3, <1>4 DEF Conflict
  <1>6. /\ \E k \in DOMAIN list :
              list[k].value = rival.value /\ list[k].connector = rival.connector
        /\ \A k \in DOMAIN list :
              \/ list[k] = rival
              \/ k \in DOMAIN old /\ list[k] = old[k]
    <2>1. CASE list = old /\ AlreadySeen(w.conflicts[i], rival)
      BY <2>1 DEF AlreadySeen
    <2>2. CASE list = Append(old, rival)
      <3> HIDE DEF rival, old
      <3>1. /\ Len(old) \in Nat /\ DOMAIN list = 1..(Len(old) + 1)
            /\ DOMAIN old = 1..Len(old) /\ list[Len(old) + 1] = rival
            /\ \A k \in 1..Len(old) : list[k] = old[k]
        BY <1>2, <2>2
      <3>2. /\ Len(old) + 1 \in DOMAIN list
            /\ \A k \in DOMAIN list : k = Len(old) + 1 \/ k \in 1..Len(old)
        BY <3>1
      <3> QED
        BY <3>1, <3>2
    <2> QED
      BY <1>3, <2>1, <2>2
  <1> HIDE DEF rival, old
  <1>7. Sides(x, o, n)
    BY <1>1, <1>5, <1>6 DEF Sides
  <1>8. \A k \in DOMAIN list :
           \/ list[k].observation = o.id
           \/ k \in DOMAIN old /\ list[k] = old[k]
    BY <1>1, <1>6
  <1> QED
    BY <1>5, <1>7, <1>8 DEF old

LEMMA NewConflictFacts ==
    ASSUME NEW w, Typed(w), NEW o \in Observation, NEW n \in Disputed(w, o),
           NEW x, x = NewConflict(w, o, n)
    PROVE  /\ x \in Conflict /\ x # NoValue /\ x.entity = o.entity
           /\ x.attribute = n /\ x.status = "open" /\ Sides(x, o, n)
           /\ \A k \in DOMAIN x.candidates :
                 x.candidates[k].observation \in
                     {o.id, PreviousAttributes(w, o.entity)[n].source}
  <1> DEFINE first == CandidateOf(PreviousAttributes(w, o.entity)[n])
             rival == CandidateOf(Incoming(o, n))
             list == <<first, rival>>
  <1>1. /\ rival.value = o.payload[n] /\ rival.connector = o.connector
        /\ rival.observation = o.id
        /\ first.observation = PreviousAttributes(w, o.entity)[n].source
    BY DEF CandidateOf, Incoming
  <1>2. n \in Attributes /\ first \in Candidate /\ rival \in Candidate
    BY DisputeFacts
  <1> HIDE DEF first, rival
  <1>3. list \in Seq(Candidate) \ {<<>>}
    BY <1>2, CandidateLists
  <1>4. DOMAIN list = {1, 2} /\ list[1] = first /\ list[2] = rival
    OBVIOUS
  <1> HIDE DEF list
  <1>5. x = [entity |-> o.entity, attribute |-> n, candidates |-> list,
             status |-> "open", resolved_value |-> NoValue]
    BY DEF NewConflict, list, first, rival
  <1>6. x \in Conflict
    BY <1>2, <1>3, <1>5 DEF Conflict, Observation
  <1> QED
    BY <1>1, <1>4, <1>5, <1>6, NoValueAssumption DEF Sides

\* A fresh value of another connector is in place still.
Stays(old, new, connector) ==
    FreshOfAnother(old, connector) => new # NoValue /\ new.value = old.value

\* Whose observations the attributes, and the conflicts, go back to.
SourcesIn(attributes, ids) ==
    \A n \in Attributes : attributes[n] # NoValue => attributes[n].source \in ids

CandidatesIn(conflicts, ids) ==
    \A i \in ConflictIds : conflicts[i] # NoValue =>
        \A k \in DOMAIN conflicts[i].candidates :
            conflicts[i].candidates[k].observation \in ids

\* What noting an observation does to the conflicts: a dispute is opened under
\* its name or joined, and what is resolved stays as it is.
LEMMA NotedFacts ==
    ASSUME NEW w, Typed(w), Backed(w), Pending(w), NEW o \in Offered,
           NEW v, v = Noted(w, o)
    PROVE  /\ Pending(v)
           /\ \A i \in ConflictIds :
                 v.conflicts[i] # NoValue => w.conflicts[i] # NoValue \/ i[1] = o.id
           /\ \A i \in ConflictIds :
                 /\ w.conflicts[i] # NoValue /\ w.conflicts[i].status = "resolved"
                 /\ i[1] # o.id
                 => v.conflicts[i] = w.conflicts[i]
           /\ \A n \in Disputed(w, o) : Disputes(v.conflicts, o, n)
           /\ \A ids :
                 /\ CandidatesIn(w.conflicts, ids)
                 /\ w.states[o.entity] # NoValue =>
                        SourcesIn(w.states[o.entity].attributes, ids)
                 => CandidatesIn(v.conflicts, ids \cup {o.id})
  <1>0. o \in Observation /\ o.entity \in Entities /\ o.id \in ObservationIds
    BY CompilerAssumption DEF Observation
  <1>1. /\ Typed(v)
        /\ v.conflicts = ConflictsAfter(w, o) /\ v.open = OpenAfter(w, o)
        /\ \A i \in ConflictIds : w.conflicts[i] # NoValue => v.conflicts[i] # NoValue
    <2>1. /\ Typed(v) /\ Backed(v)
          /\ v.seen = w.seen \cup {o.id} /\ v.states = w.states
          /\ v.commits = w.commits /\ v.latest = w.latest
          /\ v.conflicts = ConflictsAfter(w, o) /\ v.open = OpenAfter(w, o)
          /\ \A i \in ConflictIds : w.conflicts[i] # NoValue => v.conflicts[i] # NoValue
      BY NotedKeeps
    <2> QED
      BY <2>1
  <1>2. /\ Named(w.conflicts) /\ Indexed(w.open, w.conflicts)
        /\ Named(v.conflicts) /\ Indexed(v.open, v.conflicts)
    BY <1>1 DEF Typed
  <1>3. \A n \in Disputed(w, o) : n \in Attributes /\ <<o.entity, n>> \in Entities \X Attributes
    BY <1>0 DEF Disputed
  <1>4. ASSUME NEW i \in ConflictIds, NEW n \in Disputed(w, o),
               w.open[<<o.entity, n>>] = i
        PROVE  /\ w.conflicts[i] # NoValue /\ w.conflicts[i].status = "open"
               /\ v.conflicts[i] # NoValue /\ v.conflicts[i].status = "open"
               /\ v.conflicts[i].entity = o.entity /\ v.conflicts[i].attribute = n
               /\ w.conflicts[i].attribute = n /\ Sides(v.conflicts[i], o, n)
               /\ \A k \in DOMAIN v.conflicts[i].candidates :
                     \/ v.conflicts[i].candidates[k].observation = o.id
                     \/ /\ k \in DOMAIN w.conflicts[i].candidates
                        /\ v.conflicts[i].candidates[k] = w.conflicts[i].candidates[k]
    <2>1. i # NoValue
      BY NoValueAssumption
    <2>2. /\ w.conflicts[i] # NoValue /\ w.conflicts[i] \in Conflict
          /\ w.conflicts[i].entity = o.entity /\ w.conflicts[i].attribute = n
          /\ w.conflicts[i].status = "open"
      BY <1>2, <1>3, <1>4, <2>1 DEF Indexed, Named, Pending
    <2>3. v.conflicts[i] = JoinedConflict(w, o, i)
      BY <1>1, <1>4 DEF ConflictsAfter
    <2>4. n \in Attributes /\ CandidateOf(Incoming(o, n)) \in Candidate
      BY <1>0, DisputeFacts
    <2> QED
      BY <1>0, <2>2, <2>3, <2>4, JoinedFacts, NoValueAssumption
  <1>5. ASSUME NEW i \in ConflictIds
        PROVE  \/ \E n \in Disputed(w, o) : w.open[<<o.entity, n>>] = i
               \/ /\ i[1] = o.id /\ i[2] \in NewlyDisputed(w, o)
                  /\ v.conflicts[i] = NewConflict(w, o, i[2])
               \/ v.conflicts[i] = w.conflicts[i]
    BY <1>1 DEF ConflictsAfter
  <1>6. ASSUME NEW n \in NewlyDisputed(w, o), NEW i \in ConflictIds, i = <<o.id, n>>
        PROVE  v.conflicts[i] = NewConflict(w, o, n)
    <2>1. ASSUME NEW m \in Disputed(w, o), w.open[<<o.entity, m>>] = i
          PROVE  FALSE
      <3>1. w.conflicts[i] # NoValue /\ w.conflicts[i].attribute = m
        BY <1>4, <2>1
      <3>2. m = n
        BY <1>2, <1>6, <3>1 DEF Named
      <3> QED
        BY <1>6, <2>1, <3>2, NoValueAssumption DEF NewlyDisputed
    <2>2. i[1] = o.id /\ i[2] = n
      BY <1>6
    <2> QED
      BY <1>1, <2>1, <2>2 DEF ConflictsAfter
  <1>a. ASSUME NEW n \in NewlyDisputed(w, o)
        PROVE  /\ NewConflict(w, o, n) # NoValue /\ NewConflict(w, o, n).status = "open"
               /\ NewConflict(w, o, n).entity = o.entity
               /\ NewConflict(w, o, n).attribute = n
               /\ Sides(NewConflict(w, o, n), o, n)
               /\ \A k \in DOMAIN NewConflict(w, o, n).candidates :
                     NewConflict(w, o, n).candidates[k].observation \in
                         {o.id, PreviousAttributes(w, o.entity)[n].source}
    <2>1. n \in Disputed(w, o)
      BY DEF NewlyDisputed
    <2> QED
      BY <1>0, <2>1, NewConflictFacts
  <1>7. \A i \in ConflictIds : w.conflicts[i] # NoValue /\ w.conflicts[i].status = "open"
            => v.conflicts[i].status = "open"
    <2> SUFFICES ASSUME NEW i \in ConflictIds, w.conflicts[i] # NoValue,
                        w.conflicts[i].status = "open"
                 PROVE  v.conflicts[i].status = "open"
      OBVIOUS
    <2>1. CASE \E n \in Disputed(w, o) : w.open[<<o.entity, n>>] = i
      BY <1>4, <2>1
    <2>2. CASE /\ i[2] \in NewlyDisputed(w, o)
               /\ v.conflicts[i] = NewConflict(w, o, i[2])
      BY <1>a, <2>2
    <2> QED
      BY <1>5, <2>1, <2>2
  <1>8. Pending(v)
    <2> SUFFICES ASSUME NEW k \in Entities \X Attributes, v.open[k] # NoValue
                 PROVE  v.conflicts[v.open[k]].status = "open"
      BY DEF Pending
    <2>1. CASE k[1] = o.entity /\ k[2] \in NewlyDisputed(w, o)
      <3>1. v.open[k] = <<o.id, k[2]>>
        BY <1>1, <2>1 DEF OpenAfter
      <3>2. PICK i \in ConflictIds : i = <<o.id, k[2]>>
        BY <1>0 DEF ConflictIds
      <3>3. v.conflicts[i] = NewConflict(w, o, k[2])
        BY <1>6, <2>1, <3>2
      <3> QED
        BY <3>1, <3>2, <3>3 DEF NewConflict
    <2>2. CASE ~(k[1] = o.entity /\ k[2] \in NewlyDisputed(w, o))
      <3>1. v.open[k] = w.open[k]
        BY <1>1, <2>2 DEF OpenAfter
      <3>2. PICK i \in ConflictIds : i = w.open[k]
        BY <1>2, <3>1 DEF Indexed
      <3>3. w.conflicts[i] # NoValue /\ w.conflicts[i].status = "open"
        BY <1>2, <3>1, <3>2 DEF Indexed, Pending
      <3> QED
        BY <1>7, <3>1, <3>2, <3>3
    <2> QED
      BY <2>1, <2>2
  <1>9. ASSUME NEW i \in ConflictIds, v.conflicts[i] # NoValue
         PROVE  w.conflicts[i] # NoValue \/ i[1] = o.id
    BY <1>4, <1>5, <1>9
  <1>10. ASSUME NEW i \in ConflictIds, w.conflicts[i] # NoValue,
                w.conflicts[i].status = "resolved", i[1] # o.id
         PROVE  v.conflicts[i] = w.conflicts[i]
    BY <1>4, <1>5, <1>10
  <1>11. ASSUME NEW n \in Disputed(w, o)
         PROVE  Disputes(v.conflicts, o, n)
    <2>1. CASE w.open[<<o.entity, n>>] # NoValue
      <3>1. PICK i \in ConflictIds : w.open[<<o.entity, n>>] = i
        BY <1>2, <1>3, <2>1 DEF Indexed
      <3> QED
        BY <1>4, <3>1 DEF Disputes
    <2>2. CASE w.open[<<o.entity, n>>] = NoValue
      <3>1. n \in NewlyDisputed(w, o) /\ n \in Attributes
        BY <1>3, <2>2 DEF NewlyDisputed
      <3>2. PICK i \in ConflictIds : i = <<o.id, n>>
        BY <1>0, <3>1 DEF ConflictIds
      <3>3. v.conflicts[i] = NewConflict(w, o, n)
        BY <1>6, <3>1, <3>2
      <3> QED
        BY <1>a, <3>1, <3>3 DEF Disputes
    <2> QED
      BY <2>1, <2>2
  <1>12. ASSUME NEW ids, CandidatesIn(w.conflicts, ids),
                w.states[o.entity] # NoValue =>
                    SourcesIn(w.states[o.entity].attributes, ids)
         PROVE  CandidatesIn(v.conflicts, ids \cup {o.id})
    <2>1. ASSUME NEW n \in Disputed(w, o)
          PROVE  PreviousAttributes(w, o.entity)[n].source \in ids
      <3>1. n \in Attributes /\ PreviousAttributes(w, o.entity)[n] # NoValue
        BY DEF Disputed, Disagree
      <3> QED
        BY <1>12, <3>1 DEF PreviousAttributes, NoAttributes, SourcesIn
    <2>2. ASSUME NEW i \in ConflictIds, v.conflicts[i] # NoValue,
                 NEW k \in DOMAIN v.conflicts[i].candidates
          PROVE  v.conflicts[i].candidates[k].observation \in ids \cup {o.id}
      <3>1. CASE \E n \in Disputed(w, o) : w.open[<<o.entity, n>>] = i
        BY <1>4, <1>12, <2>2, <3>1 DEF CandidatesIn
      <3>2. CASE /\ i[1] = o.id /\ i[2] \in NewlyDisputed(w, o)
                 /\ v.conflicts[i] = NewConflict(w, o, i[2])
        <4>1. i[2] \in Disputed(w, o)
          BY <3>2 DEF NewlyDisputed
        <4> QED
          BY <1>a, <2>1, <2>2, <3>2, <4>1
      <3>3. CASE v.conflicts[i] = w.conflicts[i]
        BY <1>12, <2>2, <3>3 DEF CandidatesIn
      <3> QED
        BY <1>5, <3>1, <3>2, <3>3
    <2> QED
      BY <2>2 DEF CandidatesIn
  <1> QED
    BY <1>8, <1>9, <1>10, <1>11, <1>12

\* A memory whose head is in it, whose index names open conflicts, and which
\* has a state for whatever it saw: ingest does not raise.
Whole(w) ==
    /\ KnowsHead(w) /\ Pending(w)
    /\ \A o \in Offered : o.id \in w.seen => w.states[o.entity] # NoValue

LEMMA MergedShows ==
    ASSUME NEW o \in Offered, NEW w, NEW n \in Attributes, o.payload[n] # NoValue,
           n \notin Disputed(w, o)
    PROVE  ValuesOf(Merged(w, o))[n] = o.payload[n]
  <1>1. PICK x \in Attribute : x = Incoming(o, n)
    BY CompilerAssumption DEF Incoming, Attribute, Observation, ValueMap
  <1>2. Merged(w, o)[n] = x /\ x # NoValue /\ x.value = o.payload[n]
    BY <1>1, NoValueAssumption DEF Merged, Incoming
  <1> QED
    BY <1>2 DEF ValuesOf

\* An attribute of the merged map is the previous one or the observation's, and
\* a fresh value of another connector is in both.
LEMMA MergedFrom ==
    ASSUME NEW w, NEW o \in Offered, NEW n \in Attributes, NEW old, NEW new,
           old = PreviousAttributes(w, o.entity)[n], new = Merged(w, o)[n]
    PROVE  /\ new # NoValue => new = old \/ new.source = o.id
           /\ Stays(old, new, o.connector)
  <1>1. CASE o.payload[n] = NoValue \/ n \in Disputed(w, o)
    BY <1>1 DEF Merged, Stays, FreshOfAnother
  <1>2. CASE o.payload[n] # NoValue /\ n \notin Disputed(w, o)
    <2>1. PICK x : x = Incoming(o, n)
      OBVIOUS
    <2>2. /\ x \in Attribute /\ x.source = o.id /\ x.value = o.payload[n]
          /\ x.connector = o.connector
      BY <1>2, <2>1, CompilerAssumption DEF Incoming, Attribute, Observation, ValueMap
    <2>3. new = x
      BY <1>2, <2>1 DEF Merged
    <2>4. ~Disagree(old, x)
      BY <1>2, <2>1 DEF Disputed
    <2> QED
      BY <2>2, <2>3, <2>4, NoValueAssumption DEF Disagree, Stays, FreshOfAnother
  <1> QED
    BY <1>1, <1>2

\* What a memory knows goes back to the observations of a set, and a commit of
\* its own to one of them at least.
Told(w, ids) ==
    /\ \A d \in DOMAIN w.commits :
          /\ w.commits[d].observations \subseteq ids
          /\ d \in StoredIds \/ w.commits[d].observations # {}
    /\ \A e \in Entities : w.states[e] # NoValue => SourcesIn(w.states[e].attributes, ids)
    /\ CandidatesIn(w.conflicts, ids)

LEMMA ToldMore ==
    ASSUME NEW w, NEW ids, NEW more, Told(w, ids), ids \subseteq more
    PROVE  Told(w, more)
  BY DEF Told, SourcesIn, CandidatesIn

\* What ingest leaves of an observation that is new to a whole memory.
Compiled(w, o, c, v) ==
    /\ Whole(v) /\ Typed(v) /\ Backed(v)
    /\ v.seen = w.seen \cup {o.id}
    /\ v.states[o.entity] # NoValue
    /\ \A e \in Entities : e # o.entity => v.states[e] = w.states[e]
    /\ \A i \in ConflictIds :
          v.conflicts[i] # NoValue => w.conflicts[i] # NoValue \/ i[1] = o.id
    /\ \A i \in ConflictIds :
          /\ w.conflicts[i] # NoValue /\ w.conflicts[i].status = "resolved"
          /\ i[1] # o.id
          => v.conflicts[i] = w.conflicts[i]
    /\ \A n \in Attributes : o.payload[n] # NoValue =>
          \/ ValuesOf(v.states[o.entity].attributes)[n] = o.payload[n]
          \/ Disputes(v.conflicts, o, n)
    /\ \A n \in Attributes :
          Stays(PreviousAttributes(w, o.entity)[n], v.states[o.entity].attributes[n],
                o.connector)
    /\ \/ v.states = w.states
       \/ /\ v.states[o.entity].commit = c
          /\ v.states[o.entity].version = NextVersion(w.states[o.entity])
          /\ v.commits[c].before = ValuesOf(PreviousAttributes(w, o.entity))
    /\ \A ids : Told(w, ids) => Told(v, ids \cup {o.id})

LEMMA IngestCompiles ==
    ASSUME NEW w, Typed(w), Backed(w), Whole(w), NEW o \in Offered, o.id \notin w.seen,
           NEW c \in 1..MaxCommits, c \notin DOMAIN w.commits, c \notin StoredIds,
           NEW v, v = Ingest(w, o, c)
    PROVE  ~Raises(w, o) /\ Compiled(w, o, c, v)
  <1>0. o \in Observation /\ o.entity \in Entities /\ o.id \in ObservationIds
    BY CompilerAssumption DEF Observation
  <1>1. ~Raises(w, o)
    BY DEF Raises, Whole
  <1>2. PICK noted : noted = Noted(w, o)
    OBVIOUS
  <1>3. PICK m \in AttributeMap : m = Merged(w, o)
    BY <1>0, MapTypes
  <1>4. PICK e \in Entities : e = o.entity
    BY <1>0
  <1>5. PICK x \in Causes : x = Cause({o.id}, NoValue)
    BY <1>0 DEF Cause, Causes
  <1>6. v = IF IsNews(w, o) THEN WithCommit(noted, c, e, x, m) ELSE noted
    BY <1>2, <1>3, <1>4, <1>5 DEF Ingest, Compile, Noted
  <1>7. /\ Typed(noted) /\ Backed(noted)
        /\ noted.seen = w.seen \cup {o.id} /\ noted.states = w.states
        /\ noted.commits = w.commits /\ noted.latest = w.latest
        /\ noted.conflicts = ConflictsAfter(w, o) /\ noted.open = OpenAfter(w, o)
        /\ \A i \in ConflictIds : w.conflicts[i] # NoValue => noted.conflicts[i] # NoValue
    BY <1>2, NotedKeeps
  <1>8. /\ Pending(noted)
        /\ \A i \in ConflictIds :
              noted.conflicts[i] # NoValue => w.conflicts[i] # NoValue \/ i[1] = o.id
        /\ \A i \in ConflictIds :
              /\ w.conflicts[i] # NoValue /\ w.conflicts[i].status = "resolved"
              /\ i[1] # o.id
              => noted.conflicts[i] = w.conflicts[i]
        /\ \A n \in Disputed(w, o) : Disputes(noted.conflicts, o, n)
        /\ \A ids :
              /\ CandidatesIn(w.conflicts, ids)
              /\ w.states[o.entity] # NoValue => SourcesIn(w.states[o.entity].attributes, ids)
              => CandidatesIn(noted.conflicts, ids \cup {o.id})
    <2>1. Pending(w)
      BY DEF Whole
    <2>2. /\ Pending(noted)
          /\ \A i \in ConflictIds :
                noted.conflicts[i] # NoValue => w.conflicts[i] # NoValue \/ i[1] = o.id
          /\ \A i \in ConflictIds :
                /\ w.conflicts[i] # NoValue /\ w.conflicts[i].status = "resolved"
                /\ i[1] # o.id
                => noted.conflicts[i] = w.conflicts[i]
          /\ \A n \in Disputed(w, o) : Disputes(noted.conflicts, o, n)
      BY <1>2, <2>1, NotedFacts
    <2>3. ASSUME NEW ids, CandidatesIn(w.conflicts, ids),
                 w.states[o.entity] # NoValue => SourcesIn(w.states[o.entity].attributes, ids)
          PROVE  CandidatesIn(noted.conflicts, ids \cup {o.id})
      BY <1>2, <2>1, <2>3, NotedFacts
    <2> QED
      BY <2>2, <2>3
  <1>a. \A n \in Attributes : Stays(PreviousAttributes(w, o.entity)[n], m[n], o.connector)
    BY <1>3, MergedFrom
  <1>b. ASSUME NEW ids, Told(w, ids)
        PROVE  /\ CandidatesIn(noted.conflicts, ids \cup {o.id})
               /\ SourcesIn(m, ids \cup {o.id})
    <2>1. CandidatesIn(noted.conflicts, ids \cup {o.id})
      BY <1>0, <1>8, <1>b DEF Told
    <2>2. \A n \in Attributes : PreviousAttributes(w, o.entity)[n] # NoValue =>
             PreviousAttributes(w, o.entity)[n].source \in ids
      BY <1>0, <1>b DEF Told, SourcesIn, PreviousAttributes, NoAttributes
    <2>3. \A n \in Attributes : m[n] # NoValue =>
             m[n] = PreviousAttributes(w, o.entity)[n] \/ m[n].source = o.id
      BY <1>3, MergedFrom
    <2> QED
      BY <2>1, <2>2, <2>3 DEF SourcesIn
  <1>9. \A n \in Attributes : o.payload[n] # NoValue =>
           ValuesOf(m)[n] = o.payload[n] \/ Disputes(noted.conflicts, o, n)
    BY <1>3, <1>8, MergedShows
  <1>10. CASE ~IsNews(w, o)
    <2>1. v = noted /\ w.states[e] # NoValue
      BY <1>4, <1>6, <1>10 DEF IsNews
    <2>2. ValuesOf(m) = ValuesOf(v.states[e].attributes)
      BY <1>3, <1>4, <1>7, <1>10, <2>1 DEF IsNews, PreviousAttributes
    <2>3. Whole(v)
      <3>1. \A u \in Offered : u.id = o.id => u.entity = o.entity
        BY CompilerAssumption
      <3>2. \A u \in Offered : u.id \in v.seen => v.states[u.entity] # NoValue
        BY <1>4, <1>7, <2>1, <3>1 DEF Whole
      <3> QED
        BY <1>7, <1>8, <2>1, <3>2 DEF Whole, KnowsHead
    <2>4. ASSUME NEW ids, Told(w, ids)
          PROVE  Told(v, ids \cup {o.id})
      <3>1. Told(w, ids \cup {o.id}) /\ CandidatesIn(noted.conflicts, ids \cup {o.id})
        BY <1>b, <2>4, ToldMore
      <3> QED
        BY <1>7, <2>1, <3>1 DEF Told
    <2>5. \A n \in Attributes :
             Stays(PreviousAttributes(w, o.entity)[n], v.states[o.entity].attributes[n],
                   o.connector)
      BY <1>4, <1>7, <2>1 DEF Stays, PreviousAttributes, FreshOfAnother
    <2>6. /\ Whole(v) /\ Typed(v) /\ Backed(v) /\ v.seen = w.seen \cup {o.id}
          /\ v.states = w.states /\ v.states[o.entity] # NoValue
      BY <1>4, <1>7, <2>1, <2>3
    <2>7. \A n \in Attributes : o.payload[n] # NoValue =>
             \/ ValuesOf(v.states[o.entity].attributes)[n] = o.payload[n]
             \/ Disputes(v.conflicts, o, n)
      BY <1>4, <1>9, <2>1, <2>2
    <2> QED
      BY <1>1, <1>8, <2>1, <2>4, <2>5, <2>6, <2>7 DEF Compiled
  <1>11. CASE IsNews(w, o)
    <2>1. v = WithCommit(noted, c, e, x, m) /\ c \notin DOMAIN noted.commits
      BY <1>6, <1>7, <1>11
    <2>2. /\ Typed(v) /\ Backed(v) /\ v.states[e] # NoValue
          /\ v.seen = noted.seen /\ v.conflicts = noted.conflicts
          /\ v.open = noted.open /\ v.latest = c
          /\ v.states[e].commit = c /\ v.states[e].attributes = m
          /\ v.states[e].version = NextVersion(noted.states[e])
          /\ \A f \in Entities : f # e => v.states[f] = noted.states[f]
          /\ DOMAIN v.commits = DOMAIN noted.commits \cup {c}
          /\ v.commits[c].observations = x.observations
          /\ v.commits[c].before = ValuesOf(PreviousAttributes(noted, e))
          /\ \A d \in DOMAIN noted.commits : v.commits[d] = noted.commits[d]
      BY <1>7, <2>1, CommitKeeps
    <2>3. PreviousAttributes(noted, e) = PreviousAttributes(w, e)
      BY <1>7 DEF PreviousAttributes
    <2>4. Whole(v)
      <3>1. \A u \in Offered : u.id = o.id => u.entity = o.entity
        BY CompilerAssumption
      <3>2. \A u \in Offered : u.entity \in Entities
        BY CompilerAssumption DEF Observation
      <3>3. \A u \in Offered : u.id \in v.seen => v.states[u.entity] # NoValue
        BY <1>4, <1>7, <2>2, <3>1, <3>2 DEF Whole
      <3>4. KnowsHead(v)
        BY <2>2 DEF KnowsHead
      <3>5. Pending(v)
        BY <1>8, <2>2 DEF Pending
      <3> QED
        BY <3>3, <3>4, <3>5 DEF Whole
    <2>5. /\ v.seen = w.seen \cup {o.id} /\ v.states[o.entity] # NoValue
          /\ \A f \in Entities : f # o.entity => v.states[f] = w.states[f]
          /\ v.states[o.entity].commit = c
          /\ v.states[o.entity].version = NextVersion(w.states[o.entity])
          /\ v.commits[c].before = ValuesOf(PreviousAttributes(w, o.entity))
      BY <1>4, <1>7, <2>2, <2>3
    <2>6. \A n \in Attributes : o.payload[n] # NoValue =>
             \/ ValuesOf(v.states[o.entity].attributes)[n] = o.payload[n]
             \/ Disputes(v.conflicts, o, n)
      BY <1>4, <1>9, <2>2
    <2>7. ASSUME NEW ids, Told(w, ids)
          PROVE  Told(v, ids \cup {o.id})
      <3>1. /\ Told(w, ids \cup {o.id}) /\ SourcesIn(m, ids \cup {o.id})
            /\ CandidatesIn(noted.conflicts, ids \cup {o.id})
        BY <1>b, <2>7, ToldMore
      <3>2. v.commits[c].observations = {o.id}
        BY <1>5, <2>2 DEF Cause
      <3>3. \A d \in DOMAIN v.commits :
               /\ v.commits[d].observations \subseteq ids \cup {o.id}
               /\ d \in StoredIds \/ v.commits[d].observations # {}
        <4>1. /\ DOMAIN v.commits = DOMAIN w.commits \cup {c}
              /\ \A d \in DOMAIN w.commits : v.commits[d] = w.commits[d]
          BY <1>7, <2>2
        <4> QED
          BY <3>1, <3>2, <4>1 DEF Told
      <3>4. \A f \in Entities : v.states[f] # NoValue =>
               SourcesIn(v.states[f].attributes, ids \cup {o.id})
        <4>1. /\ v.states[e].attributes = m
              /\ \A f \in Entities : f # e => v.states[f] = w.states[f]
          BY <1>7, <2>2
        <4> QED
          BY <3>1, <4>1 DEF Told
      <3> QED
        BY <2>2, <3>1, <3>3, <3>4 DEF Told
    <2>8. \A n \in Attributes :
             Stays(PreviousAttributes(w, o.entity)[n], v.states[o.entity].attributes[n],
                   o.connector)
      BY <1>4, <1>a, <2>2
    <2>9. /\ Whole(v) /\ Typed(v) /\ Backed(v)
          /\ v.conflicts = noted.conflicts
      BY <2>2, <2>4
    <2> QED
      BY <1>1, <1>8, <2>5, <2>6, <2>7, <2>8, <2>9 DEF Compiled
  <1> QED
    BY <1>10, <1>11

\* What is loaded into a whole memory leaves it whole.
LEMMA LoadedWhole ==
    ASSUME NEW w, Typed(w), Backed(w), Whole(w), TablesTyped, ProjectionIsBackedByLog,
           NEW e \in Entities, NEW v, v = Loaded(w, e)
    PROVE  Whole(v)
  <1>1. /\ Typed(v) /\ Backed(v)
        /\ v.seen = w.seen /\ v.conflicts = w.conflicts /\ v.open = w.open
        /\ KnowsHead(w) => KnowsHead(v)
        /\ state_projection[e] # NoValue => v.states[e] = state_projection[e]
        /\ state_projection[e] = NoValue => v = w
        /\ \A f \in Entities : f # e => v.states[f] = w.states[f]
        /\ DOMAIN w.commits \subseteq DOMAIN v.commits
        /\ DOMAIN v.commits \subseteq DOMAIN w.commits \cup StoredIds
        /\ \A d \in DOMAIN v.commits :
              \/ d \in DOMAIN w.commits /\ v.commits[d] = w.commits[d]
              \/ d \in StoredIds /\ v.commits[d].observations = {}
    BY LoadedKeeps
  <1>2. Pending(v)
    BY <1>1 DEF Pending, Whole
  <1>3. \A f \in Entities : w.states[f] # NoValue => v.states[f] # NoValue
    BY <1>1
  <1>4. \A o \in Offered : o.entity \in Entities
    BY CompilerAssumption DEF Observation
  <1> QED
    BY <1>1, <1>2, <1>3, <1>4 DEF Whole

LEMMA StoredConflictsWhole ==
    ASSUME NEW w, Typed(w), Backed(w), Whole(w), NEW rows, Named(rows),
           NEW v, v = WithStoredConflicts(w, rows)
    PROVE  Whole(v)
  <1>1. /\ Typed(v) /\ Backed(v)
        /\ v.seen = w.seen /\ v.states = w.states
        /\ v.commits = w.commits /\ v.latest = w.latest
        /\ v.conflicts = ConflictsStored(w, rows)
        /\ \A i \in ConflictIds : rows[i] # NoValue => v.conflicts[i] = rows[i]
        /\ \A i \in ConflictIds : rows[i] = NoValue => v.conflicts[i] = w.conflicts[i]
        /\ Pending(w) => Pending(v)
    BY StoredConflictsKeep
  <1> QED
    BY <1>1 DEF Whole, KnowsHead

-----------------------------------------------------------------------------
(* A quiet deployment: no transaction fails, and the API ingests and        *)
(* resolves.  What a process has in memory between two requests is then     *)
(* behind the tables, but for the disputes of a worker, which stores none.  *)

\* The ids that are stored, or will be with transaction t.
Held(t) ==
    observation_log \cup IF t.observation = NoValue THEN {} ELSE {t.observation.id}

\* Entity e has a projection, or will with transaction t.
Placed(e, t) ==
    \/ state_projection[e] # NoValue
    \/ t.commit # NoValue /\ t.commit.record.entity = e

\* What is to be stored goes back to the observations of a set.
Tells(t, ids) ==
    /\ t.commit # NoValue =>
          /\ t.commit.record.observations # {}
          /\ t.commit.record.observations \subseteq ids
    /\ t.state # NoValue => SourcesIn(t.state.attributes, ids)
    /\ CandidatesIn(t.conflicts, ids)

\* What is stored of a memory tells no more than the memory.
LEMMA StoredTells ==
    ASSUME NEW v, NEW ids, Told(v, ids), NEW e \in Entities, v.states[e] # NoValue,
           NEW t, TxBacked(t), CandidatesIn(t.conflicts, ids),
           t.commit # NoValue =>
               /\ t.state = v.states[e] /\ t.commit.id \in DOMAIN v.commits
               /\ t.commit.record = v.commits[t.commit.id]
    PROVE  Tells(t, ids)
  <1>1. t.commit # NoValue => t.commit.id \notin StoredIds
    BY DEF TxBacked
  <1>2. t.state # NoValue => t.commit # NoValue
    BY DEF TxBacked
  <1> QED
    BY <1>1, <1>2 DEF Tells, Told

\* A resolution goes back to the observations of its conflict.
LEMMA ResolveTells ==
    ASSUME NEW w, Typed(w), Backed(w), NEW i \in ConflictIds, w.conflicts[i] # NoValue,
           NEW value \in Values, NEW c \in 1..MaxCommits, c \notin DOMAIN w.commits,
           c \notin StoredIds, NEW v, v = Resolve(w, i, value, c),
           NEW ids, Told(w, ids)
    PROVE  Told(v, ids)
  <1> DEFINE e == w.conflicts[i].entity
  <1>1. /\ Typed(v) /\ v.conflicts[i].candidates = w.conflicts[i].candidates
        /\ \A j \in ConflictIds : j # i => v.conflicts[j] = w.conflicts[j]
        /\ \/ v.states = w.states /\ v.commits = w.commits
           \/ /\ w.states[e] # NoValue
              /\ v.states[e].attributes = ResolvedAttributes(w, i, value)
              /\ \A f \in Entities : f # e => v.states[f] = w.states[f]
              /\ DOMAIN v.commits = DOMAIN w.commits \cup {c}
              /\ v.commits[c].observations = SourceIds(w.conflicts[i], value)
              /\ \A d \in DOMAIN w.commits : v.commits[d] = w.commits[d]
    BY ResolveKeeps
  <1>2. w.conflicts[i] \in Conflict /\ e \in Entities
    BY DEF Typed, Named, Conflict
  <1>3. CandidatesIn(v.conflicts, ids)
    BY <1>1 DEF CandidatesIn, Told
  <1>4. /\ SourceIds(w.conflicts[i], value) # {}
        /\ LastSourceId(w.conflicts[i], value) \in SourceIds(w.conflicts[i], value)
        /\ SourceIds(w.conflicts[i], value) \subseteq ids
    <2>1. Upholding(w.conflicts[i], value) \subseteq DOMAIN w.conflicts[i].candidates
      BY DEF Upholding, Matching
    <2> QED
      BY <1>2, <2>1, SourceTypes DEF SourceIds, CandidatesIn, Told
  <1>5. w.states[e] # NoValue => SourcesIn(ResolvedAttributes(w, i, value), ids)
    <2>1. w.states[e] # NoValue => SourcesIn(PreviousAttributes(w, e), ids)
      BY <1>2 DEF Told, PreviousAttributes
    <2>2. PreviousAttributes(w, e) \in AttributeMap
      BY <1>2, MapTypes
    <2>3. PICK x : x = [value |-> value, connector |-> Operator, freshness |-> "fresh",
                        source |-> LastSourceId(w.conflicts[i], value)]
      OBVIOUS
    <2>4. x.source \in ids
      BY <1>4, <2>3
    <2>5. ResolvedAttributes(w, i, value) =
              [PreviousAttributes(w, e) EXCEPT ![w.conflicts[i].attribute] = x]
      BY <2>3 DEF ResolvedAttributes
    <2> QED
      BY <2>1, <2>2, <2>4, <2>5 DEF SourcesIn, AttributeMap
  <1> HIDE DEF e
  <1> QED
    BY <1>1, <1>2, <1>3, <1>4, <1>5 DEF Told

QuietWith(v, t) ==
    /\ Whole(v) /\ v.seen \subseteq Held(t)
    /\ \A e \in Entities : v.states[e] # NoValue => Placed(e, t)
    /\ t.observation # NoValue => Placed(t.observation.entity, t)
    /\ \A i \in ConflictIds :
          /\ v.conflicts[i] # NoValue \/ t.conflicts[i] # NoValue => i[1] \in Held(t)
          /\ /\ Workers = {}
             /\ v.conflicts[i] # NoValue /\ v.conflicts[i].status = "open"
             => conflict_table[i] # NoValue \/ t.conflicts[i] # NoValue
    /\ t.kind # "verify"
    /\ Told(v, Held(t)) /\ Tells(t, Held(t))

QuietTables ==
    /\ \A o \in Offered : o.id \in observation_log => state_projection[o.entity] # NoValue
    /\ \A i \in ConflictIds : conflict_table[i] # NoValue => i[1] \in observation_log
    /\ CommitsAreTraceable /\ CandidatesIn(conflict_table, observation_log)
    /\ \A e \in Entities : state_projection[e] # NoValue =>
          SourcesIn(state_projection[e].attributes, observation_log)

QuietInv == QuietTables /\ \A p \in Processes : QuietWith(mem[p], tx[p])

(* What a transaction is to leave when no other process commits before it. *)

StoredValues(e) ==
    IF state_projection[e] = NoValue THEN ValuesOf(NoAttributes)
    ELSE ValuesOf(state_projection[e].attributes)

ProjectionAfter(t) ==
    IF t.state = NoValue THEN state_projection
    ELSE [state_projection EXCEPT ![t.commit.record.entity] = t.state]

RowsAfter(t) ==
    [i \in ConflictIds |->
        IF t.conflicts[i] = NoValue THEN conflict_table[i] ELSE t.conflicts[i]]

SoleWith(t) ==
    /\ t.commit # NoValue =>
          /\ t.commit.record.before = StoredValues(t.commit.record.entity)
          /\ t.state.version = NextVersion(state_projection[t.commit.record.entity])
    /\ \A i \in ConflictIds :
          conflict_table[i] # NoValue /\ conflict_table[i].status = "resolved" =>
              t.conflicts[i] \in {NoValue, conflict_table[i]}
    /\ t.kind = "ingest" => Shown(t.observation, ProjectionAfter(t), RowsAfter(t))
    /\ t.kind # "observe"
    /\ t.observation # NoValue => \A n \in Attributes :
          FreshOfAnother(AttributeIn(state_projection, t.observation.entity, n),
                         t.observation.connector)
          => SameValue(t.observation, n, state_projection, ProjectionAfter(t))

\* A command is a process of its own, which keeps no memory; a worker stores no
\* disputes.
QuietOutcome(p) ==
    \E v, t : /\ Works(p, v, t) /\ QuietWith(v, t)
              /\ p \notin Commands \cup Workers => SoleWith(t)

LEMMA QuietEnds ==
    ASSUME NEW p, NEW v, NEW t, Works(p, v, t), QuietWith(v, t),
           p \notin Commands \cup Workers => SoleWith(t)
    PROVE  QuietOutcome(p)
  BY DEF QuietOutcome

LEMMA EmptyQuiet ==
    /\ Whole(EmptyService) /\ SoleWith(NoTx) /\ QuietWith(EmptyService, NoTx)
    /\ Held(NoTx) = observation_log
  <1>1. /\ EmptyService.seen = {} /\ EmptyService.latest = NoValue
        /\ \A k \in Entities \X Attributes : EmptyService.open[k] = NoValue
        /\ \A e \in Entities : EmptyService.states[e] = NoValue
        /\ \A i \in ConflictIds : EmptyService.conflicts[i] = NoValue
    BY DEF EmptyService
  <1>2. Whole(EmptyService)
    BY <1>1 DEF Whole, KnowsHead, Pending
  <1>3. /\ NoTx.kind = "none" /\ NoTx.observation = NoValue /\ NoTx.commit = NoValue
        /\ NoTx.state = NoValue /\ \A i \in ConflictIds : NoTx.conflicts[i] = NoValue
    BY DEF NoTx, NoConflicts
  <1>4. Held(NoTx) = observation_log
    BY <1>3 DEF Held
  <1>5. QuietWith(EmptyService, NoTx)
    <2>1. DOMAIN EmptyService.commits = {}
      BY EmptyFacts DEF IdsOf
    <2>2. Told(EmptyService, Held(NoTx)) /\ Tells(NoTx, Held(NoTx))
      BY <1>1, <1>3, <2>1 DEF Told, Tells, CandidatesIn
    <2> QED
      BY <1>1, <1>2, <1>3, <2>2 DEF QuietWith
  <1>6. SoleWith(NoTx)
    BY <1>3 DEF SoleWith
  <1> QED
    BY <1>2, <1>4, <1>5, <1>6

\* A memory that a request starts from, and the projection that it loads.
LEMMA LoadedQuiet ==
    ASSUME NEW m, Typed(m), Backed(m), QuietWith(m, NoTx), QuietTables,
           TablesTyped, ProjectionIsBackedByLog, NEW e \in Entities,
           NEW w, w = Loaded(m, e)
    PROVE  QuietWith(w, NoTx) /\ w.states[e] = state_projection[e]
  <1>1. /\ Typed(w) /\ Backed(w)
        /\ w.seen = m.seen /\ w.conflicts = m.conflicts /\ w.open = m.open
        /\ KnowsHead(m) => KnowsHead(w)
        /\ state_projection[e] # NoValue => w.states[e] = state_projection[e]
        /\ state_projection[e] = NoValue => w = m
        /\ \A f \in Entities : f # e => w.states[f] = m.states[f]
        /\ DOMAIN m.commits \subseteq DOMAIN w.commits
        /\ DOMAIN w.commits \subseteq DOMAIN m.commits \cup StoredIds
        /\ \A d \in DOMAIN w.commits :
              \/ d \in DOMAIN m.commits /\ w.commits[d] = m.commits[d]
              \/ d \in StoredIds /\ w.commits[d].observations = {}
    BY LoadedKeeps
  <1>2. Whole(w)
    BY LoadedWhole DEF QuietWith
  <1>3. NoTx.commit = NoValue /\ NoTx.observation = NoValue /\ NoTx.kind = "none"
    BY DEF NoTx
  <1>4. \A f \in Entities : m.states[f] # NoValue => state_projection[f] # NoValue
    BY <1>3 DEF QuietWith, Placed
  <1>5. w.states[e] = state_projection[e]
    BY <1>1, <1>4
  <1>6. \A f \in Entities : w.states[f] # NoValue => state_projection[f] # NoValue
    BY <1>1, <1>4, <1>5
  <1>7. Told(w, Held(NoTx)) /\ Tells(NoTx, Held(NoTx))
    <2>1. /\ Told(m, observation_log) /\ Tells(NoTx, observation_log)
          /\ Held(NoTx) = observation_log
      BY EmptyQuiet DEF QuietWith
    <2>2. \A d \in DOMAIN w.commits :
             /\ w.commits[d].observations \subseteq observation_log
             /\ d \in StoredIds \/ w.commits[d].observations # {}
      BY <1>1, <2>1 DEF Told
    <2>3. \A f \in Entities : w.states[f] # NoValue =>
             SourcesIn(w.states[f].attributes, observation_log)
      BY <1>1, <1>5, <2>1 DEF Told, QuietTables
    <2> QED
      BY <1>1, <2>1, <2>2, <2>3 DEF Told
  <1> QED
    BY <1>1, <1>2, <1>3, <1>5, <1>6, <1>7 DEF QuietWith, Placed

\* The stored conflicts that it loads, all of them or one.
LEMMA StoredConflictsQuiet ==
    ASSUME NEW w, Typed(w), Backed(w), QuietWith(w, NoTx), QuietTables,
           NEW rows, Named(rows),
           \A i \in ConflictIds : rows[i] \in {NoValue, conflict_table[i]},
           NEW v, v = WithStoredConflicts(w, rows)
    PROVE  QuietWith(v, NoTx)
  <1>1. /\ Typed(v) /\ Backed(v)
        /\ v.seen = w.seen /\ v.states = w.states
        /\ v.commits = w.commits /\ v.latest = w.latest
        /\ v.conflicts = ConflictsStored(w, rows)
        /\ \A i \in ConflictIds : rows[i] # NoValue => v.conflicts[i] = rows[i]
        /\ \A i \in ConflictIds : rows[i] = NoValue => v.conflicts[i] = w.conflicts[i]
        /\ Pending(w) => Pending(v)
    BY StoredConflictsKeep
  <1>2. Whole(v)
    BY StoredConflictsWhole DEF QuietWith
  <1>3. \A i \in ConflictIds :
           \/ v.conflicts[i] = w.conflicts[i]
           \/ conflict_table[i] # NoValue /\ v.conflicts[i] = conflict_table[i]
    BY <1>1
  <1>4. Held(NoTx) = observation_log
    BY EmptyQuiet
  <1>5. Told(v, Held(NoTx)) /\ Tells(NoTx, Held(NoTx))
    <2>1. Told(w, Held(NoTx)) /\ Tells(NoTx, Held(NoTx))
      BY DEF QuietWith
    <2>2. CandidatesIn(v.conflicts, Held(NoTx))
      BY <1>3, <1>4, <2>1 DEF Told, CandidatesIn, QuietTables
    <2> QED
      BY <1>1, <2>1, <2>2 DEF Told
  <1> QED
    BY <1>1, <1>2, <1>3, <1>4, <1>5 DEF QuietWith, QuietTables, Placed

\* What persist stores of an observation that was compiled on the projection.
Persists(e, u, t) ==
    /\ Placed(e, t)
    /\ t.commit # NoValue =>
          /\ t.commit.record.entity = e
          /\ t.commit.record.before = StoredValues(e)
          /\ t.state.version = NextVersion(state_projection[e])
    /\ ProjectionAfter(t)[e] = u.states[e]

LEMMA PersistFacts ==
    ASSUME TablesTyped, ProjectionIsBackedByLog, NEW o \in Offered,
           NEW e \in Entities, NEW w, NEW c, NEW u, NEW kind, NEW conflicts, NEW t,
           e = o.entity, w.states[e] = state_projection[e], c \notin StoredIds,
           Compiled(w, o, c, u), TxBacked(t), Stored(t, kind, u, e, o, conflicts)
    PROVE  Persists(e, u, t)
  <1>1. /\ u.states[e] # NoValue
        /\ \/ u.states = w.states
           \/ /\ u.states[e].commit = c
              /\ u.states[e].version = NextVersion(w.states[e])
              /\ u.commits[c].before = ValuesOf(PreviousAttributes(w, e))
    BY DEF Compiled
  <1>2. /\ t.commit = NoValue <=> u.states[e].commit \in StoredIds
        /\ t.commit # NoValue =>
              /\ t.state = u.states[e] /\ t.commit.id = u.states[e].commit
              /\ t.commit.id \in DOMAIN u.commits
              /\ t.commit.record = u.commits[t.commit.id]
              /\ t.commit.record.entity = e
    BY DEF Stored
  <1>3. t.state # NoValue <=> t.commit # NoValue
    BY DEF TxBacked
  <1>4. CASE u.states = w.states
    <2>1. u.states[e] = state_projection[e] /\ state_projection[e] # NoValue
      BY <1>1, <1>4
    <2>2. u.states[e].commit \in StoredIds
      BY <2>1 DEF ProjectionIsBackedByLog, RowsFor, StoredIds
    <2>3. t.commit = NoValue /\ t.state = NoValue
      BY <1>2, <1>3, <2>2
    <2> QED
      BY <2>1, <2>3 DEF Placed, ProjectionAfter, Persists
  <1>5. CASE /\ u.states[e].commit = c
             /\ u.states[e].version = NextVersion(w.states[e])
             /\ u.commits[c].before = ValuesOf(PreviousAttributes(w, e))
    <2>1. t.commit # NoValue /\ t.state # NoValue
      BY <1>2, <1>3, <1>5
    <2>2. ValuesOf(PreviousAttributes(w, e)) = StoredValues(e)
      BY DEF PreviousAttributes, StoredValues
    <2>3. ProjectionAfter(t)[e] = t.state
      BY <1>2, <2>1 DEF ProjectionAfter, TablesTyped
    <2> QED
      BY <1>2, <1>5, <2>1, <2>2, <2>3 DEF Placed, Persists
  <1> QED
    BY <1>1, <1>4, <1>5

LEMMA QuietIngest ==
    ASSUME Inv, QuietInv, NEW p \in Processes, NEW o \in Offered, ApiIngest(p, o)
    PROVE  QuietOutcome(p)
  <1>1. Begins(p) /\ UNCHANGED tables
    BY DEF ApiIngest
  <1>2. /\ tx[p] = NoTx /\ tx = [tx EXCEPT ![p] = NoTx]
        /\ IdsOf(mem[p], tx[p]) = DOMAIN mem[p].commits
        /\ Typed(mem[p]) /\ Backed(mem[p])
        /\ TablesTyped /\ ProjectionIsBackedByLog
    BY <1>1, IdleFacts DEF Begins
  <1>3. QuietTables /\ QuietWith(mem[p], NoTx)
    BY <1>2 DEF QuietInv
  <1>4. PICK e \in Entities : e = o.entity
    BY CompilerAssumption DEF Observation
  <1>5. PICK w : w = Loaded(mem[p], e)
    OBVIOUS
  <1>6. QuietWith(w, NoTx) /\ w.states[e] = state_projection[e]
    BY <1>2, <1>3, <1>5, LoadedQuiet
  <1>7. Typed(w) /\ Backed(w) /\ DOMAIN w.commits \subseteq DOMAIN mem[p].commits \cup StoredIds
    BY <1>2, <1>5, LoadedKeeps
  <1>8. CASE o.id \in observation_log
    <2>1. state_projection[e] # NoValue
      BY <1>3, <1>4, <1>8 DEF QuietTables
    <2>2. mem' = [mem EXCEPT ![p] = w] /\ tx' = [tx EXCEPT ![p] = NoTx]
      BY <1>2, <1>4, <1>5, <1>8, <2>1 DEF ApiIngest
    <2>3. PICK t : t = NoTx
      OBVIOUS
    <2>4. Works(p, w, t)
      BY <1>1, <2>2, <2>3 DEF Works
    <2> QED
      BY <1>6, <2>3, <2>4, EmptyQuiet, QuietEnds
  <1>9. CASE o.id \notin observation_log
    <2>1. PICK v : v = WithStoredConflicts(w, conflict_table)
      OBVIOUS
    <2>2. Named(conflict_table)
      BY <1>2 DEF TablesTyped
    <2>3. /\ Typed(v) /\ Backed(v)
          /\ v.states = w.states /\ v.commits = w.commits
          /\ \A i \in ConflictIds :
                conflict_table[i] # NoValue => v.conflicts[i] = conflict_table[i]
      BY <1>7, <2>1, <2>2, StoredConflictsKeep
    <2>4. QuietWith(v, NoTx)
      BY <1>3, <1>6, <1>7, <2>1, <2>2, StoredConflictsQuiet
    <2>5. Ingesting(p, v, o, "ingest")
      BY <1>4, <1>5, <1>9, <2>1 DEF ApiIngest
    <2>6. Held(NoTx) = observation_log
      BY EmptyQuiet
    <2>7. o.id \notin v.seen /\ Whole(v)
      BY <1>9, <2>4, <2>6 DEF QuietWith
    <2>8. /\ FreshId \in 1..MaxCommits
          /\ FreshId \notin StoredIds /\ FreshId \notin DOMAIN mem[p].commits
      BY <1>1, BeginFacts
    <2>9. PICK c \in 1..MaxCommits : c = FreshId
      BY <2>8
    <2>10. c \notin DOMAIN v.commits /\ c \notin StoredIds
      BY <1>7, <2>3, <2>8, <2>9
    <2>11. PICK u : u = Ingest(v, o, c)
      OBVIOUS
    <2>12. ~Raises(v, o) /\ Compiled(v, o, c, u)
      BY <2>3, <2>7, <2>10, <2>11, IngestCompiles
    <2>13. PICK conflicts : conflicts = u.conflicts
      OBVIOUS
    <2>14. PICK kind \in {"ingest", "verify", "resolve", "read", "observe"} : kind = "ingest"
      OBVIOUS
    <2>15. PICK t : t = [Storing(kind, u, e, o) EXCEPT !.conflicts = conflicts]
      OBVIOUS
    <2>16. mem' = [mem EXCEPT ![p] = u] /\ tx' = [tx EXCEPT ![p] = t]
      BY <1>4, <2>5, <2>9, <2>11, <2>12, <2>13, <2>14, <2>15 DEF Ingesting
    <2>17. Works(p, u, t)
      BY <1>1, <2>16 DEF Works
    <2>18. /\ Named(conflicts) /\ Typed(u) /\ Backed(u) /\ u.states[e] # NoValue
           /\ Stores(t, kind, u, e, o, conflicts) /\ o \in Offered \cup {NoValue}
      BY <1>4, <2>12, <2>13, <2>15 DEF Compiled, Typed, Stores
    <2>19. t \in Transaction /\ TxBacked(t) /\ Stored(t, kind, u, e, o, conflicts)
      BY <2>18, StoringFacts
    <2>20. v.states[e] = state_projection[e]
      BY <1>6, <2>3
    <2>a. Persists(e, u, t)
      <3>1. TablesTyped /\ ProjectionIsBackedByLog /\ c \notin StoredIds
        BY <1>2, <2>10
      <3>2. Compiled(v, o, c, u) /\ TxBacked(t) /\ Stored(t, kind, u, e, o, conflicts)
        BY <2>12, <2>19
      <3> QED
        BY <1>4, <2>20, <3>1, <3>2, PersistFacts
    <2>21. /\ Placed(e, t)
           /\ t.commit # NoValue =>
                 /\ t.commit.record.entity = e
                 /\ t.commit.record.before = StoredValues(e)
                 /\ t.state.version = NextVersion(state_projection[e])
           /\ ProjectionAfter(t)[e] = u.states[e]
      BY <2>a DEF Persists
    <2>22. /\ t.observation = o /\ o # NoValue /\ Held(t) = observation_log \cup {o.id}
           /\ t.kind = "ingest" /\ t.conflicts = u.conflicts
      BY <2>13, <2>14, <2>19, NoValueAssumption DEF Stored, Held
    <2>b. Told(u, Held(t)) /\ Tells(t, Held(t))
      <3>1. Told(v, observation_log)
        BY <2>4, <2>6 DEF QuietWith
      <3>2. Told(u, Held(t))
        BY <2>12, <2>22, <3>1 DEF Compiled
      <3>3. CandidatesIn(t.conflicts, Held(t))
        BY <2>22, <3>2 DEF Told
      <3> QED
        BY <2>18, <2>19, <3>2, <3>3, StoredTells DEF Stored
    <2>23. QuietWith(u, t)
      <3>1. Whole(u) /\ u.seen \subseteq Held(t)
        BY <2>4, <2>6, <2>12, <2>22 DEF Compiled, QuietWith
      <3>2. \A f \in Entities : u.states[f] # NoValue => Placed(f, t)
        <4>1. \A f \in Entities : v.states[f] # NoValue => state_projection[f] # NoValue
          BY <2>4 DEF QuietWith, Placed, NoTx
        <4> QED
          BY <1>4, <2>12, <2>21, <4>1 DEF Compiled, Placed
      <3>3. \A i \in ConflictIds : u.conflicts[i] # NoValue => i[1] \in Held(t)
        BY <2>4, <2>6, <2>12, <2>22 DEF Compiled, QuietWith
      <3> QED
        BY <1>4, <2>b, <2>21, <2>22, <3>1, <3>2, <3>3 DEF QuietWith
    <2>24. SoleWith(t)
      <3>1. ASSUME NEW i \in ConflictIds, conflict_table[i] # NoValue,
                   conflict_table[i].status = "resolved"
            PROVE  t.conflicts[i] = conflict_table[i]
        <4>1. v.conflicts[i] = conflict_table[i] /\ i[1] # o.id
          BY <1>3, <1>9, <2>3, <3>1 DEF QuietTables
        <4> QED
          BY <2>12, <2>22, <3>1, <4>1 DEF Compiled
      <3>2. Shown(o, ProjectionAfter(t), RowsAfter(t))
        <4>1. PICK projection : projection = ProjectionAfter(t)
          OBVIOUS
        <4>2. PICK rows : rows = RowsAfter(t)
          OBVIOUS
        <4>3. \A i \in ConflictIds : u.conflicts[i] # NoValue => rows[i] = u.conflicts[i]
          BY <2>22, <4>2 DEF RowsAfter
        <4>4. projection[o.entity] # NoValue /\ projection[o.entity] = u.states[o.entity]
          BY <1>4, <2>18, <2>21, <4>1
        <4>5. ASSUME NEW n \in Attributes, o.payload[n] # NoValue,
                     ValuesOf(projection[o.entity].attributes)[n] # o.payload[n]
              PROVE  Disputes(rows, o, n)
          <5>1. Disputes(u.conflicts, o, n)
            BY <2>12, <4>4, <4>5 DEF Compiled
          <5>2. PICK i \in ConflictIds :
                    /\ u.conflicts[i] # NoValue
                    /\ u.conflicts[i].entity = o.entity /\ u.conflicts[i].attribute = n
                    /\ u.conflicts[i].status = "open"
                    /\ Sides(u.conflicts[i], o, n)
            BY <5>1 DEF Disputes
          <5> QED
            BY <4>3, <5>2 DEF Disputes
        <4>6. Shown(o, projection, rows)
          BY <4>4, <4>5 DEF Shown, Disputes, Sides
        <4> QED
          BY <4>1, <4>2, <4>6
      <3>3. ASSUME NEW n \in Attributes,
                   FreshOfAnother(AttributeIn(state_projection, e, n), o.connector)
            PROVE  SameValue(o, n, state_projection, ProjectionAfter(t))
        <4>1. PICK projection : projection = ProjectionAfter(t)
          OBVIOUS
        <4>2. state_projection[e] # NoValue
          BY <3>3 DEF FreshOfAnother, AttributeIn
        <4>3. PreviousAttributes(v, e)[n] = AttributeIn(state_projection, e, n)
          BY <2>20, <4>2 DEF PreviousAttributes, AttributeIn
        <4>4. Stays(PreviousAttributes(v, e)[n], u.states[e].attributes[n], o.connector)
          BY <1>4, <2>12 DEF Compiled
        <4>5. projection[e] = u.states[e] /\ projection[e] # NoValue
          BY <2>18, <2>21, <4>1
        <4>6. SameValue(o, n, state_projection, projection)
          BY <1>4, <3>3, <4>3, <4>4, <4>5 DEF Stays, SameValue, AttributeIn
        <4> QED
          BY <4>1, <4>6
      <3> QED
        BY <1>4, <2>21, <2>22, <3>1, <3>2, <3>3 DEF SoleWith
    <2> QED
      BY <2>17, <2>23, <2>24, QuietEnds
  <1> QED
    BY <1>8, <1>9

LEMMA QuietResolve ==
    ASSUME Inv, QuietInv, NEW p \in Processes, NEW i \in ConflictIds,
           NEW value \in Values, ApiResolve(p, i, value)
    PROVE  QuietOutcome(p)
  <1>1. /\ Begins(p) /\ conflict_table[i] # NoValue /\ conflict_table[i].status = "open"
    BY DEF ApiResolve
  <1>2. /\ tx[p] = NoTx /\ Typed(mem[p]) /\ Backed(mem[p])
        /\ TablesTyped /\ ProjectionIsBackedByLog
    BY <1>1, IdleFacts DEF Begins
  <1>3. QuietTables /\ QuietWith(mem[p], NoTx)
    BY <1>2 DEF QuietInv
  <1>4. PICK e, row, w, c, v, t : Resolution(p, i, e, row, w, c, v, t)
    BY ApiResolveFacts
  <1>5. /\ e \in Entities /\ Named(row) /\ row[i] = conflict_table[i]
        /\ \A j \in ConflictIds : j # i => row[j] = NoValue
        /\ w = WithStoredConflicts(Loaded(mem[p], e), row)
    BY <1>4 DEF Resolution
  <1>6. PICK l : l = Loaded(mem[p], e)
    OBVIOUS
  <1>7. QuietWith(l, NoTx) /\ l.states[e] = state_projection[e]
    BY <1>2, <1>3, <1>5, <1>6, LoadedQuiet
  <1>8. Typed(l) /\ Backed(l)
    BY <1>2, <1>5, <1>6, LoadedKeeps
  <1>9. w = WithStoredConflicts(l, row)
    BY <1>5, <1>6
  <1>10. \A j \in ConflictIds : row[j] \in {NoValue, conflict_table[j]}
    BY <1>5
  <1>11. QuietWith(w, NoTx)
    BY <1>3, <1>5, <1>7, <1>8, <1>9, <1>10, StoredConflictsQuiet
  <1>12. w.states[e] = state_projection[e]
    BY <1>5, <1>7, <1>8, <1>9, StoredConflictsKeep
  <1>13. /\ Works(p, v, t) /\ v.seen = w.seen /\ v.conflicts[i].status = "resolved"
         /\ \A j \in ConflictIds : j # i => v.conflicts[j] = w.conflicts[j]
         /\ Pending(w) => Pending(v)
         /\ \A f \in Entities : w.states[f] # NoValue => v.states[f] # NoValue
         /\ \/ /\ v.states = w.states /\ v.commits = w.commits /\ v.latest = w.latest
            \/ /\ v.latest = c /\ w.states[e] # NoValue /\ v.states[e].commit = c
               /\ v.states[e].version = NextVersion(w.states[e])
               /\ \A f \in Entities : f # e => v.states[f] = w.states[f]
               /\ DOMAIN v.commits = DOMAIN w.commits \cup {c}
               /\ v.commits[c].before = ValuesOf(PreviousAttributes(w, e))
    BY <1>4 DEF Resolution
  <1>14. /\ t.kind = "resolve" /\ t.observation = NoValue
         /\ \A j \in ConflictIds : j # i => t.conflicts[j] = NoValue
         /\ t.commit # NoValue =>
               /\ v.states[e].commit \notin StoredIds /\ state_projection[e] # NoValue
               /\ t.state = v.states[e] /\ t.commit.id = v.states[e].commit
               /\ t.commit.record = v.commits[t.commit.id] /\ t.commit.record.entity = e
    BY <1>4 DEF Resolution
  <1>15. Held(NoTx) = observation_log /\ Held(t) = observation_log
    BY <1>14, EmptyQuiet DEF Held
  <1>16. \A f \in Entities : v.states[f] # NoValue => state_projection[f] # NoValue
    <2>1. \A f \in Entities : w.states[f] # NoValue => state_projection[f] # NoValue
      BY <1>11 DEF QuietWith, Placed, NoTx
    <2> QED
      BY <1>13, <2>1
  <1>17. Whole(v)
    <2>1. Whole(w)
      BY <1>11 DEF QuietWith
    <2>2. KnowsHead(v) /\ Pending(v)
      BY <1>13, <2>1 DEF Whole, KnowsHead
    <2>3. \A o \in Offered : o.entity \in Entities
      BY CompilerAssumption DEF Observation
    <2> QED
      BY <1>13, <2>1, <2>2, <2>3 DEF Whole
  <1>18. QuietWith(v, t)
    <2>1. v.seen \subseteq Held(t)
      BY <1>11, <1>13, <1>15 DEF QuietWith
    <2>2. i[1] \in observation_log
      BY <1>1, <1>3 DEF QuietTables
    <2>3. ASSUME NEW j \in ConflictIds, j # i
          PROVE  /\ v.conflicts[j] # NoValue \/ t.conflicts[j] # NoValue => j[1] \in Held(t)
                 /\ /\ Workers = {}
                    /\ v.conflicts[j] # NoValue /\ v.conflicts[j].status = "open"
                    => conflict_table[j] # NoValue \/ t.conflicts[j] # NoValue
      BY <1>11, <1>13, <1>14, <1>15, <2>3 DEF QuietWith, NoTx, NoConflicts
    <2>4. /\ v.conflicts[i] # NoValue \/ t.conflicts[i] # NoValue => i[1] \in Held(t)
          /\ v.conflicts[i] # NoValue /\ v.conflicts[i].status = "open" =>
                conflict_table[i] # NoValue \/ t.conflicts[i] # NoValue
      BY <1>1, <1>15, <2>2
    <2>5. Told(v, Held(t))
      <3>1. PICK value2 \in Values : v = Resolve(w, i, value2, c)
        BY <1>4 DEF Resolution
      <3>2. /\ c \in 1..MaxCommits /\ {c} \cap UsedIds = {} /\ c \notin StoredIds
            /\ DOMAIN w.commits \subseteq DOMAIN mem[p].commits \cup StoredIds
            /\ w.conflicts[i] = row[i]
        BY <1>4 DEF Resolution
      <3>3. c \notin DOMAIN w.commits
        BY <3>2, UsedFacts DEF IdsOf
      <3>4. Typed(w) /\ Backed(w)
        BY <1>5, <1>8, <1>9, StoredConflictsKeep
      <3>5. Told(w, Held(t)) /\ w.conflicts[i] # NoValue
        BY <1>1, <1>5, <1>11, <1>15, <3>2 DEF QuietWith
      <3> QED
        BY <3>1, <3>2, <3>3, <3>4, <3>5, ResolveTells
    <2>6. Tells(t, Held(t))
      <3>1. TxBacked(t) /\ (t.commit # NoValue => t.commit.id \in DOMAIN v.commits)
        BY <1>4 DEF Resolution
      <3>2. CandidatesIn(t.conflicts, Held(t))
        <4>1. t.conflicts[i] = v.conflicts[i]
          BY <1>4 DEF Resolution
        <4> QED
          BY <1>14, <2>5, <4>1 DEF Told, CandidatesIn
      <3>3. CASE t.commit = NoValue
        BY <3>1, <3>2, <3>3 DEF Tells, TxBacked
      <3>4. CASE t.commit # NoValue
        <4>1. v.states[e] # NoValue
          BY <1>12, <1>13, <1>14, <3>4, <1>5
        <4> QED
          BY <1>5, <1>14, <2>5, <3>1, <3>2, <4>1, StoredTells
      <3> QED
        BY <3>3, <3>4
    <2> QED
      BY <1>14, <1>16, <1>17, <2>1, <2>3, <2>4, <2>5, <2>6 DEF QuietWith, Placed
  <1>19. SoleWith(t)
    <2>1. ASSUME t.commit # NoValue
          PROVE  /\ t.commit.record.before = StoredValues(e)
                 /\ t.state.version = NextVersion(state_projection[e])
                 /\ t.commit.record.entity = e
      <3>1. v.states # w.states
        <4>1. state_projection[e].commit \in StoredIds
          BY <1>2, <1>5, <1>14, <2>1 DEF ProjectionIsBackedByLog, RowsFor, StoredIds
        <4> QED
          BY <1>12, <1>14, <2>1, <4>1
      <3>2. ValuesOf(PreviousAttributes(w, e)) = StoredValues(e)
        BY <1>12 DEF PreviousAttributes, StoredValues
      <3> QED
        BY <1>12, <1>13, <1>14, <2>1, <3>1, <3>2
    <2>2. \A j \in ConflictIds : conflict_table[j].status = "resolved" => t.conflicts[j] = NoValue
      BY <1>1, <1>14
    <2> QED
      BY <1>14, <2>1, <2>2 DEF SoleWith
  <1> QED
    BY <1>13, <1>18, <1>19, QuietEnds

\* What a command or a worker stores of an observation, without its disputes.
LEMMA QuietReading ==
    ASSUME TablesTyped, ProjectionIsBackedByLog, QuietTables,
           NEW o \in Offered, NEW e \in Entities, e = o.entity,
           NEW w, Typed(w), Backed(w), Whole(w), o.id \notin w.seen,
           w.states[e] # NoValue => state_projection[e] # NoValue,
           Told(w, observation_log),
           NEW c \in 1..MaxCommits, c \notin DOMAIN w.commits, c \notin StoredIds,
           NEW kind \in {"ingest", "verify", "resolve", "read", "observe"},
           NEW u, u = Ingest(w, o, c), NEW t, t = Storing(kind, u, e, o)
    PROVE  /\ ~Raises(w, o) /\ Compiled(w, o, c, u)
           /\ Placed(e, t) /\ Told(u, Held(t)) /\ Tells(t, Held(t))
           /\ t.observation = o /\ t.kind = kind /\ Held(t) = observation_log \cup {o.id}
           /\ \A i \in ConflictIds : t.conflicts[i] = NoValue
  <1>1. ~Raises(w, o) /\ Compiled(w, o, c, u)
    BY IngestCompiles
  <1>2. PICK conflicts : conflicts = NoConflicts
    OBVIOUS
  <1>3. /\ Named(conflicts) /\ Typed(u) /\ Backed(u) /\ u.states[e] # NoValue
        /\ Stores(t, kind, u, e, o, conflicts) /\ o \in Offered \cup {NoValue}
    BY <1>1, <1>2, EmptyFacts DEF Compiled, Stores
  <1>4. TxBacked(t) /\ Stored(t, kind, u, e, o, conflicts)
    BY <1>3, StoringFacts
  <1>5. /\ t.observation = o /\ t.kind = kind
        /\ \A i \in ConflictIds : t.conflicts[i] = NoValue
    BY <1>2, <1>4 DEF Stored, NoConflicts
  <1>6. Placed(e, t)
    <2>1. CASE u.states = w.states
      BY <1>3, <2>1 DEF Placed
    <2>2. CASE u.states[e].commit = c
      BY <1>4, <2>2 DEF Stored, Placed
    <2> QED
      BY <1>1, <2>1, <2>2 DEF Compiled
  <1>7. Held(t) = observation_log \cup {o.id}
    BY <1>5, NoValueAssumption DEF Held
  <1>8. Told(u, Held(t))
    BY <1>1, <1>7 DEF Compiled
  <1>9. CandidatesIn(t.conflicts, Held(t))
    BY <1>5 DEF CandidatesIn
  <1>10. Tells(t, Held(t))
    BY <1>3, <1>4, <1>8, <1>9, StoredTells DEF Stored
  <1> QED
    BY <1>1, <1>5, <1>6, <1>7, <1>8, <1>10

LEMMA QuietCommand ==
    ASSUME Inv, QuietInv, NEW p \in Commands, NEW o \in Offered, ObserveCommand(p, o)
    PROVE  p \in Processes /\ QuietOutcome(p)
  <1>0. p \in Processes
    BY DEF Processes
  <1>1. Begins(p) /\ UNCHANGED <<tables, mem>> /\ o.id \notin observation_log
    BY DEF ObserveCommand
  <1>2. /\ tx[p] = NoTx /\ TablesTyped /\ ProjectionIsBackedByLog
    BY <1>0, <1>1, IdleFacts DEF Begins
  <1>3. QuietTables /\ QuietWith(mem[p], NoTx)
    BY <1>0, <1>2 DEF QuietInv
  <1>4. PICK e \in Entities : e = o.entity
    BY CompilerAssumption DEF Observation
  <1>5. PICK w : w = LoadedByCommand(e)
    OBVIOUS
  <1>6. /\ Typed(w) /\ Backed(w) /\ KnowsHead(w) /\ Pending(w)
        /\ w.seen = {} /\ w.conflicts = NoConflicts
        /\ DOMAIN w.commits \subseteq StoredIds
        /\ \A d \in DOMAIN w.commits : w.commits[d].observations = {}
        /\ \A f \in Entities : f # e => w.states[f] = NoValue
        /\ state_projection[e] = NoValue => w.states[e] = NoValue
        /\ state_projection[e] # NoValue => w.states[e] = Rebuilt(state_projection[e])
    BY <1>2, <1>5, CommandLoads
  <1>7. Whole(w)
    BY <1>6 DEF Whole
  <1>8. Told(w, observation_log)
    <2>1. ASSUME w.states[e] # NoValue
          PROVE  SourcesIn(w.states[e].attributes, observation_log)
      <3>1. PICK stored \in EntityState : stored = state_projection[e]
        BY <1>2, <1>6, <2>1 DEF TablesTyped
      <3>2. PICK state : state = Rebuilt(stored)
        OBVIOUS
      <3>3. \A n \in Attributes :
               IF stored.attributes[n] = NoValue THEN state.attributes[n] = NoValue
               ELSE /\ state.attributes[n] \in Attribute
                    /\ state.attributes[n].source = stored.attributes[n].source
        BY <3>2, RebuiltFacts
      <3>4. SourcesIn(stored.attributes, observation_log) /\ w.states[e] = state
        BY <1>3, <1>6, <2>1, <3>1, <3>2 DEF QuietTables
      <3> QED
        BY <3>3, <3>4 DEF SourcesIn
    <2>2. CandidatesIn(w.conflicts, observation_log)
      BY <1>6 DEF CandidatesIn, NoConflicts
    <2> QED
      BY <1>6, <2>1, <2>2 DEF Told
  <1>9. FreshId \in 1..MaxCommits /\ FreshId \notin StoredIds
    BY <1>0, <1>1, BeginFacts
  <1>10. PICK c \in 1..MaxCommits : c = FreshId
    BY <1>9
  <1>11. c \notin DOMAIN w.commits /\ c \notin StoredIds
    BY <1>6, <1>9, <1>10
  <1>12. PICK u : u = Ingest(w, o, c)
    OBVIOUS
  <1>13. PICK kind \in {"ingest", "verify", "resolve", "read", "observe"} : kind = "observe"
    OBVIOUS
  <1>14. PICK t : t = Storing(kind, u, e, o)
    OBVIOUS
  <1>15. /\ Placed(e, t) /\ Tells(t, Held(t)) /\ t.observation = o /\ t.kind = "observe"
         /\ \A i \in ConflictIds : t.conflicts[i] = NoValue
    BY <1>2, <1>3, <1>4, <1>6, <1>7, <1>8, <1>11, <1>12, <1>13, <1>14, QuietReading
  <1>16. PICK v : v = mem[p]
    OBVIOUS
  <1>17. Works(p, v, t)
    <2>1. tx' = [tx EXCEPT ![p] = t]
      BY <1>4, <1>5, <1>10, <1>12, <1>13, <1>14 DEF ObserveCommand
    <2>2. mem' = [mem EXCEPT ![p] = v]
      BY <1>1, <1>16 DEF Inv
    <2> QED
      BY <1>1, <2>1, <2>2 DEF Works
  <1>18. observation_log \subseteq Held(t)
    BY DEF Held
  <1>19. QuietWith(v, t)
    <2>1. /\ Whole(v) /\ v.seen \subseteq observation_log /\ Told(v, observation_log)
          /\ \A f \in Entities : v.states[f] # NoValue => state_projection[f] # NoValue
          /\ \A i \in ConflictIds :
                /\ v.conflicts[i] # NoValue => i[1] \in observation_log
                /\ /\ Workers = {}
                   /\ v.conflicts[i] # NoValue /\ v.conflicts[i].status = "open"
                   => conflict_table[i] # NoValue
      BY <1>3, <1>16, EmptyQuiet DEF QuietWith, Placed, NoTx, NoConflicts
    <2>2. Told(v, Held(t))
      BY <1>18, <2>1, ToldMore
    <2> QED
      BY <1>4, <1>15, <1>18, <2>1, <2>2 DEF QuietWith, Placed
  <1> QED
    BY <1>0, <1>17, <1>19, QuietEnds

LEMMA QuietWorker ==
    ASSUME Inv, QuietInv, NEW p \in Workers, NEW o \in Offered, WorkerRead(p, o)
    PROVE  p \in Processes /\ QuietOutcome(p)
  <1>0. p \in Processes
    BY DEF Processes
  <1>1. Begins(p) /\ UNCHANGED tables /\ o.id \notin observation_log
    BY DEF WorkerRead
  <1>2. /\ tx[p] = NoTx /\ Typed(mem[p]) /\ Backed(mem[p])
        /\ TablesTyped /\ ProjectionIsBackedByLog
    BY <1>0, <1>1, IdleFacts DEF Begins
  <1>3. QuietTables /\ QuietWith(mem[p], NoTx)
    BY <1>0, <1>2 DEF QuietInv
  <1>4. PICK e \in Entities : e = o.entity
    BY CompilerAssumption DEF Observation
  <1>5. PICK w : w = Loaded(mem[p], e)
    OBVIOUS
  <1>6. QuietWith(w, NoTx) /\ w.states[e] = state_projection[e]
    BY <1>2, <1>3, <1>5, LoadedQuiet
  <1>7. Typed(w) /\ Backed(w) /\ DOMAIN w.commits \subseteq DOMAIN mem[p].commits \cup StoredIds
    BY <1>2, <1>5, LoadedKeeps
  <1>8. /\ Whole(w) /\ w.seen \subseteq observation_log /\ Told(w, observation_log)
        /\ \A f \in Entities : w.states[f] # NoValue => state_projection[f] # NoValue
        /\ \A i \in ConflictIds : w.conflicts[i] # NoValue => i[1] \in observation_log
    BY <1>6, EmptyQuiet DEF QuietWith, Placed, NoTx
  <1>9. /\ FreshId \in 1..MaxCommits /\ FreshId \notin StoredIds
        /\ FreshId \notin DOMAIN mem[p].commits
    BY <1>0, <1>1, BeginFacts
  <1>10. PICK c \in 1..MaxCommits : c = FreshId
    BY <1>9
  <1>11. c \notin DOMAIN w.commits /\ c \notin StoredIds
    BY <1>7, <1>9, <1>10
  <1>12. PICK u : u = Ingest(w, o, c)
    OBVIOUS
  <1>13. PICK kind \in {"ingest", "verify", "resolve", "read", "observe"} : kind = "read"
    OBVIOUS
  <1>14. PICK t : t = Storing(kind, u, e, o)
    OBVIOUS
  <1>15. o.id \notin w.seen
    BY <1>1, <1>8
  <1>16. /\ ~Raises(w, o) /\ Compiled(w, o, c, u)
         /\ Placed(e, t) /\ Told(u, Held(t)) /\ Tells(t, Held(t))
         /\ t.observation = o /\ t.kind = "read"
         /\ Held(t) = observation_log \cup {o.id}
         /\ \A i \in ConflictIds : t.conflicts[i] = NoValue
    BY <1>2, <1>3, <1>4, <1>7, <1>8, <1>11, <1>12, <1>13, <1>14, <1>15, QuietReading
  <1>17. Works(p, u, t)
    <2>1. Ingesting(p, w, o, "read")
      BY <1>4, <1>5 DEF WorkerRead
    <2>2. mem' = [mem EXCEPT ![p] = u] /\ tx' = [tx EXCEPT ![p] = t]
      BY <1>4, <1>10, <1>12, <1>13, <1>14, <1>16, <2>1 DEF Ingesting
    <2> QED
      BY <1>1, <2>2 DEF Works
  <1>18. QuietWith(u, t)
    <2>1. Whole(u) /\ u.seen \subseteq Held(t)
      BY <1>8, <1>16 DEF Compiled
    <2>2. \A f \in Entities : u.states[f] # NoValue => Placed(f, t)
      BY <1>4, <1>8, <1>16 DEF Compiled, Placed
    <2>3. \A i \in ConflictIds : u.conflicts[i] # NoValue => i[1] \in Held(t)
      BY <1>8, <1>16 DEF Compiled
    <2> QED
      BY <1>4, <1>16, <2>1, <2>2, <2>3 DEF QuietWith
  <1> QED
    BY <1>0, <1>17, <1>18, QuietEnds

LEMMA QuietRestart ==
    ASSUME NEW p \in Processes, Restart(p)
    PROVE  QuietOutcome(p)
  <1>1. PICK v : v = EmptyService
    OBVIOUS
  <1>2. PICK t : t = NoTx
    OBVIOUS
  <1>3. Works(p, v, t)
    BY <1>1, <1>2 DEF Restart, Works
  <1> QED
    BY <1>1, <1>2, <1>3, EmptyQuiet, QuietEnds

LEMMA QuietStep ==
    ASSUME ~Failing, Handlers \subseteq {"ingest", "resolve"},
           Inv, QuietInv, [Next]_vars
    PROVE  UNCHANGED vars \/ \E p \in Processes : QuietOutcome(p) \/ Store(p)
  <1>1. Apis \subseteq Processes
    BY DEF Processes
  <1>2. \A p \in Apis, o \in Offered : ~ApiVerify(p, o)
    BY DEF ApiVerify
  <1>3. \A p \in Apis, e \in Entities : ~ApiLook(p, e)
    BY DEF ApiLook
  <1>4. \A p \in Processes : ~Rollback(p)
    BY DEF Rollback, QuietInv, QuietWith
  <1>5. ASSUME NEW p \in Apis, NEW o \in Offered, ApiIngest(p, o)
        PROVE  p \in Processes /\ QuietOutcome(p)
    BY <1>1, <1>5, QuietIngest
  <1>6. ASSUME NEW p \in Apis, NEW i \in ConflictIds, NEW value \in Values,
               ApiResolve(p, i, value)
        PROVE  p \in Processes /\ QuietOutcome(p)
    BY <1>1, <1>6, QuietResolve
  <1>7. ASSUME NEW p \in Commands, NEW o \in Offered, ObserveCommand(p, o)
        PROVE  p \in Processes /\ QuietOutcome(p)
    BY <1>7, QuietCommand
  <1>8. ASSUME NEW p \in Processes, Restart(p)
        PROVE  QuietOutcome(p)
    BY <1>8, QuietRestart
  <1>9. ASSUME NEW p \in Workers, NEW o \in Offered, WorkerRead(p, o)
        PROVE  p \in Processes /\ QuietOutcome(p)
    BY <1>9, QuietWorker
  <1> QED
    BY <1>2, <1>3, <1>4, <1>5, <1>6, <1>7, <1>8, <1>9, Zenon DEF Next

\* What a process has, and is to store, is quiet as long as the tables stay.
LEMMA QuietSame ==
    ASSUME UNCHANGED tables, NEW p \in Processes, QuietWith(mem'[p], tx'[p])
    PROVE  QuietWith(mem[p], tx[p])'
  <1>1. /\ observation_log' = observation_log /\ state_projection' = state_projection
        /\ conflict_table' = conflict_table /\ commit_log' = commit_log
    BY DEF tables
  <1>2. StoredIds' = StoredIds
    BY <1>1 DEF StoredIds
  <1>3. Held(tx[p])' = Held(tx'[p])
    BY <1>1 DEF Held
  <1>4. \A e : Placed(e, tx[p])' <=> Placed(e, tx'[p])
    BY <1>1 DEF Placed
  <1>5. Told(mem[p], Held(tx[p]))'
    <2>1. Told(mem'[p], Held(tx'[p]))
      BY DEF QuietWith
    <2> QED
      BY <1>2, <1>3, <2>1 DEF Told
  <1>6. Tells(tx[p], Held(tx[p]))'
    <2>1. Tells(tx'[p], Held(tx'[p]))
      BY DEF QuietWith
    <2> QED
      BY <1>3, <2>1
  <1> QED
    BY <1>1, <1>3, <1>4, <1>5, <1>6 DEF QuietWith

LEMMA QuietOutcomeKeeps ==
    ASSUME Inv, QuietInv, NEW p \in Processes, QuietOutcome(p)
    PROVE  QuietInv'
  <1>1. PICK v, t : Works(p, v, t) /\ QuietWith(v, t)
    BY DEF QuietOutcome
  <1>2. /\ observation_log' = observation_log /\ state_projection' = state_projection
        /\ conflict_table' = conflict_table /\ commit_log' = commit_log
        /\ mem'[p] = v /\ tx'[p] = t
        /\ \A q \in Processes : q # p => mem'[q] = mem[q] /\ tx'[q] = tx[q]
    BY <1>1 DEF Works, tables, Inv
  <1>3. QuietTables'
    BY <1>2 DEF QuietInv, QuietTables, CommitsAreTraceable, CandidatesIn
  <1>4. ASSUME NEW q \in Processes
        PROVE  QuietWith(mem[q], tx[q])'
    <2>1. QuietWith(mem'[q], tx'[q])
      BY <1>1, <1>2 DEF QuietInv
    <2> QED
      BY <1>2, <2>1, QuietSame DEF tables
  <1> QED
    BY <1>3, <1>4 DEF QuietInv

LEMMA QuietStoreKeeps ==
    ASSUME Inv, QuietInv, NEW p \in Processes, Store(p)
    PROVE  QuietInv'
  <1>1. PICK t \in Transaction : t = tx[p]
    BY DEF Inv
  <1>2. TxBacked(t) /\ TablesTyped /\ tx \in [Processes -> Transaction]
    BY <1>1 DEF Inv
  <1>3. /\ t.commit = NoValue => state_projection' = state_projection
        /\ t.commit # NoValue =>
              /\ t.state \in EntityState
              /\ state_projection' =
                     [state_projection EXCEPT ![t.commit.record.entity] = t.state]
    BY <1>1, StoreFacts
  <1>4. /\ observation_log' = IF t.observation = NoValue THEN observation_log
                              ELSE observation_log \cup {t.observation.id}
        /\ conflict_table' = [i \in ConflictIds |->
               IF t.conflicts[i] = NoValue THEN conflict_table[i] ELSE t.conflicts[i]]
        /\ tx' = [tx EXCEPT ![p] = NoTx] /\ mem' = mem
    BY <1>1 DEF Store, Ends, Logs, SavesConflicts
  <1>5. observation_log' = Held(t)
    BY <1>4 DEF Held
  <1>6. /\ tx'[p] = NoTx
        /\ \A q \in Processes : q # p => tx'[q] = tx[q]
    BY <1>2, <1>4
  <1>7. \A e \in Entities :
           state_projection[e] # NoValue \/ Placed(e, t) => state_projection'[e] # NoValue
    BY <1>2, <1>3, NoValueAssumption DEF Placed, TablesTyped
  <1>8. \A i \in ConflictIds :
           conflict_table'[i] # NoValue <=> conflict_table[i] # NoValue \/ t.conflicts[i] # NoValue
    BY <1>4
  <1>9. QuietTables /\ QuietWith(mem[p], t)
    BY <1>1 DEF QuietInv
  <1>a. /\ commit_log' \in Seq(Row)
        /\ \A i \in DOMAIN commit_log' :
              \/ i \in DOMAIN commit_log /\ commit_log'[i] = commit_log[i]
              \/ t.commit # NoValue /\ commit_log'[i] = t.commit
        /\ \A i \in DOMAIN commit_log :
              i \in DOMAIN commit_log' /\ commit_log'[i] = commit_log[i]
    <2>1. commit_log' = IF t.commit = NoValue THEN commit_log
                        ELSE Append(commit_log, t.commit)
      BY <1>1 DEF Store, Appends
    <2>2. commit_log \in Seq(Row) /\ (t.commit # NoValue => t.commit \in Row)
      BY <1>1, <1>2 DEF TablesTyped, Transaction
    <2>3. CASE t.commit = NoValue
      BY <2>1, <2>2, <2>3
    <2>4. CASE t.commit # NoValue
      BY <2>1, <2>2, <2>4
    <2> QED
      BY <2>3, <2>4
  <1>b. StoredIds \subseteq StoredIds'
    BY <1>a DEF StoredIds
  <1>c. observation_log \subseteq observation_log' /\ Tells(t, observation_log')
    BY <1>4, <1>5, <1>9 DEF QuietWith
  <1>10. QuietTables'
    <2>1. ASSUME NEW o \in Offered, o.id \in observation_log'
          PROVE  state_projection'[o.entity] # NoValue
      <3>1. o.entity \in Entities
        BY CompilerAssumption DEF Observation
      <3>2. CASE o.id \in observation_log
        BY <1>7, <1>9, <3>1, <3>2 DEF QuietTables
      <3>3. CASE t.observation # NoValue /\ o.id = t.observation.id
        <4>1. t.observation \in Offered
          BY <3>3 DEF Transaction
        <4>2. o.entity = t.observation.entity
          BY <3>3, <4>1, CompilerAssumption
        <4> QED
          BY <1>7, <1>9, <3>1, <3>3, <4>2 DEF QuietWith
      <3> QED
        BY <1>4, <2>1, <3>2, <3>3
    <2>2. \A i \in ConflictIds : conflict_table'[i] # NoValue => i[1] \in observation_log'
      BY <1>5, <1>8, <1>9 DEF QuietTables, QuietWith, Held
    <2>3. CommitsAreTraceable'
      BY <1>9, <1>a, <1>c DEF QuietTables, CommitsAreTraceable, Tells
    <2>4. CandidatesIn(conflict_table, observation_log)'
      BY <1>4, <1>9, <1>c DEF QuietTables, CandidatesIn, Tells
    <2>5. \A e \in Entities : state_projection'[e] # NoValue =>
             SourcesIn(state_projection'[e].attributes, observation_log')
      BY <1>2, <1>3, <1>9, <1>c DEF QuietTables, TablesTyped, TxBacked, Tells, SourcesIn
    <2> QED
      BY <2>1, <2>2, <2>3, <2>4, <2>5 DEF QuietTables
  <1>11. QuietWith(mem[p], tx[p])'
    <2>1. /\ Whole(mem[p]) /\ mem[p].seen \subseteq observation_log'
          /\ \A e \in Entities : mem[p].states[e] # NoValue => state_projection'[e] # NoValue
          /\ \A i \in ConflictIds :
                /\ mem[p].conflicts[i] # NoValue => i[1] \in observation_log'
                /\ /\ Workers = {}
                   /\ mem[p].conflicts[i] # NoValue /\ mem[p].conflicts[i].status = "open"
                   => conflict_table'[i] # NoValue
      BY <1>5, <1>7, <1>8, <1>9 DEF QuietWith
    <2>2. /\ NoTx.kind = "none" /\ NoTx.observation = NoValue /\ NoTx.commit = NoValue
          /\ NoTx.state = NoValue /\ \A i \in ConflictIds : NoTx.conflicts[i] = NoValue
      BY DEF NoTx, NoConflicts
    <2>3. Held(tx[p])' = observation_log'
      BY <1>6, <2>2 DEF Held
    <2>4. Told(mem[p], Held(tx[p]))'
      BY <1>4, <1>5, <1>9, <1>b, <2>3 DEF QuietWith, Told
    <2>5. Tells(tx[p], Held(tx[p]))'
      BY <1>6, <2>2 DEF Tells, CandidatesIn
    <2> QED
      BY <1>4, <1>6, <2>1, <2>2, <2>3, <2>4, <2>5 DEF QuietWith, Placed
  <1>12. ASSUME NEW q \in Processes, q # p
         PROVE  QuietWith(mem[q], tx[q])'
    <2>1. QuietWith(mem[q], tx[q])
      BY DEF QuietInv
    <2>2. Held(tx[q]) \subseteq Held(tx[q])'
      BY <1>5, <1>6, <1>12 DEF Held
    <2>3. \A e \in Entities : Placed(e, tx[q]) => Placed(e, tx[q])'
      BY <1>6, <1>7, <1>12 DEF Placed
    <2>4. tx[q].observation # NoValue => tx[q].observation.entity \in Entities
      BY <1>2, CompilerAssumption DEF Transaction, Observation
    <2>5. Told(mem[q], Held(tx[q]))'
      <3>1. Told(mem[q], Held(tx[q]))
        BY <2>1 DEF QuietWith
      <3> QED
        BY <1>4, <1>b, <2>2, <3>1 DEF Told, SourcesIn, CandidatesIn
    <2>6. Tells(tx[q], Held(tx[q]))'
      <3>1. Tells(tx[q], Held(tx[q]))
        BY <2>1 DEF QuietWith
      <3> QED
        BY <1>6, <1>12, <2>2, <3>1 DEF Tells, SourcesIn, CandidatesIn
    <2> QED
      BY <1>4, <1>6, <1>8, <1>12, <2>1, <2>2, <2>3, <2>4, <2>5, <2>6 DEF QuietWith
  <1> QED
    BY <1>10, <1>11, <1>12 DEF QuietInv

LEMMA QuietInvHolds ==
    ASSUME ~Failing, Handlers \subseteq {"ingest", "resolve"}
    PROVE  Spec => []QuietInv
  <1>1. Init => QuietInv
    <2> SUFFICES ASSUME Init PROVE QuietInv
      OBVIOUS
    <2>1. /\ observation_log = {} /\ conflict_table = NoConflicts /\ commit_log = <<>>
          /\ \A e \in Entities : state_projection[e] = NoValue
          /\ \A p \in Processes : mem[p] = EmptyService /\ tx[p] = NoTx
      BY DEF Init
    <2> QED
      BY <2>1, EmptyQuiet
      DEF QuietInv, QuietTables, NoConflicts, CommitsAreTraceable, CandidatesIn
  <1>2. Inv /\ QuietInv /\ [Next]_vars => QuietInv'
    <2> SUFFICES ASSUME Inv, QuietInv, [Next]_vars PROVE QuietInv'
      OBVIOUS
    <2>1. UNCHANGED vars \/ \E p \in Processes : QuietOutcome(p) \/ Store(p)
      BY QuietStep
    <2>2. CASE UNCHANGED vars
      <3>1. /\ observation_log' = observation_log /\ state_projection' = state_projection
            /\ conflict_table' = conflict_table /\ mem' = mem /\ tx' = tx
            /\ commit_log' = commit_log
        BY <2>2 DEF vars
      <3>2. QuietTables'
        BY <3>1 DEF QuietInv, QuietTables, CommitsAreTraceable, CandidatesIn
      <3>3. ASSUME NEW p \in Processes
            PROVE  QuietWith(mem[p], tx[p])'
        <4>1. QuietWith(mem'[p], tx'[p])
          BY <3>1 DEF QuietInv
        <4> QED
          BY <3>1, <4>1, QuietSame DEF tables
      <3> QED
        BY <3>2, <3>3 DEF QuietInv
    <2> QED
      BY <2>1, <2>2, QuietOutcomeKeeps, QuietStoreKeeps
  <1> QED
    BY <1>1, <1>2, InvHolds, PTL DEF Spec

\* Between two requests a service knows no open conflict that is not stored,
\* however many API processes and commands there are and whenever they restart
\* (README.md:33-34, api/app.py:231-240): an ingested dispute is stored with its request.
THEOREM OpenConflictsStored ==
    ASSUME ~Failing, Workers = {}, Handlers \subseteq {"ingest", "resolve"}
    PROVE  Spec => []OpenConflictsAreStored
  <1>1. Inv /\ QuietInv => OpenConflictsAreStored
    <2> SUFFICES ASSUME Inv, QuietInv, NEW p \in Processes, NEW i \in ConflictIds,
                        tx[p].kind = "none", mem[p].conflicts[i] # NoValue,
                        mem[p].conflicts[i].status = "open"
                 PROVE  conflict_table[i] # NoValue
      BY DEF OpenConflictsAreStored
    <2>1. tx[p].conflicts[i] = NoValue
      BY IdleFacts DEF NoTx, NoConflicts
    <2> QED
      BY <2>1 DEF QuietInv, QuietWith
  <1> QED
    BY <1>1, InvHolds, QuietInvHolds, PTL

\* Every stored commit names stored observations: that of its ingest, or those
\* that told for its resolution, whatever the processes interleave and restart,
\* as long as every transaction commits and the API verifies nothing
\* (docs/mvp-design.md:739, world_state/service.py:229-235, :261).
THEOREM CommitsTrace ==
    ASSUME ~Failing, Handlers \subseteq {"ingest", "resolve"}
    PROVE  Spec => []CommitsAreTraceable
  <1>1. QuietInv => CommitsAreTraceable
    BY DEF QuietInv, QuietTables
  <1> QED
    BY <1>1, QuietInvHolds, PTL

-----------------------------------------------------------------------------
(* A quiet deployment of one API process.  Nothing is stored between what a *)
(* request reads and what it stores, so a commit starts from what is stored.*)

\* The last stored commit of an entity is the one that its projection shows.
LastRow(e) ==
    IF state_projection[e] = NoValue THEN RowsFor(e) = {}
    ELSE \E i \in RowsFor(e) :
            /\ \A j \in RowsFor(e) : j <= i
            /\ commit_log[i].id = state_projection[e].commit
            /\ commit_log[i].record.after = StoredValues(e)

\* The earlier rows of the entity of row i; the row starts from what the last
\* of them left.
Earlier(i) == {j \in RowsFor(commit_log[i].record.entity) : j < i}

Follows(i) ==
    \/ Earlier(i) = {} /\ commit_log[i].record.before = ValuesOf(NoAttributes)
    \/ \E j \in Earlier(i) :
          /\ \A k \in Earlier(i) : k <= j
          /\ commit_log[i].record.before = commit_log[j].record.after

SoleInv ==
    /\ \A p \in Processes : SoleWith(tx[p])
    /\ \A e \in Entities : LastRow(e)
    /\ \A i \in DOMAIN commit_log : Follows(i)
    /\ VersionCountsStoredCommits

\* What a transaction is to leave is the same as long as the tables stay.
LEMMA SoleSame ==
    ASSUME UNCHANGED tables, NEW p \in Processes, SoleWith(tx'[p])
    PROVE  SoleWith(tx[p])'
  <1>1. state_projection' = state_projection /\ conflict_table' = conflict_table
    BY DEF tables
  <1>2. \A e : StoredValues(e)' = StoredValues(e)
    BY <1>1 DEF StoredValues
  <1>3. /\ ProjectionAfter(tx[p])' = ProjectionAfter(tx'[p])
        /\ RowsAfter(tx[p])' = RowsAfter(tx'[p])
    BY <1>1 DEF ProjectionAfter, RowsAfter
  <1> QED
    BY <1>1, <1>2, <1>3 DEF SoleWith

LEMMA SoleOutcomeKeeps ==
    ASSUME Inv, SoleInv, Commands = {}, Workers = {}, NEW p \in Processes,
           QuietOutcome(p)
    PROVE  SoleInv'
  <1>1. PICK v, t : Works(p, v, t) /\ SoleWith(t)
    BY DEF QuietOutcome
  <1>2. /\ observation_log' = observation_log /\ state_projection' = state_projection
        /\ conflict_table' = conflict_table /\ commit_log' = commit_log
        /\ tx'[p] = t /\ \A q \in Processes : q # p => tx'[q] = tx[q]
    BY <1>1 DEF Works, tables, Inv
  <1>3. \A q \in Processes : SoleWith(tx[q])'
    <2>1. \A q \in Processes : SoleWith(tx'[q])
      BY <1>1, <1>2 DEF SoleInv
    <2> QED
      BY <1>2, <2>1, SoleSame DEF tables
  <1>4. \A e \in Entities : LastRow(e)'
    BY <1>2 DEF SoleInv, LastRow, RowsFor, StoredValues
  <1>5. \A i \in DOMAIN commit_log' : Follows(i)'
    BY <1>2 DEF SoleInv, Follows, Earlier, RowsFor
  <1>6. VersionCountsStoredCommits'
    BY <1>2 DEF SoleInv, VersionCountsStoredCommits, RowsFor
  <1> QED
    BY <1>3, <1>4, <1>5, <1>6 DEF SoleInv

\* The rows of an entity are finitely many.
LEMMA RowsFinite ==
    ASSUME TablesTyped, NEW e
    PROVE  /\ IsFiniteSet(RowsFor(e)) /\ Len(commit_log) \in Nat
           /\ RowsFor(e) \subseteq 1..Len(commit_log)
           /\ DOMAIN commit_log = 1..Len(commit_log)
  <1>1. Len(commit_log) \in Nat /\ DOMAIN commit_log = 1..Len(commit_log)
    BY DEF TablesTyped
  <1>2. RowsFor(e) \subseteq 1..Len(commit_log)
    BY <1>1 DEF RowsFor
  <1>3. IsFiniteSet(1..Len(commit_log))
    BY <1>1, FS_Interval
  <1>4. IsFiniteSet(RowsFor(e))
    BY <1>2, <1>3, FS_Subset
  <1> QED
    BY <1>1, <1>2, <1>4

LEMMA SoleStoreKeeps ==
    ASSUME Inv, SoleInv, NEW p \in Processes, Processes = {p}, Store(p)
    PROVE  SoleInv'
  <1>1. PICK t \in Transaction : t = tx[p]
    BY DEF Inv
  <1>2. /\ TxBacked(t) /\ TablesTyped /\ tx \in [Processes -> Transaction]
        /\ SoleWith(t)
    BY <1>1 DEF Inv, SoleInv
  <1>3. /\ commit_log' \in Seq(Row)
        /\ \A i \in DOMAIN commit_log :
              i \in DOMAIN commit_log' /\ commit_log'[i] = commit_log[i]
        /\ t.commit = NoValue =>
              commit_log' = commit_log /\ state_projection' = state_projection
        /\ t.commit # NoValue =>
              /\ t.commit \in Row /\ t.state \in EntityState
              /\ Len(commit_log') = Len(commit_log) + 1
              /\ commit_log'[Len(commit_log) + 1] = t.commit
              /\ Len(commit_log) + 1 \in DOMAIN commit_log'
              /\ state_projection' =
                     [state_projection EXCEPT ![t.commit.record.entity] = t.state]
    BY <1>1, StoreFacts
  <1>4. \A q \in Processes : SoleWith(tx[q])'
    <2>1. \A q \in Processes : tx'[q] = NoTx
      BY <1>2 DEF Store, Ends
    <2>2. /\ NoTx.kind = "none" /\ NoTx.commit = NoValue /\ NoTx.observation = NoValue
          /\ \A i \in ConflictIds : NoTx.conflicts[i] = NoValue
      BY DEF NoTx, NoConflicts
    <2> QED
      BY <2>1, <2>2 DEF SoleWith
  <1>5. CASE t.commit = NoValue
    <2>1. commit_log' = commit_log /\ state_projection' = state_projection
      BY <1>3, <1>5
    <2>2. \A e \in Entities : LastRow(e)'
      BY <2>1 DEF SoleInv, LastRow, RowsFor, StoredValues
    <2>3. \A i \in DOMAIN commit_log' : Follows(i)'
      BY <2>1 DEF SoleInv, Follows, Earlier, RowsFor
    <2>4. VersionCountsStoredCommits'
      BY <2>1 DEF SoleInv, VersionCountsStoredCommits, RowsFor
    <2> QED
      BY <1>4, <2>2, <2>3, <2>4 DEF SoleInv
  <1>6. CASE t.commit # NoValue
    <2>1. PICK e \in Entities : e = t.commit.record.entity
      BY <1>3, <1>6 DEF Row, Commit
    <2>2. PICK n \in Nat : n = Len(commit_log) + 1
      BY <1>2, RowsFinite
    <2>3. /\ commit_log'[n] = t.commit /\ n \in DOMAIN commit_log'
          /\ DOMAIN commit_log' = DOMAIN commit_log \cup {n}
          /\ n \notin DOMAIN commit_log /\ \A i \in DOMAIN commit_log : i \in Nat /\ i < n
      <3>1. DOMAIN commit_log = 1..Len(commit_log) /\ Len(commit_log) \in Nat
        BY <1>2, RowsFinite
      <3>2. PICK l \in Nat : l = Len(commit_log)
        BY <3>1
      <3>3. DOMAIN commit_log' = 1..Len(commit_log') /\ Len(commit_log') = l + 1
        BY <1>3, <1>6, <3>2
      <3>4. DOMAIN commit_log = 1..l /\ DOMAIN commit_log' = 1..(l + 1) /\ n = l + 1
        BY <2>2, <3>1, <3>2, <3>3
      <3>5. /\ 1..(l + 1) = (1..l) \cup {l + 1} /\ l + 1 \notin 1..l
            /\ \A i \in 1..l : i \in Nat /\ i < l + 1
        OBVIOUS
      <3>6. commit_log'[n] = t.commit
        BY <1>3, <1>6, <2>2
      <3> QED
        BY <3>4, <3>5, <3>6
    <2>4. /\ state_projection'[e] = t.state /\ t.state # NoValue
          /\ \A f \in Entities : f # e => state_projection'[f] = state_projection[f]
      BY <1>2, <1>3, <1>6, <2>1, NoValueAssumption DEF TablesTyped
    <2>5. /\ t.commit.record.before = StoredValues(e)
          /\ t.state.version = NextVersion(state_projection[e])
          /\ t.commit.id = t.state.commit
          /\ t.commit.record.after = ValuesOf(t.state.attributes)
      BY <1>2, <1>6, <2>1 DEF SoleWith, TxBacked
    <2>6. \A i \in DOMAIN commit_log : commit_log'[i] = commit_log[i]
      BY <1>3
    <2>7. RowsFor(e)' = RowsFor(e) \cup {n}
      BY <2>1, <2>3, <2>6 DEF RowsFor
    <2>8. \A f : f # e => RowsFor(f)' = RowsFor(f)
      BY <2>1, <2>3, <2>6 DEF RowsFor
    <2>9. \A f : RowsFor(f) \subseteq DOMAIN commit_log
      BY DEF RowsFor
    <2>10. \A f \in Entities : LastRow(f)'
      <3>1. LastRow(e)'
        <4>1. n \in RowsFor(e)' /\ \A j \in RowsFor(e)' : j <= n
          BY <2>3, <2>7, <2>9
        <4>2. /\ commit_log'[n].id = state_projection'[e].commit
              /\ commit_log'[n].record.after = ValuesOf(state_projection'[e].attributes)
          BY <2>3, <2>4, <2>5
        <4> QED
          BY <2>4, <4>1, <4>2 DEF LastRow, StoredValues
      <3>2. ASSUME NEW f \in Entities, f # e
            PROVE  LastRow(f)'
        <4>1. LastRow(f)
          BY DEF SoleInv
        <4>2. RowsFor(f)' = RowsFor(f) /\ state_projection'[f] = state_projection[f]
          BY <2>4, <2>8, <3>2
        <4>3. StoredValues(f)' = StoredValues(f)
          BY <4>2 DEF StoredValues
        <4>4. \A i \in RowsFor(f) : commit_log'[i] = commit_log[i]
          BY <2>6, <2>9
        <4> QED
          BY <4>1, <4>2, <4>3, <4>4 DEF LastRow
      <3> QED
        BY <3>1, <3>2
    <2>11. \A i \in DOMAIN commit_log' : Follows(i)'
      <3>1. ASSUME NEW i \in DOMAIN commit_log
            PROVE  Follows(i)'
        <4>1. Earlier(i)' = Earlier(i) /\ Earlier(i) \subseteq DOMAIN commit_log
          BY <2>3, <2>6, <2>7, <2>8, <2>9 DEF Earlier
        <4>2. Follows(i)
          BY DEF SoleInv
        <4> QED
          BY <2>6, <4>1, <4>2 DEF Follows
      <3>2. Follows(n)'
        <4>1. Earlier(n)' = RowsFor(e)
          BY <2>1, <2>3, <2>7, <2>9 DEF Earlier
        <4>2. LastRow(e) /\ \A j \in RowsFor(e) : commit_log'[j] = commit_log[j]
          BY <2>6, <2>9 DEF SoleInv
        <4>3. commit_log'[n].record.before = StoredValues(e)
          BY <2>3, <2>5
        <4>4. CASE state_projection[e] = NoValue
          BY <4>1, <4>2, <4>3, <4>4 DEF LastRow, StoredValues, Follows
        <4>5. CASE state_projection[e] # NoValue
          BY <4>1, <4>2, <4>3, <4>5 DEF LastRow, Follows
        <4> QED
          BY <4>4, <4>5
      <3> QED
        BY <2>3, <3>1, <3>2
    <2>12. VersionCountsStoredCommits'
      <3>1. ASSUME NEW f \in Entities, f # e, state_projection'[f] # NoValue
            PROVE  state_projection'[f].version = Cardinality(RowsFor(f)')
        BY <2>4, <2>8, <3>1 DEF SoleInv, VersionCountsStoredCommits
      <3>2. t.state.version = Cardinality(RowsFor(e)')
        <4>1. IsFiniteSet(RowsFor(e)) /\ n \notin RowsFor(e)
          BY <1>2, <2>3, <2>9, RowsFinite
        <4>2. Cardinality(RowsFor(e) \cup {n}) = Cardinality(RowsFor(e)) + 1
          BY <4>1, FS_AddElement
        <4>3. CASE state_projection[e] = NoValue
          <5>1. RowsFor(e) = {}
            BY <4>3 DEF SoleInv, LastRow
          <5>2. Cardinality(RowsFor(e)) = 0
            BY <5>1, FS_EmptySet
          <5> QED
            BY <2>5, <2>7, <4>2, <4>3, <5>2 DEF NextVersion
        <4>4. CASE state_projection[e] # NoValue
          <5>1. state_projection[e].version = Cardinality(RowsFor(e))
            BY <4>4 DEF SoleInv, VersionCountsStoredCommits
          <5> QED
            BY <2>5, <2>7, <4>2, <4>4, <5>1 DEF NextVersion
        <4> QED
          BY <4>3, <4>4
      <3> QED
        BY <2>4, <3>1, <3>2 DEF VersionCountsStoredCommits
    <2> QED
      BY <1>4, <2>10, <2>11, <2>12 DEF SoleInv
  <1> QED
    BY <1>5, <1>6

LEMMA SoleInvHolds ==
    ASSUME ~Failing, NEW a, Apis = {a}, Workers = {}, Commands = {},
           Handlers \subseteq {"ingest", "resolve"}
    PROVE  Spec => []SoleInv
  <1>0. Processes = {a}
    BY DEF Processes
  <1>1. Init => SoleInv
    <2> SUFFICES ASSUME Init PROVE SoleInv
      OBVIOUS
    <2>1. /\ commit_log = <<>> /\ state_projection = [e \in Entities |-> NoValue]
          /\ \A p \in Processes : tx[p] = NoTx
      BY DEF Init
    <2>2. DOMAIN commit_log = {}
      BY <2>1
    <2>3. \A e : RowsFor(e) = {}
      BY <2>2 DEF RowsFor
    <2> QED
      BY <2>1, <2>2, <2>3, EmptyQuiet
      DEF SoleInv, LastRow, VersionCountsStoredCommits
  <1>2. Inv /\ QuietInv /\ SoleInv /\ [Next]_vars => SoleInv'
    <2> SUFFICES ASSUME Inv, QuietInv, SoleInv, [Next]_vars PROVE SoleInv'
      OBVIOUS
    <2>1. UNCHANGED vars \/ \E p \in Processes : QuietOutcome(p) \/ Store(p)
      BY QuietStep
    <2>2. ASSUME NEW p \in Processes, QuietOutcome(p) \/ Store(p)
          PROVE  SoleInv'
      <3>1. Processes = {p}
        BY <1>0
      <3> QED
        BY <2>2, <3>1, SoleOutcomeKeeps, SoleStoreKeeps
    <2>3. CASE UNCHANGED vars
      <3>1. /\ observation_log' = observation_log /\ state_projection' = state_projection
            /\ conflict_table' = conflict_table /\ commit_log' = commit_log /\ tx' = tx
        BY <2>3 DEF vars
      <3>2. \A p \in Processes : SoleWith(tx[p])'
        <4>1. \A p \in Processes : SoleWith(tx'[p])
          BY <3>1 DEF SoleInv
        <4> QED
          BY <3>1, <4>1, SoleSame DEF tables
      <3>3. \A e \in Entities : LastRow(e)'
        BY <3>1 DEF SoleInv, LastRow, RowsFor, StoredValues
      <3>4. \A i \in DOMAIN commit_log' : Follows(i)'
        BY <3>1 DEF SoleInv, Follows, Earlier, RowsFor
      <3>5. VersionCountsStoredCommits'
        BY <3>1 DEF SoleInv, VersionCountsStoredCommits, RowsFor
      <3> QED
        BY <3>2, <3>3, <3>4, <3>5 DEF SoleInv
    <2> QED
      BY <2>1, <2>2, <2>3
  <1> QED
    BY <1>1, <1>2, InvHolds, QuietInvHolds, PTL DEF Spec

\* With one API process, whatever it restarts, replaying the stored commits of
\* an entity in their order gives its projection (docs/mvp-design.md:530).
THEOREM HistoryReplays ==
    ASSUME ~Failing, NEW a, Apis = {a}, Workers = {}, Commands = {},
           Handlers \subseteq {"ingest", "resolve"}
    PROVE  Spec => []StoredHistoryReplays
  <1>1. Inv /\ SoleInv => StoredHistoryReplays
    <2> SUFFICES ASSUME Inv, SoleInv, NEW e \in Entities
                 PROVE  /\ \A i \in RowsFor(e) :
                              LET earlier == {j \in RowsFor(e) : j < i} IN
                              commit_log[i].record.before =
                                  IF earlier = {} THEN ValuesOf(NoAttributes)
                                  ELSE commit_log[CHOOSE j \in earlier :
                                           \A k \in earlier : k <= j].record.after
                        /\ state_projection[e] = NoValue <=> RowsFor(e) = {}
                        /\ \A i \in RowsFor(e) : (\A j \in RowsFor(e) : j <= i) =>
                              state_projection[e].commit = commit_log[i].id
      BY DEF StoredHistoryReplays
    <2>0. RowsFor(e) \subseteq Nat /\ RowsFor(e) \subseteq DOMAIN commit_log
      <3>1. /\ IsFiniteSet(RowsFor(e)) /\ Len(commit_log) \in Nat
            /\ RowsFor(e) \subseteq 1..Len(commit_log)
            /\ DOMAIN commit_log = 1..Len(commit_log)
        BY RowsFinite DEF Inv
      <3> QED
        BY <3>1
    <2>1. ASSUME NEW i \in RowsFor(e), NEW earlier,
                 earlier = {j \in RowsFor(e) : j < i}
          PROVE  commit_log[i].record.before =
                     IF earlier = {} THEN ValuesOf(NoAttributes)
                     ELSE commit_log[CHOOSE j \in earlier :
                              \A k \in earlier : k <= j].record.after
      <3>1. Follows(i) /\ Earlier(i) = earlier
        BY <2>0, <2>1 DEF SoleInv, Earlier, RowsFor
      <3>2. CASE earlier = {}
        BY <3>1, <3>2 DEF Follows
      <3>3. CASE earlier # {}
        <4>1. PICK j \in earlier :
                  /\ \A k \in earlier : k <= j
                  /\ commit_log[i].record.before = commit_log[j].record.after
          BY <3>1, <3>3 DEF Follows
        <4>2. earlier \subseteq Nat
          BY <2>0, <2>1
        <4>3. ASSUME NEW m \in earlier, \A k \in earlier : k <= m
              PROVE  m = j
          <5>1. m \in Nat /\ j \in Nat /\ m <= j /\ j <= m
            BY <4>1, <4>2, <4>3
          <5> QED
            BY <5>1
        <4>4. (CHOOSE m \in earlier : \A k \in earlier : k <= m) = j
          BY <4>1, <4>3
        <4> QED
          BY <3>3, <4>1, <4>4
      <3> QED
        BY <3>2, <3>3
    <2>2. LastRow(e)
      BY DEF SoleInv
    <2>3. state_projection[e] = NoValue <=> RowsFor(e) = {}
      BY <2>2 DEF LastRow
    <2>4. ASSUME NEW i \in RowsFor(e), \A j \in RowsFor(e) : j <= i
          PROVE  state_projection[e].commit = commit_log[i].id
      <3>1. PICK l \in RowsFor(e) :
                /\ \A j \in RowsFor(e) : j <= l
                /\ commit_log[l].id = state_projection[e].commit
        BY <2>2, <2>3 DEF LastRow
      <3>2. i \in Nat /\ l \in Nat /\ i <= l /\ l <= i
        BY <2>0, <2>4, <3>1
      <3>3. i = l
        BY <3>2
      <3> QED
        BY <3>1, <3>3
    <2> QED
      BY <2>1, <2>3, <2>4
  <1> QED
    BY <1>1, InvHolds, SoleInvHolds, PTL

\* With one API process the version of a projection counts the stored commits
\* of its entity: no two stored states share the version that an agent pins.
THEOREM StoredVersionsCount ==
    ASSUME ~Failing, NEW a, Apis = {a}, Workers = {}, Commands = {},
           Handlers \subseteq {"ingest", "resolve"}
    PROVE  Spec => []VersionCountsStoredCommits
  <1>1. SoleInv => VersionCountsStoredCommits
    BY DEF SoleInv
  <1> QED
    BY <1>1, SoleInvHolds, PTL

\* What a step of the one API process does to the tables.
LEMMA SoleStep ==
    ASSUME ~Failing, Handlers \subseteq {"ingest", "resolve"},
           Inv, QuietInv, SoleInv, [Next]_vars
    PROVE  \/ UNCHANGED tables
           \/ \E p \in Processes :
                /\ Store(p) /\ SoleWith(tx[p])
                /\ state_projection' = ProjectionAfter(tx[p])
                /\ conflict_table' = RowsAfter(tx[p])
  <1>1. UNCHANGED vars \/ \E p \in Processes : QuietOutcome(p) \/ Store(p)
    BY QuietStep
  <1>2. ASSUME NEW p \in Processes, QuietOutcome(p)
        PROVE  UNCHANGED tables
    BY <1>2 DEF QuietOutcome, Works
  <1>3. ASSUME NEW p \in Processes, Store(p)
        PROVE  /\ Store(p) /\ SoleWith(tx[p])
               /\ state_projection' = ProjectionAfter(tx[p])
               /\ conflict_table' = RowsAfter(tx[p])
    BY <1>3 DEF SoleInv, Store, Projects, SavesConflicts, ProjectionAfter, RowsAfter
  <1>4. CASE UNCHANGED vars
    BY <1>4 DEF vars, tables
  <1> QED
    BY <1>1, <1>2, <1>3, <1>4

\* With one API process, what an operator decided is never overwritten
\* (world_state/service.py:222, api/app.py:500-542).
THEOREM ResolutionsAreFinal ==
    ASSUME ~Failing, NEW a, Apis = {a}, Workers = {}, Commands = {},
           Handlers \subseteq {"ingest", "resolve"}
    PROVE  Spec => StoredResolutionIsFinal
  <1>1. Inv /\ QuietInv /\ SoleInv /\ [Next]_vars =>
           [\A i \in ConflictIds :
               /\ conflict_table[i] # NoValue
               /\ conflict_table[i].status = "resolved"
               => conflict_table'[i] = conflict_table[i]]_vars
    <2> SUFFICES ASSUME Inv, QuietInv, SoleInv, [Next]_vars, NEW i \in ConflictIds,
                        conflict_table[i] # NoValue,
                        conflict_table[i].status = "resolved"
                 PROVE  conflict_table'[i] = conflict_table[i]
      OBVIOUS
    <2>1. CASE UNCHANGED tables
      BY <2>1 DEF tables
    <2>2. ASSUME NEW p \in Processes, SoleWith(tx[p]),
                 conflict_table' = RowsAfter(tx[p])
          PROVE  conflict_table'[i] = conflict_table[i]
      BY <2>2 DEF SoleWith, RowsAfter
    <2> QED
      BY <2>1, <2>2, SoleStep
  <1> QED
    BY <1>1, InvHolds, QuietInvHolds, SoleInvHolds, PTL DEF Spec, StoredResolutionIsFinal

\* With one API process, an ingested observation takes effect with its
\* transaction: each value is shown or disputed (api/app.py:231-241).
THEOREM ObservationsTakeEffect ==
    ASSUME ~Failing, NEW a, Apis = {a}, Workers = {}, Commands = {},
           Handlers \subseteq {"ingest", "resolve"}
    PROVE  Spec => LoggedObservationsTakeEffect
  <1>0. Processes = {a}
    BY DEF Processes
  <1>1. Inv /\ QuietInv /\ SoleInv /\ [Next]_vars =>
           [\A p \in Processes :
               /\ tx[p].kind \in {"ingest", "observe"}
               /\ tx[p].observation.id \in observation_log' \ observation_log
               => Shown(tx[p].observation, state_projection', conflict_table')]_vars
    <2> SUFFICES ASSUME Inv, QuietInv, SoleInv, [Next]_vars, NEW p \in Processes,
                        tx[p].kind \in {"ingest", "observe"},
                        tx[p].observation.id \in observation_log' \ observation_log
                 PROVE  Shown(tx[p].observation, state_projection', conflict_table')
      OBVIOUS
    <2>1. ~UNCHANGED tables
      BY DEF tables
    <2>2. PICK q \in Processes :
              /\ SoleWith(tx[q]) /\ state_projection' = ProjectionAfter(tx[q])
              /\ conflict_table' = RowsAfter(tx[q])
      BY <2>1, SoleStep
    <2>3. q = p
      BY <1>0
    <2>4. tx[p].kind = "ingest"
      BY <2>2, <2>3 DEF SoleWith
    <2> QED
      BY <2>2, <2>3, <2>4 DEF SoleWith
  <1> QED
    BY <1>1, InvHolds, QuietInvHolds, SoleInvHolds, PTL DEF Spec, LoggedObservationsTakeEffect

\* With one API process, an observation of another connector leaves a fresh
\* stored value in place (world_state/models.py:66-73, service.py:47-57).
THEOREM FreshValuesStay ==
    ASSUME ~Failing, NEW a, Apis = {a}, Workers = {}, Commands = {},
           Handlers \subseteq {"ingest", "resolve"}
    PROVE  Spec => FreshStoredValuesStay
  <1>0. Processes = {a}
    BY DEF Processes
  <1>1. Inv /\ QuietInv /\ SoleInv /\ [Next]_vars =>
           [\A p \in Processes, n \in Attributes :
               LET o == tx[p].observation IN
               /\ o # NoValue /\ o.id \in observation_log' \ observation_log
               /\ FreshOfAnother(AttributeIn(state_projection, o.entity, n), o.connector)
               => SameValue(o, n, state_projection, state_projection')]_vars
    <2> SUFFICES ASSUME Inv, QuietInv, SoleInv, [Next]_vars, NEW p \in Processes,
                        NEW n \in Attributes, NEW o, o = tx[p].observation, o # NoValue,
                        o.id \in observation_log' \ observation_log,
                        FreshOfAnother(AttributeIn(state_projection, o.entity, n),
                                       o.connector)
                 PROVE  SameValue(o, n, state_projection, state_projection')
      OBVIOUS
    <2>1. ~UNCHANGED tables
      BY DEF tables
    <2>2. PICK q \in Processes :
              /\ SoleWith(tx[q]) /\ state_projection' = ProjectionAfter(tx[q])
      BY <2>1, SoleStep
    <2>3. q = p
      BY <1>0
    <2> QED
      BY <2>2, <2>3 DEF SoleWith
  <1> QED
    BY <1>1, InvHolds, QuietInvHolds, SoleInvHolds, PTL DEF Spec, FreshStoredValuesStay
=============================================================================
