---------------------------- MODULE ControlLoopProofs ----------------------------
(***************************************************************************)
(* What the loop from an observation to a verified write keeps, for any    *)
(* number of actions, reports, polls, sources and status values.           *)
(***************************************************************************)
EXTENDS ControlLoop, SequenceTheorems, WellFoundedInduction, TLAPS

-----------------------------------------------------------------------------
(* The inductive invariant.  The three properties relate an action to what  *)
(* the World State was when somebody looked; they hold because commits are  *)
(* never rewritten, candidates never taken away, and every change of the    *)
(* status and every resolution moves the version.                           *)

StatusOf(state) == ValuesOf(state.attributes)["status"]

IsMemory(v) ==
    v \in [seen : {v.seen}, states : {v.states}, commits : {v.commits},
           latest : {v.latest}, conflicts : {v.conflicts}, open : {v.open}]

\* The service's dictionaries, and where the ids in them come from.
WorldTyped ==
    /\ IsMemory(svc) /\ minted \in Nat
    /\ DOMAIN svc.commits \subseteq 1..minted
    /\ \A c \in DOMAIN svc.commits : svc.commits[c] \in Commit
    /\ svc.latest \in CommitIds \cup {NoValue}
    /\ svc.states \in [Entities -> EntityState \cup {NoValue}]
    /\ svc.conflicts \in [ConflictIds -> Conflict \cup {NoValue}]
    /\ svc.open \in [Entities \X Attributes -> ConflictIds \cup {NoValue}]
    /\ \A k \in Entities \X Attributes : svc.open[k] # NoValue =>
          svc.conflicts[svc.open[k]] # NoValue
    /\ \A i \in ConflictIds : svc.conflicts[i] # NoValue => i[1] \in svc.seen

\* The commit that a state names is there and left the order with its status.
Shown(state) ==
    /\ state.attributes["status"] # NoValue
    /\ state.commit \in DOMAIN svc.commits
    /\ svc.commits[state.commit].after["status"] = StatusOf(state)

\* The value is a side that Shopify takes in a conflict, open or resolved.
ShopifySaid(conflict, value) ==
    \E k \in DOMAIN conflict.candidates :
        /\ conflict.candidates[k].value = value
        /\ conflict.candidates[k].connector = "shopify"

OnRecord(value) ==
    \E i \in ConflictIds :
        svc.conflicts[i] # NoValue /\ ShopifySaid(svc.conflicts[i], value)

StateIsShown == svc.states[Order] # NoValue => Shown(svc.states[Order])

WorldInv == WorldTyped /\ StateIsShown

\* As long as the version is what it was, so is all that could be seen.
StillTrue(sight) ==
    /\ svc.states[Order] # NoValue
    /\ sight.version <= svc.states[Order].version
    /\ sight.version = svc.states[Order].version =>
           /\ sight.status = StatusOf(svc.states[Order])
           /\ sight.resolutions = Resolutions(svc)

SightsInv ==
    /\ view # NoValue => StillTrue(view)
    /\ \A a \in ActionIds : actions[a] # NoValue =>
          /\ StillTrue(actions[a].saw)
          /\ actions[a].proposal.expected_version = actions[a].saw.version

\* What was read is in the state it was compiled to, or on record against it.
CompiledReading(q) ==
    /\ Shown(q.state)
    /\ ~q.known /\ q.read # StatusOf(q.state) => OnRecord(q.read)

ReadingsInv ==
    \A r \in Readers : reading[r] # NoValue =>
        /\ actions[reading[r].action] # NoValue
        /\ reading[r].state # NoValue => CompiledReading(reading[r])

JudgedStatuses == {"verification_pending", "verified", "state_diverged"}

\* The evidence of an action tells what its verdict was given for.
EvidenceFits(e, status) ==
    /\ status = "verified" <=> e.observed = "cancelled"
    /\ e.commit \in DOMAIN svc.commits
    /\ svc.commits[e.commit].after["status"] = e.observed
    /\ ~e.known /\ e.read # e.observed => OnRecord(e.read)

EvidenceInv ==
    \A a \in ActionIds : actions[a] # NoValue =>
        /\ actions[a].evidence # NoValue <=> actions[a].status \in JudgedStatuses
        /\ actions[a].evidence # NoValue =>
               EvidenceFits(actions[a].evidence, actions[a].status)

LocalTypes ==
    /\ provider \in {"open", "cancelled"}
    /\ view \in Sight \cup {NoValue}
    /\ actions \in [ActionIds -> Action \cup {NoValue}]
    /\ reading \in [Readers -> Reading \cup {NoValue}]

Inv == WorldInv /\ LocalTypes /\ SightsInv /\ ReadingsInv /\ EvidenceInv

\* What every step of the World State leaves true for those who rely on it.
WorldKept ==
    /\ WorldInv'
    /\ \A c \in DOMAIN svc.commits :
          c \in DOMAIN svc'.commits /\ svc'.commits[c] = svc.commits[c]
    /\ \A value : OnRecord(value) => OnRecord(value)'
    /\ \A sight \in Sight : StillTrue(sight) => StillTrue(sight)'

-----------------------------------------------------------------------------
(* What the rules do to the fields of a service's memory.                  *)

Noted(w, o, seen) == [WithConflicts(w, o) EXCEPT !.seen = seen]

StatesAfter(w, c, e, attributes) ==
    [w.states EXCEPT ![e] = [version |-> NextVersion(w.states[e]),
                             attributes |-> attributes, commit |-> c]]

CommitsAfter(w, c, e, cause, attributes) ==
    [i \in DOMAIN w.commits \cup {c} |->
        IF i = c THEN NewCommit(w, e, cause, attributes)
        ELSE w.commits[i]]

\* _record_conflict and the note that the observation was seen.
LEMMA NotedFields ==
    ASSUME NEW w, IsMemory(w), NEW o, NEW x,
           NEW v, v = Noted(w, o, x)
    PROVE  /\ v.seen = x /\ v.states = w.states
           /\ v.commits = w.commits /\ v.latest = w.latest
           /\ v.conflicts = ConflictsAfter(w, o) /\ v.open = OpenAfter(w, o)
           /\ IsMemory(v)
  <1> DEFINE y == OpenAfter(w, o)
             z == ConflictsAfter(w, o)
             u == [w EXCEPT !.open = y, !.conflicts = z]
  <1>1. v = [u EXCEPT !.seen = x]
    BY DEF Noted, WithConflicts
  <1> HIDE DEF y, z
  <1>2. u.states = w.states /\ u.commits = w.commits /\ u.latest = w.latest
        /\ u.open = y /\ u.conflicts = z /\ IsMemory(u)
    BY DEF IsMemory
  <1> HIDE DEF u
  <1>3. v.seen = x /\ v.states = u.states /\ v.commits = u.commits
        /\ v.latest = u.latest /\ v.conflicts = u.conflicts /\ v.open = u.open
        /\ IsMemory(v)
    BY <1>1, <1>2 DEF IsMemory
  <1> QED
    BY <1>2, <1>3 DEF y, z

\* _create_commit and the state it produces.
LEMMA CommitFields ==
    ASSUME NEW w, IsMemory(w), NEW c, NEW e, NEW cause, NEW attributes,
           NEW v, v = WithCommit(w, c, e, cause, attributes)
    PROVE  /\ v.seen = w.seen
           /\ v.states = StatesAfter(w, c, e, attributes)
           /\ v.commits = CommitsAfter(w, c, e, cause, attributes)
           /\ v.latest = c /\ v.conflicts = w.conflicts /\ v.open = w.open
           /\ IsMemory(v)
  <1> DEFINE x == CommitsAfter(w, c, e, cause, attributes)
             y == StatesAfter(w, c, e, attributes)
  <1>1. v = [w EXCEPT !.commits = x, !.latest = c, !.states = y]
    BY DEF WithCommit, StatesAfter, CommitsAfter
  <1> HIDE DEF x, y
  <1>2. v.seen = w.seen /\ v.states = y /\ v.commits = x /\ v.latest = c
        /\ v.conflicts = w.conflicts /\ v.open = w.open /\ IsMemory(v)
    BY <1>1 DEF IsMemory
  <1> QED
    BY <1>2 DEF x, y

\* The decision on a conflict.
LEMMA DecidedFields ==
    ASSUME NEW w, IsMemory(w), NEW i, NEW value,
           NEW v, v = Decided(w, i, value)
    PROVE  /\ v.seen = w.seen /\ v.states = w.states
           /\ v.commits = w.commits /\ v.latest = w.latest
           /\ v.conflicts = [w.conflicts EXCEPT ![i] =
                  [@ EXCEPT !.status = "resolved", !.resolved_value = value]]
           /\ v.open = [w.open EXCEPT ![KeyOfConflict(w, i)] = NoValue]
           /\ IsMemory(v)
  <1> DEFINE x == [w.conflicts EXCEPT ![i] =
                      [@ EXCEPT !.status = "resolved", !.resolved_value = value]]
             y == [w.open EXCEPT ![KeyOfConflict(w, i)] = NoValue]
  <1>1. v = [w EXCEPT !.conflicts = x, !.open = y]
    BY DEF Decided, IsMemory
  <1> HIDE DEF x, y
  <1>2. v.seen = w.seen /\ v.states = w.states /\ v.commits = w.commits
        /\ v.latest = w.latest /\ v.conflicts = x /\ v.open = y /\ IsMemory(v)
    BY <1>1 DEF IsMemory
  <1> QED
    BY <1>2 DEF x, y

-----------------------------------------------------------------------------
(* Candidates and the observations that a resolution names.                *)

\* The candidates of a conflict are one or more, and only grow.
LEMMA CandidateLists ==
    ASSUME NEW list \in Seq(Candidate) \ {<<>>}, NEW x \in Candidate, NEW y \in Candidate
    PROVE  Append(list, x) \in Seq(Candidate) \ {<<>>}
           /\ <<x, y>> \in Seq(Candidate) \ {<<>>}
  <1>1. Append(list, x) \in Seq(Candidate) /\ Len(Append(list, x)) = Len(list) + 1
        /\ Len(list) \in Nat
    OBVIOUS
  <1>2. <<x, y>> \in Seq(Candidate) /\ Len(<<x, y>>) = 2
    OBVIOUS
  <1>3. Len(<<>>) = 0
    OBVIOUS
  <1> QED
    BY <1>1, <1>2, <1>3

\* A set of natural numbers with an upper bound has a greatest one.
LEMMA GreatestNatural ==
    ASSUME NEW n \in Nat, NEW S \in SUBSET (1..n), S # {}
    PROVE  \E k \in S : \A j \in S : j <= k
  <1> DEFINE Below == {m \in Nat : n - m \in S}
  <1>1. Below # {}
    <2>1. PICK k \in S : TRUE
      OBVIOUS
    <2>2. k \in 1..n /\ n - k \in Nat /\ n - (n - k) = k
      OBVIOUS
    <2> QED
      BY <2>1, <2>2
  <1>2. IsWellFoundedOn(OpToRel(<, Nat), Nat)
    BY NatLessThanWellFounded, Zenon
  <1>3. Below \subseteq Nat
    OBVIOUS
  <1> HIDE DEF Below
  <1>4. PICK m \in Below : \A l \in Below : ~(<<l, m>> \in OpToRel(<, Nat))
    BY <1>1, <1>2, <1>3, WFMin, Zenon
  <1>5. ASSUME NEW l \in Below PROVE m <= l
    <2>1. ~(<<l, m>> \in OpToRel(<, Nat)) /\ l \in Nat /\ m \in Nat
      BY <1>3, <1>4
    <2> QED
      BY <2>1 DEF OpToRel
  <1>6. m \in Nat /\ n - m \in S
    BY DEF Below
  <1>7. ASSUME NEW j \in S PROVE j <= n - m
    <2>1. j \in 1..n /\ n - j \in Nat /\ n - (n - j) = j
      OBVIOUS
    <2>2. n - j \in Below
      BY <2>1 DEF Below
    <2> QED
      BY <1>5, <1>6, <2>1, <2>2
  <1> QED
    BY <1>6, <1>7

\* A resolution names observations of its conflict: one at least, and the last
\* of them is the source of the value it sets.
LEMMA SourceTypes ==
    ASSUME NEW conflict \in Conflict, NEW value
    PROVE  /\ SourceIds(conflict, value) \subseteq ObservationIds
           /\ SourceIds(conflict, value) # {}
           /\ LastSourceId(conflict, value) \in SourceIds(conflict, value)
  <1> DEFINE list == conflict.candidates
             up == Upholding(conflict, value)
             last == CHOOSE k \in up : \A j \in up : j <= k
  <1>1. /\ list \in Seq(Candidate) /\ Len(list) \in Nat /\ DOMAIN list = 1..Len(list)
        /\ list # <<>>
    BY DEF Conflict
  <1>2. DOMAIN list # {}
    <2> HIDE DEF list
    <2>1. Len(list) # 0
      BY <1>1, EmptySeq
    <2>2. 1 \in 1..Len(list)
      BY <1>1, <2>1
    <2> QED
      BY <1>1, <2>2
  <1>3. up \subseteq 1..Len(list) /\ up # {}
    BY <1>1, <1>2 DEF Upholding, Matching
  <1> HIDE DEF up
  <1>4. \E k \in up : \A j \in up : j <= k
    BY <1>1, <1>3, GreatestNatural
  <1>5. last \in up
    BY <1>4
  <1>6. \A k \in up : list[k] \in Candidate
    BY <1>1, <1>3
  <1>7. SourceIds(conflict, value) = {list[k].observation : k \in up}
    BY DEF SourceIds, up
  <1>8. LastSourceId(conflict, value) = list[last].observation
    BY DEF LastSourceId, up
  <1> HIDE DEF last, list
  <1> QED
    BY <1>3, <1>5, <1>6, <1>7, <1>8 DEF Candidate

-----------------------------------------------------------------------------
(* The history.                                                            *)

HistoryRests ==
    /\ minted' \in {minted, NextId}
    /\ svc'.latest = svc.latest
    /\ svc'.commits = svc.commits
    /\ svc'.states = svc.states

HistoryGrows(cause, attributes) ==
    /\ minted' = NextId
    /\ svc'.latest = NextId
    /\ svc'.states = StatesAfter(svc, NextId, Order, attributes)
    /\ svc'.commits = CommitsAfter(svc, NextId, Order, cause, attributes)

\* What a commit may be made for.
Causes == [observations : SUBSET ObservationIds, resolves : ConflictIds \cup {NoValue}]

\* Types of the part of the service that the history is.
HistoryTyped ==
    /\ minted \in Nat
    /\ DOMAIN svc.commits \subseteq 1..minted
    /\ \A c \in DOMAIN svc.commits : svc.commits[c] \in Commit
    /\ svc.latest \in CommitIds \cup {NoValue}
    /\ svc.states \in [Entities -> EntityState \cup {NoValue}]

CommitsAreKept ==
    \A c \in DOMAIN svc.commits :
        c \in DOMAIN svc'.commits /\ svc'.commits[c] = svc.commits[c]

\* The one entity and the one attribute.
LEMMA OneOrder ==
    /\ Order \in Entities /\ "status" \in Attributes
    /\ \A e \in Entities : e = Order
    /\ \A n \in Attributes : n = "status"
    /\ \A m \in AttributeMap : m["status"] # NoValue => m["status"] \in Attribute
    /\ \A m \in AttributeMap : ValuesOf(m) \in ValueMap
    /\ \A m \in AttributeMap : m["status"] # NoValue =>
          ValuesOf(m)["status"] = m["status"].value
    /\ NoAttributes \in AttributeMap /\ NoAttributes["status"] = NoValue
  <1>1. /\ Order \in Entities /\ "status" \in Attributes
        /\ \A e \in Entities : e = Order
        /\ \A n \in Attributes : n = "status"
    BY ControlLoopAssumption
  <1>2. \A m \in AttributeMap : ValuesOf(m) \in ValueMap
    BY DEF AttributeMap, ValuesOf, ValueMap, Attribute
  <1> QED
    BY <1>1, <1>2 DEF AttributeMap, ValuesOf, NoAttributes

\* A commit of the order.
LEMMA GrowthFacts ==
    ASSUME WorldInv, NEW m \in AttributeMap, m["status"] # NoValue,
           NEW x \in Causes, HistoryGrows(x, m)
    PROVE  /\ HistoryTyped' /\ CommitsAreKept /\ StateIsShown'
           /\ svc'.states[Order] # NoValue
           /\ StatusOf(svc'.states[Order]) = m["status"].value
           /\ svc.states[Order] # NoValue =>
                  svc'.states[Order].version = svc.states[Order].version + 1
  <1> DEFINE state == [version |-> NextVersion(svc.states[Order]),
                       attributes |-> m, commit |-> NextId]
             commit == NewCommit(svc, Order, x, m)
  <1>1. HistoryTyped
    BY DEF WorldInv, WorldTyped, HistoryTyped
  <1>2. NextId \in CommitIds /\ NextId = minted + 1 /\ NextId \notin 1..minted
        /\ NextId \in 1..NextId /\ 1..minted \subseteq 1..NextId
    BY <1>1 DEF HistoryTyped, CommitIds, NextId
  <1>3. state \in EntityState /\ state.attributes = m /\ state.commit = NextId
        /\ state.version = NextVersion(svc.states[Order])
    <2>1. NextVersion(svc.states[Order]) \in Nat \ {0}
      BY <1>1, OneOrder DEF NextVersion, HistoryTyped, EntityState
    <2> QED
      BY <1>2, <2>1 DEF EntityState
  <1>4. commit \in Commit /\ commit.after = ValuesOf(m)
    <2>1. PreviousAttributes(svc, Order) \in AttributeMap
      BY <1>1, OneOrder DEF PreviousAttributes, HistoryTyped, EntityState
    <2>2. /\ ValuesOf(PreviousAttributes(svc, Order)) \in ValueMap
          /\ ValuesOf(m) \in ValueMap
      BY <2>1, OneOrder
    <2> QED
      BY <1>1, <2>2, OneOrder DEF NewCommit, ParentOf, Commit, Causes, HistoryTyped
  <1>5. /\ svc'.states = [svc.states EXCEPT ![Order] = state]
        /\ svc'.commits = [i \in DOMAIN svc.commits \cup {NextId} |->
               IF i = NextId THEN commit ELSE svc.commits[i]]
        /\ minted' = NextId /\ svc'.latest = NextId
    BY DEF HistoryGrows, StatesAfter, CommitsAfter
  <1> HIDE DEF state, commit
  <1>6. /\ svc'.states[Order] = state
        /\ svc'.states \in [Entities -> EntityState \cup {NoValue}]
    BY <1>1, <1>3, <1>5, OneOrder DEF HistoryTyped
  <1>7. /\ DOMAIN svc'.commits = DOMAIN svc.commits \cup {NextId}
        /\ svc'.commits[NextId] = commit
        /\ \A c \in DOMAIN svc.commits : svc'.commits[c] = svc.commits[c]
    BY <1>1, <1>2, <1>5 DEF HistoryTyped
  <1>8. HistoryTyped'
    <2>1. DOMAIN svc'.commits \subseteq 1..NextId
      BY <1>1, <1>2, <1>7 DEF HistoryTyped
    <2>2. \A c \in DOMAIN svc'.commits : svc'.commits[c] \in Commit
      BY <1>1, <1>4, <1>7 DEF HistoryTyped
    <2>3. NextId \in Nat
      BY <1>2 DEF CommitIds
    <2> QED
      BY <1>2, <1>5, <1>6, <2>1, <2>2, <2>3 DEF HistoryTyped
  <1>9. CommitsAreKept
    BY <1>7 DEF CommitsAreKept
  <1>10. StatusOf(state) = ValuesOf(m)["status"] /\ state # NoValue
    BY <1>3, NoValueAssumption DEF StatusOf
  <1>11. StateIsShown'
    BY <1>3, <1>4, <1>6, <1>7, <1>10 DEF StateIsShown, Shown, StatusOf
  <1>12. svc.states[Order] # NoValue =>
             state.version = svc.states[Order].version + 1
    BY <1>3 DEF NextVersion
  <1> QED
    BY <1>6, <1>8, <1>9, <1>10, <1>11, <1>12, OneOrder

\* No commit.
LEMMA RestFacts ==
    ASSUME WorldInv, HistoryRests
    PROVE  HistoryTyped' /\ CommitsAreKept /\ StateIsShown'
  <1>1. HistoryTyped /\ StateIsShown
    BY DEF WorldInv, WorldTyped, HistoryTyped
  <1>2. minted' \in Nat /\ 1..minted \subseteq 1..minted'
    BY <1>1 DEF HistoryRests, HistoryTyped, NextId
  <1> QED
    BY <1>1, <1>2 DEF HistoryRests, HistoryTyped, CommitsAreKept, StateIsShown,
                      Shown

-----------------------------------------------------------------------------
(* ingest.                                                                 *)

\* A commit reads the states and the head of the log, and nothing else.
LEMMA CommitReads ==
    ASSUME NEW w, NEW v, v.states = w.states, v.latest = w.latest,
           v.commits = w.commits, NEW c, NEW e, NEW cause, NEW attributes
    PROVE  /\ StatesAfter(v, c, e, attributes) = StatesAfter(w, c, e, attributes)
           /\ CommitsAfter(v, c, e, cause, attributes) =
                  CommitsAfter(w, c, e, cause, attributes)
  <1>1. NewCommit(v, e, cause, attributes) =
            NewCommit(w, e, cause, attributes)
    BY DEF NewCommit, ParentOf, PreviousAttributes
  <1> QED
    BY <1>1 DEF StatesAfter, CommitsAfter

\* ingest ignores an id it knows; otherwise it records the disputes, and a
\* commit only for news.
LEMMA IngestStep ==
    ASSUME WorldInv, NEW o \in Observation, Ingests(o)
    PROVE  \/ o.id \in svc.seen /\ svc' = svc /\ HistoryRests
           \/ /\ o.id \notin svc.seen
              /\ svc'.seen = svc.seen \cup {o.id}
              /\ svc'.conflicts = ConflictsAfter(svc, o)
              /\ svc'.open = OpenAfter(svc, o)
              /\ IsMemory(svc')
              /\ \/ ~IsNews(svc, o) /\ HistoryRests
                 \/ HistoryGrows(Cause({o.id}, NoValue), Merged(svc, o))
  <1>0. IsMemory(svc) /\ o.entity = Order
    BY OneOrder DEF WorldInv, WorldTyped, Observation
  <1>1. CASE o.id \in svc.seen
    <2>1. svc' = svc
      BY <1>1 DEF Ingests, Ingest
    <2>2. minted' \in {minted, NextId}
      BY DEF Ingests
    <2>3. HistoryRests
      BY <2>1, <2>2 DEF HistoryRests
    <2> QED
      BY <1>1, <2>1, <2>3
  <1>2. CASE o.id \notin svc.seen
    <2> DEFINE noted == Noted(svc, o, svc.seen \cup {o.id})
    <2>1. /\ noted.seen = svc.seen \cup {o.id} /\ noted.states = svc.states
          /\ noted.commits = svc.commits /\ noted.latest = svc.latest
          /\ noted.conflicts = ConflictsAfter(svc, o)
          /\ noted.open = OpenAfter(svc, o)
          /\ IsMemory(noted)
      BY <1>0, NotedFields
    <2>2. /\ svc' = IF IsNews(svc, o)
                    THEN WithCommit(noted, NextId, Order, Cause({o.id}, NoValue), Merged(svc, o))
                    ELSE noted
          /\ minted' = IF svc'.latest = NextId THEN NextId ELSE minted
      BY <1>0, <1>2 DEF Ingests, Ingest, Compile, Noted
    <2> HIDE DEF noted
    <2>3. CASE ~IsNews(svc, o)
      <3>1. svc' = noted
        BY <2>2, <2>3
      <3>2. minted' \in {minted, NextId}
        BY <2>2
      <3>3. HistoryRests
        BY <2>1, <3>1, <3>2 DEF HistoryRests
      <3> QED
        BY <1>2, <2>1, <2>3, <3>1, <3>3
    <2>4. CASE IsNews(svc, o)
      <3> DEFINE m == Merged(svc, o)
      <3>1. svc' = WithCommit(noted, NextId, Order, Cause({o.id}, NoValue), m)
        BY <2>2, <2>4
      <3> HIDE DEF m
      <3>2. /\ StatesAfter(noted, NextId, Order, m) = StatesAfter(svc, NextId, Order, m)
            /\ CommitsAfter(noted, NextId, Order, Cause({o.id}, NoValue), m) =
                 CommitsAfter(svc, NextId, Order, Cause({o.id}, NoValue), m)
        BY <2>1, CommitReads
      <3>3. /\ svc'.seen = noted.seen
            /\ svc'.states = StatesAfter(noted, NextId, Order, m)
            /\ svc'.commits = CommitsAfter(noted, NextId, Order, Cause({o.id}, NoValue), m)
            /\ svc'.latest = NextId /\ svc'.conflicts = noted.conflicts
            /\ svc'.open = noted.open /\ IsMemory(svc')
        BY <2>1, <3>1, CommitFields
      <3>4. HistoryGrows(Cause({o.id}, NoValue), m)
        BY <2>1, <2>2, <3>2, <3>3 DEF HistoryGrows
      <3>5. HistoryGrows(Cause({o.id}, NoValue), Merged(svc, o))
        BY <3>4 DEF m
      <3> QED
        BY <1>2, <2>1, <3>3, <3>5
    <2> QED
      BY <2>3, <2>4
  <1> QED
    BY <1>1, <1>2

\* The conflicts and their index.
ConflictsTyped ==
    /\ svc.conflicts \in [ConflictIds -> Conflict \cup {NoValue}]
    /\ svc.open \in [Entities \X Attributes -> ConflictIds \cup {NoValue}]
    /\ \A k \in Entities \X Attributes : svc.open[k] # NoValue =>
          svc.conflicts[svc.open[k]] # NoValue
    /\ \A i \in ConflictIds : svc.conflicts[i] # NoValue => i[1] \in svc.seen

CandidatesAreKept ==
    \A i \in ConflictIds : svc.conflicts[i] # NoValue =>
        /\ svc'.conflicts[i] # NoValue
        /\ \A value : ShopifySaid(svc.conflicts[i], value) =>
                         ShopifySaid(svc'.conflicts[i], value)

\* What an observation that was not seen before means for the attribute.
LEMMA ObservedAttribute ==
    ASSUME WorldInv, NEW o \in Observation, o.payload["status"] # NoValue
    PROVE  LET old == PreviousAttributes(svc, Order)["status"]
               new == Incoming(o, "status")
           IN  /\ o.entity = Order
               /\ PreviousAttributes(svc, Order) \in AttributeMap
               /\ Merged(svc, o) \in AttributeMap
               /\ new \in Attribute /\ new.value = o.payload["status"]
               /\ new.connector = o.connector
               /\ Disputed(svc, o) \subseteq {"status"}
               /\ "status" \in Disputed(svc, o) =>
                      old \in Attribute /\ old.connector # NoValue
               /\ "status" \in Disputed(svc, o) => Merged(svc, o)["status"] = old
               /\ "status" \notin Disputed(svc, o) => Merged(svc, o)["status"] = new
               /\ Merged(svc, o)["status"] # NoValue
  <1> DEFINE old == PreviousAttributes(svc, Order)["status"]
             new == Incoming(o, "status")
  <1>1. o.entity = Order
    BY OneOrder DEF Observation
  <1>2. PreviousAttributes(svc, Order) \in AttributeMap
    BY OneOrder DEF PreviousAttributes, WorldInv, WorldTyped, EntityState
  <1>3. /\ new \in Attribute /\ new.value = o.payload["status"]
        /\ new.connector = o.connector
    BY OneOrder DEF Incoming, Attribute, Observation, ValueMap
  <1>4. Disputed(svc, o) \subseteq {"status"}
    BY OneOrder DEF Disputed
  <1>5. "status" \in Disputed(svc, o) => old \in Attribute /\ old.connector # NoValue
    BY <1>1, <1>2, OneOrder DEF Disputed, Disagree
  <1>6. Merged(svc, o) = [n \in Attributes |->
            IF "status" \in Disputed(svc, o) THEN old ELSE new]
    BY <1>1, OneOrder DEF Merged
  <1> HIDE DEF old, new
  <1>7. Merged(svc, o) \in AttributeMap
    BY <1>3, <1>5, <1>6 DEF AttributeMap
  <1>8. /\ "status" \in Disputed(svc, o) => Merged(svc, o)["status"] = old
        /\ "status" \notin Disputed(svc, o) => Merged(svc, o)["status"] = new
    BY <1>6, OneOrder
  <1>9. Merged(svc, o)["status"] # NoValue
    BY <1>3, <1>5, <1>8, NoValueAssumption
  <1> QED
    BY <1>1, <1>2, <1>3, <1>4, <1>5, <1>7, <1>8, <1>9 DEF old, new

\* Recording a dispute opens or joins a conflict; it decides none.
LEMMA ConflictsRecorded ==
    ASSUME WorldInv, NEW o \in Observation, o.payload["status"] # NoValue,
           o.id \notin svc.seen,
           svc'.seen = svc.seen \cup {o.id},
           svc'.conflicts = ConflictsAfter(svc, o),
           svc'.open = OpenAfter(svc, o)
    PROVE  /\ ConflictsTyped' /\ CandidatesAreKept
           /\ Resolutions(svc') = Resolutions(svc)
           /\ "status" \in Disputed(svc, o) /\ o.connector = "shopify" =>
                  OnRecord(o.payload["status"])'
  <1> DEFINE old == PreviousAttributes(svc, Order)["status"]
             new == Incoming(o, "status")
             disputed == "status" \in Disputed(svc, o)
             k == <<Order, "status">>
             fresh == <<o.id, "status">>
             opened == NewConflict(svc, o, "status")
  <1>1. ConflictsTyped
    BY DEF WorldInv, WorldTyped, ConflictsTyped
  <1>2. /\ o.entity = Order /\ new \in Attribute
        /\ new.value = o.payload["status"] /\ new.connector = o.connector
        /\ Disputed(svc, o) \subseteq {"status"}
        /\ disputed => old \in Attribute /\ old.connector # NoValue
        /\ o.connector \in Connectors
    BY ObservedAttribute DEF Observation
  <1>3. /\ fresh \in ConflictIds /\ svc.conflicts[fresh] = NoValue
        /\ k \in Entities \X Attributes
        /\ \A l \in Entities \X Attributes : l = k
        /\ \A i \in ConflictIds : i[1] = o.id => i = fresh /\ i[2] = "status"
        /\ fresh[1] = o.id /\ fresh[2] = "status" /\ k[1] = Order /\ k[2] = "status"
    BY <1>1, OneOrder DEF Observation, ConflictIds, ConflictsTyped
  <1>4. svc'.open[k] = IF disputed /\ svc.open[k] = NoValue THEN fresh ELSE svc.open[k]
    BY <1>2, <1>3 DEF OpenAfter, NewlyDisputed
  <1>5. \A i \in ConflictIds : svc'.conflicts[i] =
            IF disputed /\ svc.open[k] = i THEN JoinedConflict(svc, o, i)
            ELSE IF disputed /\ svc.open[k] = NoValue /\ i = fresh THEN opened
            ELSE svc.conflicts[i]
    <2>1. ASSUME NEW i \in ConflictIds
          PROVE  /\ (\E n \in Disputed(svc, o) : svc.open[<<o.entity, n>>] = i)
                        <=> disputed /\ svc.open[k] = i
                 /\ i[1] = o.id /\ i[2] \in NewlyDisputed(svc, o)
                        <=> disputed /\ svc.open[k] = NoValue /\ i = fresh
      BY <1>2, <1>3 DEF NewlyDisputed
    <2>2. ASSUME NEW i \in ConflictIds, i = fresh
          PROVE  NewConflict(svc, o, i[2]) = opened
      BY <1>3, <2>2
    <2>3. \A i \in ConflictIds : svc'.conflicts[i] =
              IF \E n \in Disputed(svc, o) : svc.open[<<o.entity, n>>] = i
              THEN JoinedConflict(svc, o, i)
              ELSE IF i[1] = o.id /\ i[2] \in NewlyDisputed(svc, o)
              THEN NewConflict(svc, o, i[2])
              ELSE svc.conflicts[i]
      BY DEF ConflictsAfter
    <2> QED
      BY <2>1, <2>2, <2>3
  <1>0. CandidateOf(new) \in Candidate /\ (disputed => CandidateOf(old) \in Candidate)
    BY <1>2 DEF CandidateOf, Candidate, Attribute
  <1>6. disputed => /\ opened \in Conflict /\ opened.status = "open"
                    /\ o.connector = "shopify" => ShopifySaid(opened, o.payload["status"])
    <2> SUFFICES ASSUME disputed
                 PROVE  /\ opened \in Conflict /\ opened.status = "open"
                        /\ o.connector = "shopify" =>
                              ShopifySaid(opened, o.payload["status"])
      OBVIOUS
    <2> DEFINE x == CandidateOf(old)
               y == CandidateOf(new)
    <2>1. opened = [entity |-> Order, attribute |-> "status",
                    candidates |-> <<x, y>>,
                    status |-> "open", resolved_value |-> NoValue]
      BY <1>2 DEF NewConflict
    <2>2. x \in Candidate /\ y \in Candidate
      BY <1>0
    <2>3. y.value = o.payload["status"] /\ y.connector = o.connector
      BY <1>2 DEF CandidateOf
    <2> HIDE DEF opened, x, y
    <2>4. /\ <<x, y>> \in Seq(Candidate) \ {<<>>}
          /\ 2 \in DOMAIN <<x, y>> /\ <<x, y>>[2] = y
      BY <2>2, CandidateLists
    <2>5. opened \in Conflict /\ opened.candidates = <<x, y>> /\ opened.status = "open"
      BY <2>1, <2>4, OneOrder DEF Conflict
    <2> QED
      BY <2>3, <2>4, <2>5 DEF ShopifySaid
  <1>7. ASSUME NEW i \in ConflictIds, svc.conflicts[i] # NoValue
        PROVE  LET joined == JoinedConflict(svc, o, i) IN
               /\ joined \in Conflict
               /\ joined.status = svc.conflicts[i].status
               /\ \A value : ShopifySaid(svc.conflicts[i], value) => ShopifySaid(joined, value)
               /\ o.connector = "shopify" => ShopifySaid(joined, o.payload["status"])
    <2> DEFINE y == CandidateOf(new)
               list == svc.conflicts[i].candidates
               joined == JoinedConflict(svc, o, i)
    <2>1. svc.conflicts[i] \in Conflict
      BY <1>1, <1>7 DEF ConflictsTyped
    <2>2. joined = IF AlreadySeen(svc.conflicts[i], y) THEN svc.conflicts[i]
                   ELSE [svc.conflicts[i] EXCEPT !.candidates = Append(list, y)]
      BY <2>1, OneOrder DEF JoinedConflict, Conflict
    <2>3. y \in Candidate /\ y.value = o.payload["status"] /\ y.connector = o.connector
      BY <1>0, <1>2 DEF CandidateOf
    <2>4. list \in Seq(Candidate) \ {<<>>}
      BY <2>1 DEF Conflict
    <2> HIDE DEF y, joined
    <2>5. CASE AlreadySeen(svc.conflicts[i], y)
      BY <2>1, <2>2, <2>3, <2>5 DEF AlreadySeen, ShopifySaid, joined
    <2>6. CASE ~ AlreadySeen(svc.conflicts[i], y)
      <3>1. Append(list, y) \in Seq(Candidate) \ {<<>>}
        BY <2>3, <2>4, CandidateLists
      <3>2. /\ joined \in Conflict /\ joined.status = svc.conflicts[i].status
            /\ joined.candidates = Append(list, y)
        <4>1. joined = [svc.conflicts[i] EXCEPT !.candidates = Append(list, y)]
          BY <2>2, <2>6
        <4> HIDE DEF list
        <4> QED
          BY <2>1, <3>1, <4>1 DEF Conflict
      <3>3. /\ DOMAIN list \subseteq DOMAIN Append(list, y)
            /\ \A n \in DOMAIN list : Append(list, y)[n] = list[n]
            /\ Len(list) + 1 \in DOMAIN Append(list, y)
            /\ Append(list, y)[Len(list) + 1] = y
        <4>1. list \in Seq(Candidate)
          BY <2>4
        <4> HIDE DEF list
        <4> QED
          BY <2>3, <4>1
      <3>4. \A value : ShopifySaid(svc.conflicts[i], value) => ShopifySaid(joined, value)
        BY <3>2, <3>3 DEF ShopifySaid
      <3>5. o.connector = "shopify" => ShopifySaid(joined, o.payload["status"])
        BY <2>3, <3>2, <3>3 DEF ShopifySaid
      <3> QED
        BY <3>2, <3>4, <3>5 DEF joined
    <2> QED
      BY <2>5, <2>6
  <1>8. svc.open[k] # NoValue =>
            svc.open[k] \in ConflictIds /\ svc.conflicts[svc.open[k]] # NoValue
    BY <1>1, <1>3 DEF ConflictsTyped
  <1> HIDE DEF old, new, disputed, k, fresh, opened
  <1>10. \A i \in ConflictIds :
            /\ svc'.conflicts[i] \in Conflict \cup {NoValue}
            /\ svc'.conflicts[i] # NoValue => i[1] \in svc'.seen
            /\ svc.conflicts[i] # NoValue =>
                  /\ svc'.conflicts[i] # NoValue
                  /\ svc'.conflicts[i].status = svc.conflicts[i].status
                  /\ \A value : ShopifySaid(svc.conflicts[i], value) =>
                                   ShopifySaid(svc'.conflicts[i], value)
            /\ svc.conflicts[i] = NoValue /\ svc'.conflicts[i] # NoValue =>
                  svc'.conflicts[i].status = "open"
    <2> SUFFICES ASSUME NEW i \in ConflictIds
                 PROVE  /\ svc'.conflicts[i] \in Conflict \cup {NoValue}
                        /\ svc'.conflicts[i] # NoValue => i[1] \in svc'.seen
                        /\ svc.conflicts[i] # NoValue =>
                              /\ svc'.conflicts[i] # NoValue
                              /\ svc'.conflicts[i].status = svc.conflicts[i].status
                              /\ \A value : ShopifySaid(svc.conflicts[i], value) =>
                                               ShopifySaid(svc'.conflicts[i], value)
                        /\ svc.conflicts[i] = NoValue /\ svc'.conflicts[i] # NoValue =>
                              svc'.conflicts[i].status = "open"
      OBVIOUS
    <2>0. /\ svc.conflicts[i] \in Conflict \cup {NoValue}
          /\ svc.conflicts[i] # NoValue => i[1] \in svc.seen
          /\ svc'.seen = svc.seen \cup {o.id}
      BY <1>1 DEF ConflictsTyped
    <2>1. CASE disputed /\ svc.open[k] = i
      <3>1. svc.conflicts[i] # NoValue /\ svc'.conflicts[i] = JoinedConflict(svc, o, i)
        BY <1>5, <1>8, <2>1, NoValueAssumption
      <3>2. LET joined == JoinedConflict(svc, o, i) IN
               /\ joined \in Conflict
               /\ joined.status = svc.conflicts[i].status
               /\ \A value : ShopifySaid(svc.conflicts[i], value) => ShopifySaid(joined, value)
        BY <1>7, <3>1
      <3> QED
        BY <2>0, <3>1, <3>2, NoValueAssumption
    <2>2. CASE disputed /\ svc.open[k] = NoValue /\ i = fresh
      <3>1. svc'.conflicts[i] = opened /\ svc.conflicts[i] = NoValue /\ i[1] = o.id
        BY <1>3, <1>5, <2>2, NoValueAssumption
      <3> QED
        BY <1>6, <2>0, <2>2, <3>1
    <2>3. CASE ~(disputed /\ svc.open[k] = i)
               /\ ~(disputed /\ svc.open[k] = NoValue /\ i = fresh)
      <3>1. svc'.conflicts[i] = svc.conflicts[i]
        BY <1>5, <2>3
      <3> QED
        BY <2>0, <3>1
    <2> QED
      BY <2>1, <2>2, <2>3
  <1>11. ConflictsTyped'
    <2>1. svc'.conflicts \in [ConflictIds -> Conflict \cup {NoValue}]
      <3>1. svc'.conflicts = [i \in ConflictIds |-> svc'.conflicts[i]]
        BY DEF ConflictsAfter
      <3> QED
        BY <1>10, <3>1
    <2>2. svc'.open \in [Entities \X Attributes -> ConflictIds \cup {NoValue}]
      <3>1. svc'.open = [l \in Entities \X Attributes |-> svc'.open[l]]
        BY DEF OpenAfter
      <3>2. svc'.open[k] \in ConflictIds \cup {NoValue}
        BY <1>1, <1>3, <1>4 DEF ConflictsTyped
      <3> QED
        BY <1>3, <3>1, <3>2
    <2>3. svc'.open[k] # NoValue => svc'.conflicts[svc'.open[k]] # NoValue
      <3>1. CASE disputed /\ svc.open[k] = NoValue
        BY <1>3, <1>4, <1>5, <1>6, <3>1, NoValueAssumption
      <3>2. CASE ~(disputed /\ svc.open[k] = NoValue)
        BY <1>4, <1>8, <1>10, <3>2
      <3> QED
        BY <3>1, <3>2
    <2> QED
      BY <1>3, <1>10, <2>1, <2>2, <2>3 DEF ConflictsTyped
  <1>12. CandidatesAreKept
    BY <1>10 DEF CandidatesAreKept
  <1>13. Resolutions(svc') = Resolutions(svc)
    BY <1>10 DEF Resolutions
  <1>14. ASSUME disputed, o.connector = "shopify"
         PROVE  OnRecord(o.payload["status"])'
    <2>1. CASE svc.open[k] = NoValue
      <3>1. svc'.conflicts[fresh] = opened
        BY <1>3, <1>5, <1>14, <2>1, NoValueAssumption
      <3> QED
        BY <1>3, <1>6, <1>14, <3>1, NoValueAssumption DEF OnRecord
    <2>2. CASE svc.open[k] # NoValue
      <3> DEFINE i == svc.open[k]
      <3>1. /\ i \in ConflictIds /\ svc.conflicts[i] # NoValue
            /\ svc'.conflicts[i] = JoinedConflict(svc, o, i)
        BY <1>5, <1>8, <1>14, <2>2
      <3> HIDE DEF i
      <3>2. /\ JoinedConflict(svc, o, i) \in Conflict
            /\ ShopifySaid(JoinedConflict(svc, o, i), o.payload["status"])
        BY <1>7, <1>14, <3>1
      <3> QED
        BY <1>14, <3>1, <3>2, NoValueAssumption DEF OnRecord
    <2> QED
      BY <2>1, <2>2
  <1> QED
    BY <1>11, <1>12, <1>13, <1>14 DEF disputed

\* A service that is its old self but for the ids drawn.
LEMMA NothingHappened ==
    ASSUME WorldInv, svc' = svc, HistoryRests
    PROVE  WorldKept
  <1>1. HistoryTyped' /\ CommitsAreKept /\ StateIsShown'
    BY RestFacts
  <1>2. IsMemory(svc') /\ ConflictsTyped'
    BY DEF WorldInv, WorldTyped, ConflictsTyped
  <1>3. WorldInv'
    BY <1>1, <1>2 DEF WorldInv, WorldTyped, HistoryTyped, ConflictsTyped
  <1>4. \A value : OnRecord(value) => OnRecord(value)'
    BY DEF OnRecord
  <1>5. \A sight \in Sight : StillTrue(sight) => StillTrue(sight)'
    BY DEF StillTrue
  <1> QED
    BY <1>1, <1>3, <1>4, <1>5 DEF WorldKept, CommitsAreKept

\* What the parts of the service give for the whole.
LEMMA PartsKeepWorld ==
    ASSUME WorldInv, IsMemory(svc'), ConflictsTyped', CandidatesAreKept,
           HistoryTyped', CommitsAreKept, StateIsShown',
           \/ svc'.states = svc.states /\ Resolutions(svc') = Resolutions(svc)
           \/ svc.states[Order] # NoValue =>
                  /\ svc'.states[Order] # NoValue
                  /\ svc'.states[Order].version = svc.states[Order].version + 1
    PROVE  WorldKept
  <1>1. WorldInv'
    BY DEF WorldInv, WorldTyped, HistoryTyped, ConflictsTyped
  <1>2. \A value : OnRecord(value) => OnRecord(value)'
    BY DEF OnRecord, CandidatesAreKept
  <1>3. ASSUME NEW sight \in Sight, StillTrue(sight)
        PROVE  StillTrue(sight)'
    <2>1. CASE svc'.states = svc.states /\ Resolutions(svc') = Resolutions(svc)
      BY <1>3, <2>1 DEF StillTrue
    <2>2. CASE svc.states[Order] # NoValue =>
                   /\ svc'.states[Order] # NoValue
                   /\ svc'.states[Order].version = svc.states[Order].version + 1
      <3>1. svc.states[Order] # NoValue /\ svc.states[Order].version \in Nat
            /\ sight.version \in Nat /\ sight.version <= svc.states[Order].version
        BY <1>3, OneOrder
           DEF StillTrue, Sight, WorldInv, WorldTyped, EntityState
      <3>2. /\ svc'.states[Order] # NoValue
            /\ svc'.states[Order].version = svc.states[Order].version + 1
        BY <2>2, <3>1
      <3>3. /\ sight.version <= svc'.states[Order].version
            /\ sight.version # svc'.states[Order].version
        BY <3>1, <3>2
      <3> QED
        BY <3>2, <3>3 DEF StillTrue
    <2> QED
      BY <2>1, <2>2
  <1> QED
    BY <1>1, <1>2, <1>3 DEF WorldKept, CommitsAreKept

\* Once the order has a status, an observation leaves it one; a status of
\* Shopify's that did not become the order's is on record as a dispute.
LEMMA IngestKeepsWorld ==
    ASSUME WorldInv, NEW o \in Observation, o.payload["status"] # NoValue,
           Ingests(o)
    PROVE  /\ WorldKept
           /\ svc.states[Order] # NoValue \/ o.id \notin svc.seen =>
                  svc'.states[Order] # NoValue
           /\ o.id \notin svc.seen /\ o.connector = "shopify"
                /\ o.payload["status"] # StatusOf(svc'.states[Order]) =>
                  OnRecord(o.payload["status"])'
  <1>1. CASE o.id \in svc.seen /\ svc' = svc /\ HistoryRests
    BY <1>1, NothingHappened
  <1>2. CASE /\ o.id \notin svc.seen
             /\ svc'.seen = svc.seen \cup {o.id}
             /\ svc'.conflicts = ConflictsAfter(svc, o)
             /\ svc'.open = OpenAfter(svc, o)
             /\ IsMemory(svc')
             /\ \/ ~IsNews(svc, o) /\ HistoryRests
                \/ HistoryGrows(Cause({o.id}, NoValue), Merged(svc, o))
    <2> DEFINE m == Merged(svc, o)
               disputed == "status" \in Disputed(svc, o)
    <2>1. /\ ConflictsTyped' /\ CandidatesAreKept
          /\ Resolutions(svc') = Resolutions(svc)
          /\ disputed /\ o.connector = "shopify" => OnRecord(o.payload["status"])'
      BY <1>2, ConflictsRecorded
    <2>2. /\ o.entity = Order /\ m \in AttributeMap /\ m["status"] # NoValue
          /\ ~disputed => m["status"].value = o.payload["status"]
          /\ PreviousAttributes(svc, Order) \in AttributeMap
      BY ObservedAttribute
    <2> HIDE DEF m, disputed
    <2>3. CASE ~IsNews(svc, o) /\ HistoryRests
      <3>1. /\ svc.states[Order] # NoValue
            /\ ValuesOf(m) = ValuesOf(PreviousAttributes(svc, Order))
        BY <2>2, <2>3 DEF IsNews, m
      <3>2. svc'.states[Order] = svc.states[Order] /\ svc'.states = svc.states
        BY <2>3 DEF HistoryRests
      <3>3. StatusOf(svc'.states[Order]) = m["status"].value
        BY <2>2, <3>1, <3>2, OneOrder DEF StatusOf, PreviousAttributes
      <3>4. HistoryTyped' /\ CommitsAreKept /\ StateIsShown'
        BY <2>3, RestFacts
      <3>5. WorldKept
        BY <1>2, <2>1, <3>2, <3>4, PartsKeepWorld
      <3> QED
        BY <2>1, <2>2, <3>1, <3>2, <3>3, <3>5
    <2>4. CASE HistoryGrows(Cause({o.id}, NoValue), Merged(svc, o))
      <3>0. HistoryGrows(Cause({o.id}, NoValue), m) /\ Cause({o.id}, NoValue) \in Causes
        BY <2>4 DEF m, Observation, Cause, Causes
      <3>1. /\ HistoryTyped' /\ CommitsAreKept /\ StateIsShown'
            /\ svc'.states[Order] # NoValue
            /\ StatusOf(svc'.states[Order]) = m["status"].value
            /\ svc.states[Order] # NoValue =>
                   svc'.states[Order].version = svc.states[Order].version + 1
        BY <2>2, <3>0, GrowthFacts
      <3>2. WorldKept
        BY <1>2, <2>1, <3>1, PartsKeepWorld
      <3> QED
        BY <2>1, <2>2, <3>1, <3>2
    <2> QED
      BY <1>2, <2>3, <2>4
  <1> QED
    BY <1>1, <1>2, IngestStep

-----------------------------------------------------------------------------
(* resolve_conflict.                                                       *)

\* It changes nothing of a resolved conflict; an open one is decided, and
\* committed when the order has a state.
LEMMA ResolveStep ==
    ASSUME WorldInv, NEW i \in ConflictIds, NEW value \in Values,
           ResolveConflict(i, value)
    PROVE  \/ svc' = svc /\ HistoryRests
           \/ /\ svc.conflicts[i] # NoValue
              /\ svc'.seen = svc.seen
              /\ svc'.conflicts = [svc.conflicts EXCEPT ![i] =
                    [@ EXCEPT !.status = "resolved", !.resolved_value = value]]
              /\ svc'.open = [svc.open EXCEPT ![KeyOfConflict(svc, i)] = NoValue]
              /\ IsMemory(svc')
              /\ \/ svc.states[Order] = NoValue /\ HistoryRests
                 \/ HistoryGrows(CauseOfResolution(svc, i, value),
                                 ResolvedAttributes(svc, i, value))
  <1>0. /\ IsMemory(svc) /\ svc.conflicts[i] # NoValue
        /\ svc.conflicts[i].entity = Order
    BY OneOrder DEF ResolveConflict, WorldInv, WorldTyped, Conflict
  <1>1. minted' \in {minted, NextId}
    BY DEF ResolveConflict
  <1>2. CASE svc.conflicts[i].status = "resolved"
    <2>1. svc' = svc
      BY <1>2 DEF ResolveConflict, Resolve
    <2>2. HistoryRests
      BY <1>1, <2>1 DEF HistoryRests
    <2> QED
      BY <2>1, <2>2
  <1>3. CASE svc.conflicts[i].status # "resolved"
    <2> DEFINE v == Decided(svc, i, value)
               m == ResolvedAttributes(svc, i, value)
    <2>1. /\ v.seen = svc.seen /\ v.states = svc.states
          /\ v.commits = svc.commits /\ v.latest = svc.latest
          /\ v.conflicts = [svc.conflicts EXCEPT ![i] =
                [@ EXCEPT !.status = "resolved", !.resolved_value = value]]
          /\ v.open = [svc.open EXCEPT ![KeyOfConflict(svc, i)] = NoValue]
          /\ IsMemory(v)
      BY <1>0, DecidedFields
    <2>2. /\ svc' = IF svc.states[Order] = NoValue THEN v
                    ELSE WithCommit(v, NextId, Order, CauseOfResolution(svc, i, value), m)
          /\ minted' = IF svc'.latest = NextId THEN NextId ELSE minted
      BY <1>0, <1>3 DEF ResolveConflict, Resolve, ResolveOpen
    <2> HIDE DEF v, m
    <2>3. CASE svc.states[Order] = NoValue
      <3>1. svc' = v
        BY <2>2, <2>3
      <3>2. HistoryRests
        BY <1>1, <2>1, <3>1 DEF HistoryRests
      <3> QED
        BY <1>0, <2>1, <2>3, <3>1, <3>2
    <2>4. CASE svc.states[Order] # NoValue
      <3>1. svc' = WithCommit(v, NextId, Order, CauseOfResolution(svc, i, value), m)
        BY <2>2, <2>4
      <3>2. /\ StatesAfter(v, NextId, Order, m) = StatesAfter(svc, NextId, Order, m)
            /\ CommitsAfter(v, NextId, Order, CauseOfResolution(svc, i, value), m) =
                 CommitsAfter(svc, NextId, Order, CauseOfResolution(svc, i, value), m)
        BY <2>1, CommitReads
      <3>3. /\ svc'.seen = v.seen
            /\ svc'.states = StatesAfter(v, NextId, Order, m)
            /\ svc'.commits = CommitsAfter(v, NextId, Order, CauseOfResolution(svc, i, value), m)
            /\ svc'.latest = NextId /\ svc'.conflicts = v.conflicts
            /\ svc'.open = v.open /\ IsMemory(svc')
        BY <2>1, <3>1, CommitFields
      <3>4. HistoryGrows(CauseOfResolution(svc, i, value), m)
        BY <2>1, <2>2, <3>2, <3>3 DEF HistoryGrows
      <3>5. HistoryGrows(CauseOfResolution(svc, i, value),
                                 ResolvedAttributes(svc, i, value))
        BY <3>4 DEF m
      <3> QED
        BY <1>0, <2>1, <3>3, <3>5
    <2> QED
      BY <2>3, <2>4
  <1> QED
    BY <1>2, <1>3

\* A resolution of the order's moves its version.
LEMMA ResolveKeepsWorld ==
    ASSUME WorldInv, NEW i \in ConflictIds, NEW value \in Values,
           ResolveConflict(i, value)
    PROVE  WorldKept
  <1>1. CASE svc' = svc /\ HistoryRests
    BY <1>1, NothingHappened
  <1>2. CASE /\ svc.conflicts[i] # NoValue
             /\ svc'.seen = svc.seen
             /\ svc'.conflicts = [svc.conflicts EXCEPT ![i] =
                   [@ EXCEPT !.status = "resolved", !.resolved_value = value]]
             /\ svc'.open = [svc.open EXCEPT ![KeyOfConflict(svc, i)] = NoValue]
             /\ IsMemory(svc')
             /\ \/ svc.states[Order] = NoValue /\ HistoryRests
                \/ HistoryGrows(CauseOfResolution(svc, i, value),
                                 ResolvedAttributes(svc, i, value))
    <2> DEFINE decided == [svc.conflicts[i] EXCEPT !.status = "resolved",
                                                   !.resolved_value = value]
               k == KeyOfConflict(svc, i)
               m == ResolvedAttributes(svc, i, value)
    <2>1. ConflictsTyped
      BY DEF WorldInv, WorldTyped, ConflictsTyped
    <2>2. /\ svc.conflicts[i] \in Conflict /\ k = <<Order, "status">>
          /\ k \in Entities \X Attributes
      BY <1>2, <2>1, OneOrder DEF ConflictsTyped, Conflict, KeyOfConflict
    <2>3. /\ decided \in Conflict
          /\ decided.candidates = svc.conflicts[i].candidates
      BY <2>2 DEF Conflict
    <2>4. svc'.conflicts = [svc.conflicts EXCEPT ![i] = decided]
      BY <1>2, <2>1 DEF ConflictsTyped
    <2>5. svc'.open = [svc.open EXCEPT ![k] = NoValue]
      BY <1>2
    <2> HIDE DEF decided, k
    <2>6. /\ svc'.conflicts[i] = decided /\ decided # NoValue
          /\ \A j \in ConflictIds : j # i => svc'.conflicts[j] = svc.conflicts[j]
          /\ svc'.conflicts \in [ConflictIds -> Conflict \cup {NoValue}]
      BY <2>1, <2>3, <2>4, NoValueAssumption DEF ConflictsTyped
    <2>7. /\ svc'.open \in [Entities \X Attributes -> ConflictIds \cup {NoValue}]
          /\ \A l \in Entities \X Attributes : svc'.open[l] \in {svc.open[l], NoValue}
      BY <2>1, <2>2, <2>5 DEF ConflictsTyped
    <2>8. ConflictsTyped'
      <3>1. \A j \in ConflictIds : svc.conflicts[j] # NoValue <=> svc'.conflicts[j] # NoValue
        BY <1>2, <2>6
      <3>2. \A l \in Entities \X Attributes : svc'.open[l] # NoValue =>
                svc'.open[l] \in ConflictIds /\ svc.conflicts[svc'.open[l]] # NoValue
        BY <2>1, <2>7 DEF ConflictsTyped
      <3> QED
        BY <1>2, <2>1, <2>6, <2>7, <3>1, <3>2 DEF ConflictsTyped
    <2>9. CandidatesAreKept
      <3>1. \A value_ : ShopifySaid(decided, value_) <=> ShopifySaid(svc.conflicts[i], value_)
        BY <2>3 DEF ShopifySaid
      <3> QED
        BY <1>2, <2>6, <3>1 DEF CandidatesAreKept
    <2>10. CASE svc.states[Order] = NoValue /\ HistoryRests
      <3>1. HistoryTyped' /\ CommitsAreKept /\ StateIsShown'
        BY <2>10, RestFacts
      <3> QED
        BY <1>2, <2>8, <2>9, <2>10, <3>1, PartsKeepWorld
    <2>11. CASE HistoryGrows(CauseOfResolution(svc, i, value),
                                 ResolvedAttributes(svc, i, value))
      <3>1. m \in AttributeMap /\ m["status"] # NoValue
        <4>1. PreviousAttributes(svc, Order) \in AttributeMap
          BY OneOrder DEF PreviousAttributes, WorldInv, WorldTyped, EntityState
        <4> DEFINE new == [value |-> value, connector |-> Operator, freshness |-> "fresh",
                           source |-> LastSourceId(svc.conflicts[i], value)]
        <4>2. new \in Attribute
          BY <2>2, SourceTypes DEF Attribute, Freshness
        <4>3. m = [PreviousAttributes(svc, Order) EXCEPT !["status"] = new]
          BY <2>2, OneOrder DEF ResolvedAttributes, Conflict
        <4> HIDE DEF new, m
        <4> QED
          BY <4>1, <4>2, <4>3, OneOrder, NoValueAssumption DEF AttributeMap
      <3>2. /\ HistoryGrows(CauseOfResolution(svc, i, value), m)
            /\ CauseOfResolution(svc, i, value) \in Causes
        BY <2>2, <2>11, SourceTypes DEF CauseOfResolution, Cause, Causes
      <3> HIDE DEF m
      <3>3. /\ HistoryTyped' /\ CommitsAreKept /\ StateIsShown'
            /\ svc'.states[Order] # NoValue
            /\ svc.states[Order] # NoValue =>
                   svc'.states[Order].version = svc.states[Order].version + 1
        BY <3>1, <3>2, GrowthFacts
      <3> QED
        BY <1>2, <2>8, <2>9, <3>3, PartsKeepWorld
    <2> QED
      BY <1>2, <2>10, <2>11
  <1> QED
    BY <1>1, <1>2, ResolveStep

-----------------------------------------------------------------------------
(* The steps.                                                              *)

\* What was shown, read and judged stays so.
LEMMA Carried ==
    ASSUME WorldKept
    PROVE  /\ \A q : CompiledReading(q) => CompiledReading(q)'
           /\ \A e, status : EvidenceFits(e, status) => EvidenceFits(e, status)'
  BY DEF WorldKept, CompiledReading, EvidenceFits, Shown

\* A step that leaves the service alone.
LEMMA SameWorld ==
    ASSUME WorldInv, UNCHANGED <<svc, minted>>
    PROVE  WorldKept
  <1>1. HistoryRests
    BY DEF HistoryRests
  <1> QED
    BY <1>1, NothingHappened

\* What the invariant claims of whatever a step leaves alone.
LEMMA ViewCarried ==
    ASSUME Inv, WorldKept, UNCHANGED view
    PROVE  view' # NoValue => StillTrue(view)'
  <1>1. view # NoValue => view \in Sight /\ StillTrue(view)
    BY DEF Inv, LocalTypes, SightsInv
  <1>2. view # NoValue => \E s \in Sight : s = view /\ StillTrue(s)'
    BY <1>1 DEF WorldKept
  <1> QED
    BY <1>2 DEF StillTrue

\* What the invariant claims of one action.
ActionFits(a) ==
    actions[a] # NoValue =>
        /\ StillTrue(actions[a].saw)
        /\ actions[a].proposal.expected_version = actions[a].saw.version
        /\ actions[a].evidence # NoValue <=> actions[a].status \in JudgedStatuses
        /\ actions[a].evidence # NoValue =>
               EvidenceFits(actions[a].evidence, actions[a].status)

ReadingFits(r) ==
    reading[r] # NoValue =>
        /\ actions[reading[r].action] # NoValue
        /\ reading[r].state # NoValue => CompiledReading(reading[r])

ViewFits == view # NoValue => StillTrue(view)

LEMMA InvIs ==
    /\ Inv <=> /\ WorldInv /\ LocalTypes /\ ViewFits
               /\ \A a \in ActionIds : ActionFits(a)
               /\ \A r \in Readers : ReadingFits(r)
    /\ Inv' <=> /\ WorldInv' /\ LocalTypes' /\ ViewFits'
                /\ \A a \in ActionIds : ActionFits(a)'
                /\ \A r \in Readers : ReadingFits(r)'
  BY DEF Inv, SightsInv, EvidenceInv, ReadingsInv, ActionFits, ReadingFits, ViewFits

\* A sight seen before stays true.
LEMMA SightCarried ==
    ASSUME WorldKept, NEW s \in Sight, StillTrue(s), NEW t, t = s
    PROVE  StillTrue(t)'
  BY DEF WorldKept

LEMMA ActionCarried ==
    ASSUME Inv, WorldKept, NEW a \in ActionIds, actions'[a] = actions[a]
    PROVE  ActionFits(a)'
  <1> SUFFICES ASSUME actions[a] # NoValue
               PROVE  ActionFits(a)'
    BY DEF ActionFits
  <1>1. actions[a] \in Action /\ ActionFits(a)
    BY InvIs DEF LocalTypes
  <1>2. actions[a].saw \in Sight /\ StillTrue(actions[a].saw)
    BY <1>1 DEF Action, ActionFits
  <1>3. StillTrue(actions[a].saw)'
    <2>1. \A s \in Sight : StillTrue(s) => StillTrue(s)'
      BY DEF WorldKept
    <2> DEFINE s == actions[a].saw
    <2>2. s \in Sight /\ StillTrue(s)
      BY <1>2
    <2>3. \E x \in Sight : x = actions[a].saw /\ StillTrue(x)'
      BY <2>1, <2>2
    <2> QED
      BY <2>3 DEF StillTrue
  <1>4. ASSUME actions[a].evidence # NoValue
        PROVE  EvidenceFits(actions[a].evidence, actions[a].status)'
    <2>1. EvidenceFits(actions[a].evidence, actions[a].status)
      BY <1>1, <1>4 DEF ActionFits
    <2>2. \E e, t : /\ e = actions[a].evidence /\ t = actions[a].status
                    /\ EvidenceFits(e, t)'
      BY <2>1, Carried
    <2> QED
      BY <2>2 DEF EvidenceFits
  <1> QED
    BY <1>1, <1>3, <1>4 DEF ActionFits

LEMMA ReadingCarried ==
    ASSUME Inv, WorldKept, NEW r \in Readers, reading'[r] = reading[r],
           \A a \in ActionIds : actions[a] # NoValue => actions'[a] # NoValue
    PROVE  ReadingFits(r)'
  <1> SUFFICES ASSUME reading[r] # NoValue
               PROVE  ReadingFits(r)'
    BY DEF ReadingFits
  <1>1. reading[r] \in Reading /\ ReadingFits(r)
    BY InvIs DEF LocalTypes
  <1>2. actions'[reading[r].action] # NoValue
    BY <1>1 DEF Reading, ReadingFits
  <1>3. ASSUME reading[r].state # NoValue
        PROVE  CompiledReading(reading[r])'
    <2>1. CompiledReading(reading[r])
      BY <1>1, <1>3 DEF ReadingFits
    <2>2. \E q : q = reading[r] /\ CompiledReading(q)'
      BY <2>1, Carried
    <2> QED
      BY <2>2 DEF CompiledReading, Shown, StatusOf
  <1> QED
    BY <1>2, <1>3 DEF ReadingFits

\* A step that touches only the World State.
LEMMA OnlyTheWorld ==
    ASSUME Inv, WorldKept, UNCHANGED <<provider, view, actions, reading>>
    PROVE  Inv'
  <1>1. WorldInv' /\ LocalTypes'
    BY DEF WorldKept, Inv, LocalTypes
  <1>2. ViewFits'
    BY ViewCarried DEF ViewFits
  <1>3. \A a \in ActionIds : ActionFits(a)'
    BY ActionCarried
  <1>4. \A r \in Readers : ReadingFits(r)'
    BY ReadingCarried
  <1> QED
    BY <1>1, <1>2, <1>3, <1>4, InvIs

LEMMA ObserveKeepsInv ==
    ASSUME Inv, NEW o \in Observation, Observe(o)
    PROVE  Inv'
  <1>1. WorldInv /\ Ingests(o) /\ o.payload["status"] # NoValue
    BY DEF Inv, Observe, Sendable
  <1>2. WorldKept
    BY <1>1, IngestKeepsWorld
  <1> QED
    BY <1>2, OnlyTheWorld DEF Observe

LEMMA ResolveConflictKeepsInv ==
    ASSUME Inv, NEW i \in ConflictIds, NEW value \in Values,
           ResolveConflict(i, value)
    PROVE  Inv'
  <1>1. WorldKept
    BY ResolveKeepsWorld DEF Inv
  <1> QED
    BY <1>1, OnlyTheWorld DEF ResolveConflict

\* What can be seen of the order is what is true of it.
LEMMA SeenIsTrue ==
    ASSUME WorldInv, svc.states[Order] # NoValue
    PROVE  /\ Seen(svc) \in Sight
           /\ Seen(svc).version = svc.states[Order].version
           /\ StillTrue(Seen(svc))
           /\ StatusOf(svc.states[Order]) \in Values
           /\ StateOf(svc) = [version |-> svc.states[Order].version,
                              status |-> StatusOf(svc.states[Order]),
                              fulfillment |-> "unfulfilled"]
  <1>1. svc.states[Order] \in EntityState
    BY OneOrder DEF WorldInv, WorldTyped
  <1>2. StatusOf(svc.states[Order]) \in Values
    <2>1. /\ svc.states[Order].attributes \in AttributeMap
          /\ svc.states[Order].attributes["status"] # NoValue
      BY <1>1 DEF WorldInv, StateIsShown, Shown, EntityState
    <2>2. svc.states[Order].attributes["status"] \in Attribute
      BY <2>1, OneOrder
    <2> QED
      BY <2>1, <2>2, OneOrder DEF StatusOf, Attribute
  <1>3. StateOf(svc) = [version |-> svc.states[Order].version,
                        status |-> StatusOf(svc.states[Order]),
                        fulfillment |-> "unfulfilled"]
    BY DEF StateOf, StatusOf
  <1>4. Seen(svc) = [version |-> svc.states[Order].version,
                     status |-> StatusOf(svc.states[Order]),
                     resolutions |-> Resolutions(svc)]
    BY <1>3 DEF Seen
  <1>5. svc.states[Order].version \in Nat \ {0}
    BY <1>1 DEF EntityState
  <1>6. Resolutions(svc) \in SUBSET ConflictIds
    BY DEF Resolutions
  <1>7. Seen(svc) \in Sight
    BY <1>2, <1>4, <1>5, <1>6 DEF Sight
  <1>8. StillTrue(Seen(svc))
    BY <1>4, <1>5 DEF StillTrue
  <1> QED
    BY <1>2, <1>3, <1>4, <1>7, <1>8

LEMMA LookKeepsInv ==
    ASSUME Inv, Look
    PROVE  Inv'
  <1>1. WorldKept
    BY SameWorld DEF Inv, Look
  <1>2. Seen(svc) \in Sight /\ StillTrue(Seen(svc)) /\ view' = Seen(svc)
    BY SeenIsTrue DEF Inv, Look
  <1>3. ViewFits'
    <2>1. \E s : s = view' /\ StillTrue(s)'
      BY <1>1, <1>2 DEF WorldKept
    <2> QED
      BY <2>1 DEF ViewFits, StillTrue
  <1>4. WorldInv' /\ LocalTypes'
    BY <1>1, <1>2 DEF WorldKept, Inv, LocalTypes, Look
  <1>5. \A a \in ActionIds : ActionFits(a)'
    BY <1>1, ActionCarried DEF Look
  <1>6. \A r \in Readers : ReadingFits(r)'
    BY <1>1, ReadingCarried DEF Look
  <1> QED
    BY <1>3, <1>4, <1>5, <1>6, InvIs

LEMMA CancelledKeepsInv ==
    ASSUME Inv, Cancelled
    PROVE  Inv'
  <1>1. WorldKept
    BY SameWorld DEF Inv, Cancelled
  <1>2. WorldInv' /\ LocalTypes'
    BY <1>1 DEF WorldKept, Inv, LocalTypes, Cancelled
  <1>3. ViewFits'
    BY <1>1, ViewCarried DEF ViewFits, Cancelled
  <1>4. \A a \in ActionIds : ActionFits(a)'
    BY <1>1, ActionCarried DEF Cancelled
  <1>5. \A r \in Readers : ReadingFits(r)'
    BY <1>1, ReadingCarried DEF Cancelled
  <1> QED
    BY <1>2, <1>3, <1>4, <1>5, InvIs

\* A step that writes one action.
LEMMA OneActionWritten ==
    ASSUME Inv, WorldKept, UNCHANGED <<provider, view>>,
           NEW a \in ActionIds, NEW written \in Action,
           actions' = [actions EXCEPT ![a] = written],
           StillTrue(written.saw)',
           written.proposal.expected_version = written.saw.version,
           written.evidence # NoValue <=> written.status \in JudgedStatuses,
           written.evidence # NoValue =>
               EvidenceFits(written.evidence, written.status)'
    PROVE  /\ WorldInv' /\ ViewFits' /\ \A b \in ActionIds : ActionFits(b)'
           /\ actions' \in [ActionIds -> Action \cup {NoValue}]
           /\ \A b \in ActionIds : actions[b] # NoValue => actions'[b] # NoValue
  <1>1. /\ actions' \in [ActionIds -> Action \cup {NoValue}]
        /\ actions'[a] = written
        /\ \A b \in ActionIds : b # a => actions'[b] = actions[b]
    BY DEF Inv, LocalTypes
  <1>2. written # NoValue
    BY NoValueAssumption
  <1>3. WorldInv' /\ ViewFits'
    BY ViewCarried DEF WorldKept, ViewFits
  <1>4. ActionFits(a)'
    BY <1>1 DEF ActionFits, StillTrue, EvidenceFits
  <1>5. \A b \in ActionIds : b # a => ActionFits(b)'
    BY <1>1, ActionCarried
  <1> QED
    BY <1>1, <1>2, <1>3, <1>4, <1>5

\* The same, when no reading is touched.
LEMMA OnlyOneAction ==
    ASSUME Inv, UNCHANGED <<svc, minted, view, reading>>,
           provider' \in {provider, "cancelled"},
           NEW a \in ActionIds, NEW written \in Action,
           actions' = [actions EXCEPT ![a] = written],
           StillTrue(written.saw)',
           written.proposal.expected_version = written.saw.version,
           written.evidence = NoValue, written.status \notin JudgedStatuses
    PROVE  Inv'
  <1>0. WorldKept
    BY SameWorld DEF Inv
  <1>1. /\ actions' \in [ActionIds -> Action \cup {NoValue}]
        /\ actions'[a] = written
        /\ \A b \in ActionIds : b # a => actions'[b] = actions[b]
    BY DEF Inv, LocalTypes
  <1>2. written # NoValue
    BY NoValueAssumption
  <1>3. WorldInv' /\ ViewFits'
    BY <1>0, ViewCarried DEF WorldKept, ViewFits
  <1>4. ActionFits(a)'
    BY <1>1 DEF ActionFits, StillTrue, EvidenceFits
  <1>5. \A b \in ActionIds : b # a => ActionFits(b)'
    BY <1>0, <1>1, ActionCarried
  <1>6. \A r \in Readers : ReadingFits(r)'
    BY <1>0, <1>1, <1>2, ReadingCarried
  <1>7. LocalTypes'
    BY <1>1 DEF Inv, LocalTypes
  <1> QED
    BY <1>3, <1>4, <1>5, <1>6, <1>7, InvIs

\* What a written record is to the one it replaces.
LEMMA ActionRecord ==
    ASSUME Inv, NEW a \in ActionIds, actions[a] # NoValue
    PROVE  /\ actions[a] \in Action /\ actions[a].saw \in Sight
           /\ StillTrue(actions[a].saw)
           /\ actions[a].proposal.expected_version = actions[a].saw.version
           /\ actions[a].evidence # NoValue <=> actions[a].status \in JudgedStatuses
           /\ actions[a].evidence # NoValue =>
                  EvidenceFits(actions[a].evidence, actions[a].status)
  BY InvIs DEF LocalTypes, Action, ActionFits

LEMMA ProposeKeepsInv ==
    ASSUME Inv, NEW a \in ActionIds, NEW expected_status \in {"open", NoValue},
           Propose(a, expected_status)
    PROVE  Inv'
  <1> DEFINE written ==
        [status |-> Verdict(HasConflict), saw |-> view,
         proposal |-> [expected_version |-> view.version,
                       expected_status |-> expected_status],
         evidence |-> NoValue]
  <1>1. Verdict(HasConflict) \in {"denied", "approval_required"}
    BY DEF Verdict, Actions!EvaluatePolicy, Actions!Denied, Actions!NeedsOperations
  <1>2. view \in Sight /\ StillTrue(view)
    BY InvIs DEF LocalTypes, ViewFits, Propose
  <1>3. written \in Action
    BY <1>1, <1>2 DEF Action, Sight, Actions!ActionStatus
  <1>4. /\ written.saw = view
        /\ written.proposal.expected_version = view.version
        /\ written.evidence = NoValue /\ written.status \notin JudgedStatuses
    BY <1>1 DEF JudgedStatuses
  <1>5. actions' = [actions EXCEPT ![a] = written]
    BY DEF Propose
  <1> HIDE DEF written
  <1>6. PICK w \in Action : w = written
    BY <1>3
  <1>7. StillTrue(w.saw)'
    BY <1>2, <1>4, <1>6 DEF StillTrue, Propose
  <1> QED
    BY <1>4, <1>5, <1>6, <1>7, OnlyOneAction DEF Propose

\* An event that changes the status only.
LEMMA StatusWritten ==
    ASSUME Inv, NEW a \in ActionIds, actions[a] # NoValue,
           NEW status \in Actions!ActionStatus \ JudgedStatuses,
           actions[a].status \notin JudgedStatuses,
           actions' = [actions EXCEPT ![a].status = status],
           UNCHANGED <<svc, minted, view, reading>>,
           provider' \in {provider, "cancelled"}
    PROVE  Inv'
  <1> DEFINE written == [actions[a] EXCEPT !.status = status]
  <1>1. /\ actions[a] \in Action /\ StillTrue(actions[a].saw)
        /\ actions[a].proposal.expected_version = actions[a].saw.version
        /\ actions[a].evidence = NoValue
    BY ActionRecord
  <1>2. /\ written \in Action /\ written.saw = actions[a].saw
        /\ written.proposal = actions[a].proposal /\ written.evidence = NoValue
        /\ written.status = status
    BY <1>1 DEF Action
  <1>3. actions' = [actions EXCEPT ![a] = written]
    BY DEF Inv, LocalTypes
  <1> HIDE DEF written
  <1>4. PICK w \in Action : w = written
    BY <1>2
  <1>5. StillTrue(w.saw)'
    BY <1>1, <1>2, <1>4 DEF StillTrue
  <1> QED
    BY <1>1, <1>2, <1>3, <1>4, <1>5, OnlyOneAction

LEMMA ApproveKeepsInv ==
    ASSUME Inv, NEW a \in ActionIds, NEW role \in {"operations", "finance"},
           Approve(a, role)
    PROVE  Inv'
  <1> DEFINE status == Actions!StatusAfter(Actions!ApprovalEvent(
                 "operations", actions[a].proposal, role, StateOf(svc)))
  <1>1. status \in Actions!ActionStatus \ JudgedStatuses
    BY DEF Actions!StatusAfter, Actions!ApprovalEvent, Actions!ActionStatus,
           JudgedStatuses
  <1>2. actions' = [actions EXCEPT ![a].status = status]
    BY DEF Approve
  <1> HIDE DEF status
  <1>3. actions[a] # NoValue /\ actions[a].status \notin JudgedStatuses
    BY DEF Approve, JudgedStatuses
  <1> QED
    BY <1>1, <1>2, <1>3, StatusWritten DEF Approve

LEMMA ExecuteKeepsInv ==
    ASSUME Inv, NEW a \in ActionIds, NEW accepted \in BOOLEAN,
           Execute(a, accepted)
    PROVE  Inv'
  <1> DEFINE status == IF accepted THEN "provider_accepted" ELSE "approved"
  <1>1. status \in Actions!ActionStatus \ JudgedStatuses
    BY DEF Actions!ActionStatus, JudgedStatuses
  <1>2. /\ actions[a] # NoValue /\ actions[a].status = "approved"
        /\ actions[a].status \notin JudgedStatuses
        /\ provider' \in {provider, "cancelled"}
        /\ UNCHANGED <<svc, minted, view, reading>>
    BY DEF Execute, JudgedStatuses
  <1>3. actions' = [actions EXCEPT ![a].status = status]
    BY <1>2, ActionRecord DEF Execute, Inv, LocalTypes, Action
  <1> HIDE DEF status
  <1> QED
    BY <1>1, <1>2, <1>3, StatusWritten

\* A step that writes the reading of one reader.
LEMMA OneReadingWritten ==
    ASSUME Inv, WorldKept, UNCHANGED <<provider, view, actions>>,
           NEW r \in Readers, NEW written \in Reading,
           reading' = [reading EXCEPT ![r] = written],
           actions[written.action] # NoValue,
           written.state # NoValue => CompiledReading(written)'
    PROVE  Inv'
  <1>1. /\ reading' \in [Readers -> Reading \cup {NoValue}]
        /\ reading'[r] = written
        /\ \A s \in Readers : s # r => reading'[s] = reading[s]
    BY DEF Inv, LocalTypes
  <1>2. WorldInv' /\ ViewFits' /\ LocalTypes'
    BY <1>1, ViewCarried DEF WorldKept, ViewFits, Inv, LocalTypes
  <1>3. ReadingFits(r)'
    BY <1>1 DEF ReadingFits, CompiledReading, Shown, StatusOf
  <1>4. \A s \in Readers : s # r => ReadingFits(s)'
    BY <1>1, ReadingCarried
  <1>5. \A a \in ActionIds : ActionFits(a)'
    BY ActionCarried
  <1> QED
    BY <1>2, <1>3, <1>4, <1>5, InvIs

LEMMA BeginReadKeepsInv ==
    ASSUME Inv, NEW r \in Readers, NEW a \in ActionIds, BeginRead(r, a)
    PROVE  Inv'
  <1> DEFINE written == [action |-> a, read |-> provider, known |-> FALSE,
                         state |-> NoValue]
  <1>1. written \in Reading
    BY ControlLoopAssumption DEF Reading, Inv, LocalTypes
  <1>2. written.action = a /\ written.state = NoValue
    OBVIOUS
  <1>3. reading' = [reading EXCEPT ![r] = written]
    BY DEF BeginRead
  <1> HIDE DEF written
  <1>4. PICK w \in Reading : w = written
    BY <1>1
  <1>5. WorldKept
    BY SameWorld DEF Inv, BeginRead
  <1> QED
    BY <1>2, <1>3, <1>4, <1>5, OneReadingWritten DEF BeginRead

LEMMA CompileReadKeepsInv ==
    ASSUME Inv, NEW r \in Readers, CompileRead(r)
    PROVE  Inv'
  <1>1. /\ reading[r] \in Reading /\ reading[r] # NoValue
        /\ actions[reading[r].action] # NoValue
    BY InvIs DEF LocalTypes, CompileRead, ReadingFits
  <1>2. PICK id \in ReadingIds(r) :
          /\ Ingests([id |-> id, connector |-> "shopify", entity |-> Order,
                      freshness |-> "fresh",
                      payload |-> [n \in Attributes |-> reading[r].read]])
          /\ reading' = [reading EXCEPT ![r].known = (id \in svc.seen),
                                        ![r].state = svc'.states[Order]]
    BY DEF CompileRead
  <1> DEFINE built == [id |-> id, connector |-> "shopify", entity |-> Order,
                       freshness |-> "fresh",
                       payload |-> [n \in Attributes |-> reading[r].read]]
  <1>3. id \in ObservationIds
    BY <1>2, ControlLoopAssumption DEF ReadingIds
  <1>4. [n \in Attributes |-> reading[r].read] \in ValueMap
    BY <1>1 DEF ValueMap, Reading
  <1>5. PICK o \in Observation : o = built
    BY <1>3, <1>4, OneOrder, ControlLoopAssumption DEF Observation, Freshness
  <1>6. /\ o.payload["status"] = reading[r].read /\ o.id = id
        /\ o.connector = "shopify" /\ Ingests(o)
    BY <1>2, <1>5, OneOrder
  <1>7. o.payload["status"] # NoValue
    BY <1>1, <1>6, NoValueAssumption DEF Reading
  <1> HIDE DEF built
  <1>8. /\ WorldKept
        /\ svc.states[Order] # NoValue \/ o.id \notin svc.seen =>
               svc'.states[Order] # NoValue
        /\ o.id \notin svc.seen /\ o.connector = "shopify"
             /\ o.payload["status"] # StatusOf(svc'.states[Order]) =>
               OnRecord(o.payload["status"])'
    BY <1>5, <1>6, <1>7, IngestKeepsWorld DEF Inv
  <1>9. PICK known \in BOOLEAN : known = (id \in svc.seen)
    <2>1. (id \in svc.seen) \in BOOLEAN
      BY SMT
    <2> QED
      BY <2>1, Zenon
  <1>10. svc'.states[Order] \in EntityState \cup {NoValue}
    BY <1>8, OneOrder DEF WorldKept, WorldInv, WorldTyped
  <1>11. PICK state \in EntityState \cup {NoValue} : state = svc'.states[Order]
    BY <1>10
  <1> DEFINE written == [reading[r] EXCEPT !.known = known, !.state = state]
  <1>12. /\ written \in Reading /\ written.action = reading[r].action
         /\ written.read = reading[r].read /\ written.known = known
         /\ written.state = state
    BY <1>1 DEF Reading
  <1>13. reading' = [reading EXCEPT ![r] = written]
    BY <1>2, <1>9, <1>11 DEF Inv, LocalTypes
  <1> HIDE DEF written
  <1>14. PICK w \in Reading : w = written
    BY <1>12
  <1>15. ASSUME w.state # NoValue
         PROVE  CompiledReading(w)'
    <2>1. svc'.states[Order] # NoValue /\ w.state = svc'.states[Order]
      BY <1>11, <1>12, <1>14, <1>15
    <2>2. Shown(w.state)'
      BY <1>8, <2>1 DEF WorldKept, WorldInv, StateIsShown, Shown, StatusOf
    <2>3. ASSUME ~w.known, w.read # StatusOf(w.state)
          PROVE  OnRecord(w.read)'
      <3>1. id \notin svc.seen /\ w.read = o.payload["status"]
        BY <1>6, <1>9, <1>12, <1>14, <2>3
      <3>2. OnRecord(o.payload["status"])'
        BY <1>6, <1>8, <2>1, <2>3, <3>1
      <3> QED
        BY <3>1, <3>2
    <2> QED
      BY <2>2, <2>3 DEF CompiledReading, StatusOf
  <1> QED
    BY <1>1, <1>8, <1>12, <1>13, <1>14, <1>15, OneReadingWritten DEF CompileRead

\* verify gives a verdict that its evidence supports, and never fails: a
\* state is at hand and has a status.
LEMMA Verdicts ==
    ASSUME NEW observed \in Values, NEW final \in BOOLEAN,
           NEW status, status = Actions!VerificationEvent([status |-> observed], final)
    PROVE  /\ status \in JudgedStatuses /\ status \in Actions!ActionStatus
           /\ status = "verified" <=> observed = "cancelled"
  <1> DEFINE answer == [status |-> observed]
  <1>1. answer # NoValue /\ answer.status = observed /\ observed # NoValue
    <2>1. answer \in [status : Values] /\ answer.status = observed
      OBVIOUS
    <2> HIDE DEF answer
    <2> QED
      BY <2>1, NoValueAssumption
  <1> HIDE DEF answer
  <1>2. status = Actions!VerificationEvent(answer, final)
    BY DEF answer
  <1> QED
    BY <1>1, <1>2 DEF Actions!VerificationEvent, Actions!ObservedStatus,
                      JudgedStatuses, Actions!ActionStatus

LEMMA JudgeKeepsInv ==
    ASSUME Inv, NEW r \in Readers, NEW is_final_attempt \in BOOLEAN,
           Judge(r, is_final_attempt)
    PROVE  Inv'
  <1>0. WorldKept
    BY SameWorld DEF Inv, Judge
  <1>1. PICK q \in Reading : q = reading[r]
    BY DEF Inv, LocalTypes, Judge
  <1>2. PICK a \in ActionIds : a = q.action
    BY <1>1 DEF Reading
  <1>3. /\ q # NoValue /\ q.state # NoValue /\ q.state \in EntityState
        /\ actions[a] # NoValue /\ CompiledReading(q)
    <2>1. ReadingFits(r) /\ reading[r] # NoValue /\ reading[r].state # NoValue
      BY InvIs DEF Judge
    <2> QED
      BY <1>1, <1>2, <2>1 DEF ReadingFits, Reading
  <1>4. /\ reading' = [reading EXCEPT ![r] = NoValue]
        /\ UNCHANGED <<svc, minted, provider, view>>
        /\ actions' =
               IF actions[a].status \notin Actions!VERIFIABLE_STATUSES THEN actions
               ELSE [actions EXCEPT
                   ![a].status = Actions!VerificationEvent(
                       [status |-> Evidence(q).observed], is_final_attempt),
                   ![a].evidence = Evidence(q)]
    BY <1>1, <1>2 DEF Judge
  <1>5. /\ reading' \in [Readers -> Reading \cup {NoValue}]
        /\ reading'[r] = NoValue
        /\ \A s \in Readers : s # r => reading'[s] = reading[s]
    BY <1>4 DEF Inv, LocalTypes
  <1>6. ASSUME \A b \in ActionIds : actions[b] # NoValue => actions'[b] # NoValue
        PROVE  \A s \in Readers : ReadingFits(s)'
    <2>1. ReadingFits(r)'
      BY <1>5 DEF ReadingFits
    <2>2. \A s \in Readers : s # r => ReadingFits(s)'
      BY <1>0, <1>5, <1>6, ReadingCarried
    <2> QED
      BY <2>1, <2>2
  <1>7. CASE actions[a].status \notin Actions!VERIFIABLE_STATUSES
    <2>1. actions' = actions
      BY <1>4, <1>7
    <2>2. WorldInv' /\ ViewFits' /\ LocalTypes'
      BY <1>0, <1>4, <1>5, <2>1, ViewCarried DEF WorldKept, ViewFits, Inv, LocalTypes
    <2>3. \A b \in ActionIds : ActionFits(b)'
      BY <1>0, <2>1, ActionCarried
    <2> QED
      BY <1>6, <2>1, <2>2, <2>3, InvIs
  <1>8. CASE actions[a].status \in Actions!VERIFIABLE_STATUSES
    <2>1. PICK e : e = Evidence(q)
      OBVIOUS
    <2>2. /\ e.read = q.read /\ e.known = q.known /\ e.commit = q.state.commit
          /\ e.observed = StatusOf(q.state) /\ e \in ReadEvidence
      <3>1. e = [read |-> q.read, known |-> q.known,
                 observed |-> StatusOf(q.state), commit |-> q.state.commit]
        BY <2>1 DEF Evidence, StatusOf
      <3>2. /\ q.read \in Values /\ q.known \in BOOLEAN
            /\ q.state.commit \in CommitIds /\ q.state.attributes \in AttributeMap
        BY <1>3 DEF Reading, EntityState
      <3>3. q.state.attributes["status"] # NoValue
        BY <1>3 DEF CompiledReading, Shown
      <3>4. StatusOf(q.state) \in Values
        <4>1. q.state.attributes["status"] \in Attribute
          BY <3>2, <3>3, OneOrder
        <4> QED
          BY <3>2, <3>3, <4>1, OneOrder DEF StatusOf, Attribute
      <3> QED
        BY <3>1, <3>2, <3>4 DEF ReadEvidence
    <2>3. PICK status : status = Actions!VerificationEvent(
                                    [status |-> e.observed], is_final_attempt)
      OBVIOUS
    <2>4. /\ status \in JudgedStatuses /\ status \in Actions!ActionStatus
          /\ status = "verified" <=> e.observed = "cancelled"
      BY <2>2, <2>3, Verdicts DEF ReadEvidence
    <2>5. EvidenceFits(e, status)'
      <3>1. Shown(q.state) /\ (~q.known /\ q.read # StatusOf(q.state) => OnRecord(q.read))
        BY <1>3 DEF CompiledReading
      <3>2. EvidenceFits(e, status)
        BY <2>2, <2>4, <3>1 DEF EvidenceFits, Shown
      <3> QED
        BY <1>0, <3>2, Carried
    <2>6. /\ actions[a] \in Action /\ actions[a].saw \in Sight
          /\ StillTrue(actions[a].saw)
          /\ actions[a].proposal.expected_version = actions[a].saw.version
      BY <1>3, ActionRecord
    <2> DEFINE written == [actions[a] EXCEPT !.status = status, !.evidence = e]
    <2>7. /\ written \in Action /\ written.saw = actions[a].saw
          /\ written.proposal = actions[a].proposal
          /\ written.evidence = e /\ written.status = status
      BY <2>2, <2>4, <2>6 DEF Action
    <2>8. actions' = [actions EXCEPT ![a] = written]
      BY <1>4, <1>8, <2>1, <2>3 DEF Inv, LocalTypes
    <2> HIDE DEF written
    <2>9. PICK w \in Action : w = written
      BY <2>7
    <2>10. StillTrue(w.saw)'
      BY <1>4, <2>6, <2>7, <2>9 DEF StillTrue
    <2>11. /\ w.evidence = e /\ w.status = status /\ e # NoValue
           /\ w.proposal.expected_version = w.saw.version
      BY <2>2, <2>6, <2>7, <2>9, NoValueAssumption
    <2>12. EvidenceFits(w.evidence, w.status)'
      BY <2>5, <2>11
    <2>13. /\ WorldInv' /\ ViewFits' /\ \A b \in ActionIds : ActionFits(b)'
           /\ actions' \in [ActionIds -> Action \cup {NoValue}]
           /\ \A b \in ActionIds : actions[b] # NoValue => actions'[b] # NoValue
      BY <1>0, <1>4, <2>4, <2>8, <2>9, <2>10, <2>11, <2>12, OneActionWritten
    <2>14. LocalTypes'
      BY <1>4, <1>5, <2>13 DEF Inv, LocalTypes
    <2> QED
      BY <1>6, <2>13, <2>14, InvIs
  <1> QED
    BY <1>7, <1>8

LEMMA InitInv ==
    ASSUME Init
    PROVE  Inv
  <1>1. /\ svc.seen = {} /\ svc.states = [e \in Entities |-> NoValue]
        /\ svc.commits = [c \in {} |-> NoValue] /\ svc.latest = NoValue
        /\ svc.conflicts = [i \in ConflictIds |-> NoValue]
        /\ svc.open = [k \in Entities \X Attributes |-> NoValue]
        /\ IsMemory(svc)
    BY DEF Init, EmptyService, IsMemory
  <1>2. WorldTyped
    BY <1>1 DEF WorldTyped, Init
  <1>3. StateIsShown
    BY <1>1, OneOrder DEF StateIsShown
  <1> QED
    BY <1>2, <1>3 DEF Init, Inv, WorldInv, LocalTypes, SightsInv, ReadingsInv,
                      EvidenceInv

LEMMA StepKeepsInv ==
    ASSUME Inv, [Next]_vars
    PROVE  Inv'
  <1>1. CASE \E o \in Observation : Observe(o)
    BY <1>1, ObserveKeepsInv
  <1>2. CASE \E i \in ConflictIds, value \in Values : ResolveConflict(i, value)
    BY <1>2, ResolveConflictKeepsInv
  <1>3. CASE Look
    BY <1>3, LookKeepsInv
  <1>4. CASE Cancelled
    BY <1>4, CancelledKeepsInv
  <1>5. CASE \E a \in ActionIds, expected_status \in {"open", NoValue} :
                 Propose(a, expected_status)
    BY <1>5, ProposeKeepsInv
  <1>6. CASE \E a \in ActionIds, role \in {"operations", "finance"} : Approve(a, role)
    BY <1>6, ApproveKeepsInv
  <1>7. CASE \E a \in ActionIds, accepted \in BOOLEAN : Execute(a, accepted)
    BY <1>7, ExecuteKeepsInv
  <1>8. CASE \E r \in Readers, a \in ActionIds : BeginRead(r, a)
    BY <1>8, BeginReadKeepsInv
  <1>9. CASE \E r \in Readers : CompileRead(r)
    BY <1>9, CompileReadKeepsInv
  <1>10. CASE \E r \in Readers, is_final_attempt \in BOOLEAN : Judge(r, is_final_attempt)
    BY <1>10, JudgeKeepsInv
  <1>11. CASE UNCHANGED vars
    <2>1. WorldKept
      BY <1>11, SameWorld DEF Inv, vars
    <2> QED
      BY <1>11, <2>1, OnlyTheWorld DEF vars
  <1> QED
    BY <1>1, <1>2, <1>3, <1>4, <1>5, <1>6, <1>7, <1>8, <1>9, <1>10, <1>11,
       Zenon DEF Next

-----------------------------------------------------------------------------
(* The theorems.                                                           *)

\* Commits stay, disputes stay on record, versions tell what was seen, and the
\* evidence of an action tells what its verdict was given for.
THEOREM InvHolds == Spec => []Inv
  <1>1. Init => Inv
    BY InitInv
  <1>2. Inv /\ [Next]_vars => Inv'
    BY StepKeepsInv
  <1> QED
    BY <1>1, <1>2, PTL DEF Spec

\* Every variable has its type.
THEOREM TypesHold == Spec => []TypeOK
  <1>1. Inv => TypeOK
    BY OneOrder DEF Inv, WorldInv, WorldTyped, LocalTypes, TypeOK
  <1> QED
    BY <1>1, InvHolds, PTL

\* A verdict against the order that was read back at Shopify leaves that reading
\* on record as a side of a conflict, unless its id was known (ingest and
\* verify).
THEOREM OverruledReadsStayOnRecord == Spec => []OverruledReadsAreOnRecord
  <1>1. ASSUME Inv, NEW a \in ActionIds, actions[a] # NoValue,
               actions[a].evidence # NoValue, ~actions[a].evidence.known,
               (actions[a].evidence.read = "cancelled") # (actions[a].status = "verified")
        PROVE  OnRecord(actions[a].evidence.read)
    <2>1. EvidenceFits(actions[a].evidence, actions[a].status)
      BY <1>1, ActionRecord
    <2>2. actions[a].evidence.read # actions[a].evidence.observed
      BY <1>1, <2>1 DEF EvidenceFits
    <2> QED
      BY <1>1, <2>1, <2>2 DEF EvidenceFits
  <1>2. Inv => OverruledReadsAreOnRecord
    BY <1>1 DEF OverruledReadsAreOnRecord, OnRecord, ShopifySaid
  <1> QED
    BY <1>2, InvHolds, PTL

\* The commit in the proof bundle of a verdict left the order with the status
\* that the verdict was given for (verify and action_proof).
THEOREM ProofCommitsShowTheVerdict == Spec => []ProofCommitShowsVerdict
  <1>1. ASSUME Inv, NEW a \in ActionIds, actions[a] # NoValue,
               actions[a].status \in {"verified", "state_diverged"}
        PROVE  /\ ProofCommit(a) # NoValue
               /\ ProofCommit(a).after["status"] = actions[a].evidence.observed
               /\ actions[a].status = "verified" <=>
                      ProofCommit(a).after["status"] = "cancelled"
    <2>1. EvidenceFits(actions[a].evidence, actions[a].status)
      BY <1>1, ActionRecord DEF JudgedStatuses
    <2>2. ProofCommit(a) = svc.commits[actions[a].evidence.commit]
      BY <1>1, <2>1 DEF ProofCommit, EvidenceFits
    <2>3. ProofCommit(a) \in Commit
      BY <1>1, <2>1, <2>2 DEF EvidenceFits, Inv, WorldInv, WorldTyped
    <2> QED
      BY <2>1, <2>2, <2>3, NoValueAssumption DEF EvidenceFits
  <1>2. Inv => ProofCommitShowsVerdict
    BY <1>1 DEF ProofCommitShowsVerdict
  <1> QED
    BY <1>2, InvHolds, PTL

\* Between what a proposer saw and the approval the order had no other status,
\* and no dispute about it was decided (the version that approve compares).
THEOREM ApprovalsRestOnTheSight == Spec => ApprovalsRestOnWhatWasSeen
  <1>1. ASSUME Inv, [Next]_vars, NEW a \in ActionIds, actions'[a] # actions[a],
               actions'[a].status = "approved"
        PROVE  /\ StateOf(svc).status = actions[a].saw.status
               /\ Resolutions(svc) = actions[a].saw.resolutions
    <2>0. actions \in [ActionIds -> Action \cup {NoValue}]
      BY <1>1 DEF Inv, LocalTypes
    <2>1. \E role \in {"operations", "finance"} : Approve(a, role)
      <3>1. ASSUME NEW b \in ActionIds, NEW expected_status \in {"open", NoValue},
                   Propose(b, expected_status)
            PROVE  FALSE
        <4>1. Verdict(HasConflict) # "approved"
          BY DEF Verdict, Actions!EvaluatePolicy, Actions!Denied,
                 Actions!NeedsOperations
        <4> QED
          BY <1>1, <2>0, <3>1, <4>1 DEF Propose
      <3>2. ASSUME NEW b \in ActionIds, NEW accepted \in BOOLEAN, Execute(b, accepted)
            PROVE  FALSE
        <4>1. actions' = [actions EXCEPT ![b].status = "provider_accepted"]
          BY <1>1, <3>2 DEF Execute
        <4>2. actions[b] \in Action
          BY <2>0, <3>2 DEF Execute
        <4> QED
          BY <1>1, <2>0, <4>1, <4>2 DEF Action
      <3>3. ASSUME NEW r \in Readers, NEW final \in BOOLEAN, Judge(r, final)
            PROVE  FALSE
        <4>1. PICK b \in ActionIds : b = reading[r].action
          BY <1>1, <3>3 DEF Judge, Inv, LocalTypes, Reading
        <4>2. PICK event : event = Actions!VerificationEvent(
                        [status |-> Evidence(reading[r]).observed], final)
          OBVIOUS
        <4>3. event # "approved"
          BY <4>2 DEF Actions!VerificationEvent
        <4>4. PICK e : e = Evidence(reading[r])
          OBVIOUS
        <4>5. actions' = [actions EXCEPT ![b].status = event, ![b].evidence = e]
          BY <1>1, <3>3, <4>1, <4>2, <4>4 DEF Judge
        <4>6. actions[b] \in Action
          BY <1>1, <2>0, <3>3, <4>1, InvIs DEF Judge, ReadingFits
        <4>7. actions'[b].status = event /\ \A c \in ActionIds : c # b =>
                  actions'[c] = actions[c]
          BY <2>0, <4>5, <4>6 DEF Action
        <4> QED
          BY <1>1, <4>3, <4>7
      <3>4. ASSUME NEW b \in ActionIds, NEW role \in {"operations", "finance"},
                   Approve(b, role)
            PROVE  Approve(a, role)
        BY <1>1, <2>0, <3>4 DEF Approve
      <3>5. CASE UNCHANGED actions
        BY <1>1, <3>5
      <3>6. CASE \E b \in ActionIds, role \in {"operations", "finance"} :
                     Approve(b, role)
        BY <3>4, <3>6
      <3> QED
        BY <1>1, <3>1, <3>2, <3>3, <3>5, <3>6
           DEF Next, vars, Observe, ResolveConflict, Look, Cancelled, BeginRead,
               CompileRead
    <2>2. PICK role \in {"operations", "finance"} : Approve(a, role)
      BY <2>1
    <2>3. /\ actions[a] # NoValue
          /\ Actions!PreconditionsHold(actions[a].proposal, StateOf(svc))
      <3>1. actions[a] # NoValue /\ actions[a] \in Action
        BY <2>0, <2>2 DEF Approve
      <3>2. Actions!StatusAfter(Actions!ApprovalEvent("operations",
                actions[a].proposal, role, StateOf(svc))) = "approved"
        BY <1>1, <2>0, <2>2, <3>1 DEF Approve, Action
      <3> QED
        BY <3>1, <3>2 DEF Actions!StatusAfter, Actions!ApprovalEvent
    <2>4. /\ StillTrue(actions[a].saw)
          /\ actions[a].proposal.expected_version = actions[a].saw.version
      BY <1>1, <2>3, ActionRecord
    <2>5. /\ svc.states[Order] # NoValue
          /\ StateOf(svc).version = svc.states[Order].version
          /\ StateOf(svc).status = StatusOf(svc.states[Order])
      BY <2>4 DEF StillTrue, StateOf, StatusOf
    <2> QED
      BY <2>3, <2>4, <2>5 DEF StillTrue, Actions!PreconditionsHold
  <1>2. Inv /\ [Next]_vars =>
            [\A a \in ActionIds :
                actions'[a] # actions[a] /\ actions'[a].status = "approved" =>
                    /\ StateOf(svc).status = actions[a].saw.status
                    /\ Resolutions(svc) = actions[a].saw.resolutions]_vars
    BY <1>1
  <1> QED
    BY <1>2, InvHolds, PTL DEF Spec, ApprovalsRestOnWhatWasSeen
=============================================================================
