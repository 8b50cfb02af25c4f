---------------------------- MODULE WorkspacesProofs ----------------------------
(***************************************************************************)
(* The workspaces for every number of tenants, operators, requests and     *)
(* actions: what a tenant's policy says was asked for, and an order is     *)
(* cancelled only where operators granted it.                              *)
(*                                                                         *)
(* The state of the rows is an argument of the definitions here (ws, cmd,  *)
(* log), so that one lemma serves the state before and after a step.       *)
(***************************************************************************)
EXTENDS Workspaces, FiniteSetTheorems, WellFoundedInduction, TLAPS

-----------------------------------------------------------------------------
(* The rows of a tenant, and the one that counts.                          *)

RowsOf(ws, t) == {i \in Ids : ws[i] # NoValue /\ ws[i].tenant = t}

FirstOf(ws, t) ==
    CHOOSE i \in RowsOf(ws, t) : \A j \in RowsOf(ws, t) : ws[i].created <= ws[j].created

Setting(ws, t, f) ==
    IF RowsOf(ws, t) = {} THEN Defaults[f] ELSE ws[FirstOf(ws, t)].settings[f]

Many(ws, t) == \E i, j \in RowsOf(ws, t) : i # j

Tables == [Ids -> Row \cup {NoValue}]

\* No two rows were created by transactions that began at the same time.
Dated(ws, now) ==
    /\ \A i \in Ids : ws[i] # NoValue => ws[i].created \in 1..now
    /\ \A i, j \in Ids : ws[i] # NoValue /\ ws[j] # NoValue /\ i # j
           => ws[i].created # ws[j].created

-----------------------------------------------------------------------------
(* Types.                                                                  *)

WellFormed(c, ws) ==
    /\ c = [op |-> c.op, tenant |-> c.tenant, id |-> c.id, created |-> c.created,
            values |-> c.values, seen |-> c.seen]
    /\ c.op \in {"idle", "initialize", "checked", "write"}
    /\ DOMAIN c.values \subseteq Fields
    /\ \A f \in DOMAIN c.values : c.values[f] \in Domain(f)
    /\ c.op \in {"idle", "initialize"} => DOMAIN c.values = {}
    /\ c.op # "idle" => c.tenant \in Tenants
    /\ c.op = "initialize" => c.id \in Ids /\ c.created \in 1..MaxTime
    /\ c.op = "checked" => c.created = 0
    /\ c.op = "write" => c.id \in RowsOf(ws, c.tenant)

\* A running init began at a time at which no other transaction of init did.
InitsDiffer(ws, cmd, now) ==
    /\ \A o \in Operators : cmd[o].op = "initialize" =>
           /\ cmd[o].created \in 1..now
           /\ \A i \in Ids : ws[i] # NoValue => ws[i].created # cmd[o].created
    /\ \A o, p \in Operators :
           cmd[o].op = "initialize" /\ cmd[p].op = "initialize" /\ o # p
           => cmd[o].created # cmd[p].created

LogTypes(log) ==
    /\ log = [t \in Tenants |-> log[t]]
    /\ \A t \in Tenants : log[t] = [f \in Fields |-> log[t][f]]
    /\ \A t \in Tenants, f \in Fields :
           log[t][f] = [before |-> log[t][f].before, since |-> log[t][f].since,
                        ever |-> log[t][f].ever]

RowTypes ==
    /\ workspaces \in Tables /\ clock \in 0..MaxTime
    /\ DOMAIN command = Operators
    /\ \A o \in Operators : WellFormed(command[o], workspaces)
    /\ Dated(workspaces, clock)
    /\ InitsDiffer(workspaces, command, clock)

RequestFormed(q, acts) ==
    /\ q = [op |-> q.op, tenant |-> q.tenant, action |-> q.action, mode |-> q.mode,
            limit |-> q.limit]
    /\ q.op \in {"idle", "propose", "execute"}
    /\ q.op = "propose" => q.tenant \in Tenants /\ q.mode \in Modes
    /\ q.op = "execute" => q.action \in ActionIds /\ acts[q.action] # NoValue

RequestTypes ==
    /\ DOMAIN request = Requests
    /\ \A r \in Requests : RequestFormed(request[r], actions)
    /\ actions \in [ActionIds -> StoredAction \cup {NoValue}]

Types == RowTypes /\ LogTypes(asked) /\ RequestTypes

-----------------------------------------------------------------------------
(* What was asked for.                                                     *)

\* What a running command assigns was asked for since the others ended.
CommandAsked(c, log) ==
    \A f \in DOMAIN c.values : c.values[f] \in log[c.tenant][f].since

Explained(ws, t, f, values) ==
    \/ Setting(ws, t, f) \in values
    \/ Many(ws, t) /\ Setting(ws, t, f) = Defaults[f]

SettingsExplained(ws, log) ==
    \A t \in Tenants, f \in Fields :
        /\ Explained(ws, t, f, log[t][f].before \cup log[t][f].since)
        /\ RowsOf(ws, t) = {} => Defaults[f] \in log[t][f].before

\* A command that is about to write overwrites what it saw, or what was
\* written since by a command that overlaps it.
WriteExplained(ws, c, log) ==
    c.op = "write" =>
        \A f \in DOMAIN c.values :
            \/ Explained(ws, c.tenant, f, log[c.tenant][f].since)
            \/ c.id = FirstOf(ws, c.tenant) /\ Setting(ws, c.tenant, f) = c.seen[f]

CommandsExplained(ws, cmd, log) ==
    \A o \in Operators : CommandAsked(cmd[o], log) /\ WriteExplained(ws, cmd[o], log)

SettingsInv ==
    /\ Types
    /\ SettingsExplained(workspaces, asked)
    /\ CommandsExplained(workspaces, command, asked)

-----------------------------------------------------------------------------
(* What was ever granted.                                                  *)

Granted(log, t, f, value) == value = Defaults[f] \/ value \in log[t][f].ever

RowsGranted(ws, log) ==
    \A i \in Ids, f \in Fields : ws[i] # NoValue =>
        Granted(log, ws[i].tenant, f, ws[i].settings[f])

ValuesGranted(cmd, log) ==
    \A o \in Operators : \A f \in DOMAIN cmd[o].values :
        Granted(log, cmd[o].tenant, f, cmd[o].values[f])

RequestsGranted(req, acts, log) ==
    \A r \in Requests :
        /\ req[r].op = "propose" /\ req[r].mode = "demo_proposal" =>
               "demo_proposal" \in log[req[r].tenant]["mode"].ever
        /\ req[r].op = "execute" =>
               TRUE \in log[acts[req[r].action].tenant]["shopify"].ever

ActionsGranted(acts, log) ==
    \A a \in ActionIds : acts[a] # NoValue /\ acts[a].status # "denied" =>
        /\ "demo_proposal" \in log[acts[a].tenant]["mode"].ever
        /\ acts[a].status = "provider_accepted" =>
               TRUE \in log[acts[a].tenant]["shopify"].ever

GrantInv ==
    /\ Types
    /\ RowsGranted(workspaces, asked)
    /\ ValuesGranted(command, asked)
    /\ RequestsGranted(request, actions, asked)
    /\ ActionsGranted(actions, asked)

-----------------------------------------------------------------------------
(* Rows, and the first of a tenant's.                                      *)

\* The settings of a row are those of its fields.
LEMMA SettingsAre ==
    ASSUME NEW s
    PROVE  s \in Settings <=> /\ s = [f \in Fields |-> s[f]]
                              /\ \A f \in Fields : s[f] \in Domain(f)
  <1>0. "mode" \notin ConnectorKinds
    BY WorkspacesAssumption
  <1>1. ASSUME s \in Settings
        PROVE  s = [f \in Fields |-> s[f]] /\ \A f \in Fields : s[f] \in Domain(f)
    <2>1. PICK mode \in Modes, checks \in [ConnectorKinds -> BOOLEAN] :
              s = [f \in Fields |-> IF f = "mode" THEN mode ELSE checks[f]]
      BY <1>1 DEF Settings
    <2>2. ASSUME NEW f \in Fields PROVE s[f] \in Domain(f)
      <3>1. CASE f = "mode"
        BY <2>1, <3>1 DEF Domain
      <3>2. CASE f # "mode"
        BY <2>1, <3>2 DEF Domain, Fields
      <3> QED
        BY <3>1, <3>2
    <2> QED
      BY <2>1, <2>2
  <1>2. ASSUME s = [f \in Fields |-> s[f]], \A f \in Fields : s[f] \in Domain(f)
        PROVE  s \in Settings
    <2> DEFINE checks == [k \in ConnectorKinds |-> s[k]]
    <2>1. checks \in [ConnectorKinds -> BOOLEAN]
      <3>1. ASSUME NEW k \in ConnectorKinds PROVE s[k] \in BOOLEAN
        BY <1>0, <1>2 DEF Fields, Domain
      <3> QED
        BY <3>1
    <2>2. s["mode"] \in Modes
      BY <1>2 DEF Fields, Domain
    <2>3. s = [f \in Fields |-> IF f = "mode" THEN s["mode"] ELSE checks[f]]
      BY <1>2 DEF Fields
    <2> HIDE DEF checks
    <2> QED
      BY <2>1, <2>2, <2>3 DEF Settings
  <1> QED
    BY <1>1, <1>2

LEMMA DefaultsAreSettings == Defaults \in Settings
  <1>1. Defaults = [f \in Fields |-> Defaults[f]]
    BY DEF Defaults
  <1>2. \A f \in Fields : Defaults[f] \in Domain(f)
    BY DEF Defaults, Domain, Modes
  <1> QED
    BY <1>1, <1>2, SettingsAre

\* What is known of a stored row.
LEMMA RowsAre ==
    ASSUME NEW ws \in Tables, NEW i \in Ids, ws[i] # NoValue
    PROVE  /\ ws[i] \in Row /\ ws[i].tenant \in Tenants /\ ws[i].created \in 1..MaxTime
           /\ ws[i] = [tenant |-> ws[i].tenant, created |-> ws[i].created,
                       settings |-> ws[i].settings]
           /\ ws[i].settings \in Settings
           /\ ws[i].settings = [f \in Fields |-> ws[i].settings[f]]
           /\ \A f \in Fields : ws[i].settings[f] \in Domain(f)
  <1>1. ws[i] \in Row
    BY DEF Tables
  <1>2. ws[i].settings \in Settings
    BY <1>1 DEF Row
  <1> QED
    BY <1>1, <1>2, SettingsAre DEF Row

\* A row is no absent row.
LEMMA NewRowsAreRows ==
    ASSUME NEW t \in Tenants, NEW n \in 1..MaxTime, NEW s \in Settings
    PROVE  /\ [tenant |-> t, created |-> n, settings |-> s] \in Row
           /\ [tenant |-> t, created |-> n, settings |-> s] # NoValue
  BY NoValueAssumption DEF Row

\* Among the rows of a tenant there is a first one.
LEMMA FirstExists ==
    ASSUME NEW ws, NEW now, NEW t, Dated(ws, now), RowsOf(ws, t) # {}
    PROVE  \E i \in RowsOf(ws, t) :
               \A j \in RowsOf(ws, t) : ws[i].created <= ws[j].created
  <1> DEFINE Dates == {ws[i].created : i \in RowsOf(ws, t)}
  <1>1. \A i \in RowsOf(ws, t) : ws[i].created \in Nat
    BY DEF RowsOf, Dated
  <1>2. Dates \subseteq Nat /\ Dates # {}
    BY <1>1
  <1> HIDE DEF Dates
  <1> DEFINE earlier == {p \in Nat \X Nat : p[1] < p[2]}
  <1>3. IsWellFoundedOn(earlier, Nat)
    BY NatLessThanWellFounded DEF OpToRel
  <1>4. \A k, n \in Nat : k < n => <<k, n>> \in earlier
    OBVIOUS
  <1> HIDE DEF earlier
  <1>5. PICK n \in Dates : \A k \in Dates : ~ (<<k, n>> \in earlier)
    BY <1>2, <1>3, WFMin
  <1>6. PICK i \in RowsOf(ws, t) : ws[i].created = n
    BY DEF Dates
  <1>7. ASSUME NEW j \in RowsOf(ws, t) PROVE ws[i].created <= ws[j].created
    <2>1. ws[j].created \in Dates
      BY DEF Dates
    <2>2. ~ (<<ws[j].created, ws[i].created>> \in earlier)
      BY <1>5, <1>6, <2>1
    <2>3. ~ (ws[j].created < ws[i].created)
      BY <1>1, <1>4, <2>2, Zenon
    <2> QED
      BY <1>1, <2>3
  <1> QED
    BY <1>7

LEMMA FirstIs ==
    ASSUME NEW ws, NEW now, NEW t, Dated(ws, now), RowsOf(ws, t) # {}
    PROVE  /\ FirstOf(ws, t) \in RowsOf(ws, t)
           /\ \A j \in RowsOf(ws, t) : ws[FirstOf(ws, t)].created <= ws[j].created
  BY FirstExists DEF FirstOf

\* No other row may take its place.
LEMMA FirstIsUnique ==
    ASSUME NEW ws, NEW now, NEW t, Dated(ws, now), NEW i \in RowsOf(ws, t),
           \A j \in RowsOf(ws, t) : ws[i].created <= ws[j].created
    PROVE  FirstOf(ws, t) = i
  <1>1. /\ FirstOf(ws, t) \in RowsOf(ws, t)
        /\ \A j \in RowsOf(ws, t) : ws[FirstOf(ws, t)].created <= ws[j].created
    BY FirstIs
  <1>2. ws[i].created = ws[FirstOf(ws, t)].created
    BY <1>1 DEF Dated, RowsOf
  <1> QED
    BY <1>1, <1>2 DEF Dated, RowsOf

\* The definitions of the model are these, of the rows as they are.
LEMMA ModelReadsRows ==
    /\ \A t : WorkspacesOf(t) = RowsOf(workspaces, t)
    /\ \A t : PrimaryWorkspace(t) = FirstOf(workspaces, t)
    /\ \A t, f : SettingOf(t, f) = Setting(workspaces, t, f)
  <1>1. \A t : WorkspacesOf(t) = RowsOf(workspaces, t)
    BY DEF WorkspacesOf, RowsOf
  <1>2. \A t : PrimaryWorkspace(t) = FirstOf(workspaces, t)
    BY DEF PrimaryWorkspace, FirstOf, WorkspacesOf, RowsOf
  <1>3. \A t, f : SettingOf(t, f) = Setting(workspaces, t, f)
    BY <1>1, <1>2 DEF SettingOf, Setting
  <1> QED
    BY <1>1, <1>2, <1>3

-----------------------------------------------------------------------------
(* What a step does to the rows.                                           *)

\* A row is inserted where there was none.
Inserts(ws, new, i, t, n) ==
    /\ ws \in Tables /\ i \in Ids /\ t \in Tenants /\ n \in 1..MaxTime
    /\ ws[i] = NoValue
    /\ new = [ws EXCEPT ![i] = [tenant |-> t, created |-> n, settings |-> Defaults]]

LEMMA InsertKeepsRows ==
    ASSUME NEW ws, NEW new, NEW i, NEW t, NEW n, Inserts(ws, new, i, t, n)
    PROVE  /\ new \in Tables
           /\ new[i] = [tenant |-> t, created |-> n, settings |-> Defaults]
           /\ new[i] # NoValue
           /\ \A j \in Ids \ {i} : new[j] = ws[j]
           /\ RowsOf(new, t) = RowsOf(ws, t) \cup {i}
           /\ \A u : u # t => RowsOf(new, u) = RowsOf(ws, u)
  <1> DEFINE row == [tenant |-> t, created |-> n, settings |-> Defaults]
  <1>0. ws \in Tables /\ i \in Ids /\ t \in Tenants /\ n \in 1..MaxTime
    BY DEF Inserts
  <1>1. row \in Row /\ row # NoValue
    BY <1>0, NewRowsAreRows, DefaultsAreSettings
  <1>2. row.tenant = t
    OBVIOUS
  <1>3. new = [ws EXCEPT ![i] = row] /\ ws[i] = NoValue
    BY DEF Inserts
  <1> HIDE DEF row
  <1>4. new \in Tables /\ new[i] = row /\ \A j \in Ids \ {i} : new[j] = ws[j]
    BY <1>0, <1>1, <1>3 DEF Tables
  <1>5. RowsOf(new, t) = RowsOf(ws, t) \cup {i}
    BY <1>0, <1>1, <1>2, <1>4 DEF RowsOf
  <1>6. \A u : u # t => RowsOf(new, u) = RowsOf(ws, u)
    BY <1>1, <1>2, <1>3, <1>4 DEF RowsOf
  <1> QED
    BY <1>1, <1>4, <1>5, <1>6 DEF row

\* The settings of a row change, within their types.
Updates(ws, new, i, s) ==
    /\ ws \in Tables /\ i \in Ids /\ s \in Settings
    /\ ws[i] # NoValue
    /\ new = [ws EXCEPT ![i] = [tenant |-> ws[i].tenant, created |-> ws[i].created,
                                settings |-> s]]

LEMMA UpdateKeepsRows ==
    ASSUME NEW ws, NEW new, NEW i, NEW s, Updates(ws, new, i, s)
    PROVE  /\ new \in Tables
           /\ new[i] # NoValue /\ new[i].settings = s
           /\ \A j \in Ids : new[j] # NoValue <=> ws[j] # NoValue
           /\ \A j \in Ids : ws[j] # NoValue =>
                  /\ new[j].tenant = ws[j].tenant /\ new[j].created = ws[j].created
                  /\ j # i => new[j].settings = ws[j].settings
           /\ \A u : RowsOf(new, u) = RowsOf(ws, u)
           /\ \A now : Dated(ws, now) => Dated(new, now)
           /\ \A now, u : Dated(ws, now) /\ RowsOf(ws, u) # {}
                  => FirstOf(new, u) = FirstOf(ws, u)
  <1> DEFINE row == [tenant |-> ws[i].tenant, created |-> ws[i].created, settings |-> s]
  <1>0. ws \in Tables /\ i \in Ids
    BY DEF Updates
  <1>1. row \in Row /\ row # NoValue
    <2>1. s \in Settings /\ ws[i] # NoValue
      BY DEF Updates
    <2>2. ws[i].tenant \in Tenants /\ ws[i].created \in 1..MaxTime
      BY <1>0, <2>1, RowsAre
    <2> QED
      BY <2>1, <2>2, NewRowsAreRows
  <1>2. row.tenant = ws[i].tenant /\ row.created = ws[i].created /\ row.settings = s
    OBVIOUS
  <1>3. new = [ws EXCEPT ![i] = row] /\ ws[i] # NoValue
    BY DEF Updates
  <1> HIDE DEF row
  <1>4. new \in Tables /\ new[i] = row /\ \A j \in Ids \ {i} : new[j] = ws[j]
    BY <1>0, <1>1, <1>3 DEF Tables
  <1>5. \A j \in Ids : new[j] # NoValue <=> ws[j] # NoValue
    BY <1>1, <1>3, <1>4
  <1>6. \A j \in Ids : new[j] # NoValue =>
            new[j].tenant = ws[j].tenant /\ new[j].created = ws[j].created
    BY <1>2, <1>4
  <1>7. \A u : RowsOf(new, u) = RowsOf(ws, u)
    BY <1>5, <1>6 DEF RowsOf
  <1>8. ASSUME NEW now, Dated(ws, now) PROVE Dated(new, now)
    <2>1. \A j \in Ids : new[j] # NoValue => new[j].created \in 1..now
      BY <1>5, <1>6, <1>8 DEF Dated
    <2>2. \A j, k \in Ids : new[j] # NoValue /\ new[k] # NoValue /\ j # k
              => new[j].created # new[k].created
      BY <1>5, <1>6, <1>8 DEF Dated
    <2> QED
      BY <2>1, <2>2 DEF Dated
  <1>9. ASSUME NEW now, NEW u, Dated(ws, now), RowsOf(ws, u) # {}
        PROVE  FirstOf(new, u) = FirstOf(ws, u)
    <2>1. /\ FirstOf(ws, u) \in RowsOf(new, u)
          /\ \A j \in RowsOf(ws, u) : ws[FirstOf(ws, u)].created <= ws[j].created
      BY <1>7, <1>9, FirstIs
    <2>2. \A k \in RowsOf(ws, u) : new[k].created = ws[k].created
      BY <1>5, <1>6 DEF RowsOf
    <2>3. \A j \in RowsOf(new, u) : new[FirstOf(ws, u)].created <= new[j].created
      BY <1>7, <2>1, <2>2
    <2> QED
      BY <1>8, <1>9, <2>1, <2>3, FirstIsUnique
  <1> QED
    BY <1>1, <1>2, <1>3, <1>4, <1>5, <1>6, <1>7, <1>8, <1>9

\* A workspace that is assigned to changes the settings of its tenant if it is
\* the one that counts.
LEMMA UpdateSets ==
    ASSUME NEW ws, NEW new, NEW i, NEW s, Updates(ws, new, i, s),
           NEW now, Dated(ws, now), NEW u
    PROVE  /\ Many(new, u) <=> Many(ws, u)
           /\ \A f : RowsOf(ws, u) # {} /\ FirstOf(ws, u) = i => Setting(new, u, f) = s[f]
           /\ \A f : RowsOf(ws, u) = {} \/ FirstOf(ws, u) # i
                  => Setting(new, u, f) = Setting(ws, u, f)
  <1>1. RowsOf(new, u) = RowsOf(ws, u) /\ new[i].settings = s
    BY UpdateKeepsRows
  <1>2. RowsOf(ws, u) # {} => FirstOf(new, u) = FirstOf(ws, u)
    <2>1. \A any, v : Dated(ws, any) /\ RowsOf(ws, v) # {} => FirstOf(new, v) = FirstOf(ws, v)
      BY UpdateKeepsRows
    <2> QED
      BY <2>1
  <1>3. \A j \in RowsOf(ws, u) \ {i} : new[j].settings = ws[j].settings
    BY UpdateKeepsRows DEF RowsOf
  <1>4. RowsOf(ws, u) # {} => FirstOf(ws, u) \in RowsOf(ws, u)
    BY FirstIs
  <1> QED
    BY <1>1, <1>2, <1>3, <1>4 DEF Setting, Many

\* A workspace that is inserted either does not count or brings the initial
\* settings.
LEMMA InsertSets ==
    ASSUME NEW ws, NEW new, NEW i, NEW t, NEW n, Inserts(ws, new, i, t, n),
           NEW now \in Nat, n <= now, Dated(ws, now),
           \A j \in Ids : ws[j] # NoValue => ws[j].created # n
    PROVE  /\ Dated(new, now)
           /\ \A u : u # t =>
                  /\ Many(new, u) <=> Many(ws, u)
                  /\ RowsOf(ws, u) # {} => FirstOf(new, u) = FirstOf(ws, u)
                  /\ \A f : Setting(new, u, f) = Setting(ws, u, f)
           /\ RowsOf(ws, t) = {} => \A f \in Fields : Setting(new, t, f) = Defaults[f]
           /\ RowsOf(ws, t) # {} =>
                  /\ Many(new, t)
                  /\ \/ \A f \in Fields : Setting(new, t, f) = Defaults[f]
                     \/ /\ FirstOf(new, t) = FirstOf(ws, t)
                        /\ \A f : Setting(new, t, f) = Setting(ws, t, f)
  <1>1. /\ new \in Tables /\ i \in Ids /\ t \in Tenants /\ n \in 1..MaxTime
        /\ new[i].tenant = t /\ new[i].created = n /\ new[i].settings = Defaults
        /\ new[i] # NoValue /\ ws[i] = NoValue
        /\ \A j \in Ids \ {i} : new[j] = ws[j]
        /\ RowsOf(new, t) = RowsOf(ws, t) \cup {i}
        /\ \A u : u # t => RowsOf(new, u) = RowsOf(ws, u)
    <2>1. ws[i] = NoValue /\ i \in Ids /\ t \in Tenants /\ n \in 1..MaxTime
      BY DEF Inserts
    <2>2. /\ new \in Tables
          /\ new[i] = [tenant |-> t, created |-> n, settings |-> Defaults]
          /\ new[i] # NoValue
          /\ \A j \in Ids \ {i} : new[j] = ws[j]
          /\ RowsOf(new, t) = RowsOf(ws, t) \cup {i}
          /\ \A u : u # t => RowsOf(new, u) = RowsOf(ws, u)
      BY InsertKeepsRows
    <2> QED
      BY <2>1, <2>2
  <1>2. Dated(new, now)
    <2>1. \A j \in Ids : new[j] # NoValue => new[j].created \in 1..now
      BY <1>1 DEF Dated
    <2>2. \A j, k \in Ids : new[j] # NoValue /\ new[k] # NoValue /\ j # k
              => new[j].created # new[k].created
      BY <1>1 DEF Dated
    <2> QED
      BY <2>1, <2>2 DEF Dated
  <1>3. ASSUME NEW u, u # t
        PROVE  /\ Many(new, u) <=> Many(ws, u)
               /\ RowsOf(ws, u) # {} => FirstOf(new, u) = FirstOf(ws, u)
               /\ \A f : Setting(new, u, f) = Setting(ws, u, f)
    <2>1. RowsOf(new, u) = RowsOf(ws, u)
      BY <1>1, <1>3
    <2>2. \A j \in RowsOf(ws, u) : new[j] = ws[j]
      BY <1>1 DEF RowsOf
    <2>3. RowsOf(ws, u) # {} =>
              /\ FirstOf(ws, u) \in RowsOf(ws, u)
              /\ \A j \in RowsOf(ws, u) : ws[FirstOf(ws, u)].created <= ws[j].created
      BY FirstIs
    <2>4. ASSUME RowsOf(ws, u) # {} PROVE FirstOf(new, u) = FirstOf(ws, u)
      <3>1. /\ FirstOf(ws, u) \in RowsOf(new, u)
            /\ \A j \in RowsOf(new, u) : new[FirstOf(ws, u)].created <= new[j].created
        BY <2>1, <2>2, <2>3, <2>4
      <3> QED
        BY <1>2, <3>1, FirstIsUnique
    <2> QED
      BY <2>1, <2>2, <2>3, <2>4 DEF Many, Setting
  <1>4. /\ FirstOf(new, t) \in RowsOf(new, t)
        /\ \A j \in RowsOf(new, t) : new[FirstOf(new, t)].created <= new[j].created
    BY <1>1, <1>2, FirstIs
  <1>5. CASE FirstOf(new, t) = i
    <2>1. \A f \in Fields : Setting(new, t, f) = Defaults[f]
      BY <1>1, <1>5 DEF Setting
    <2>2. RowsOf(ws, t) # {} => Many(new, t)
      BY <1>1 DEF Many, RowsOf
    <2> QED
      BY <1>2, <1>3, <2>1, <2>2
  <1>6. CASE FirstOf(new, t) # i
    <2>1. FirstOf(new, t) \in RowsOf(ws, t)
      BY <1>1, <1>4, <1>6
    <2>2. \A j \in RowsOf(ws, t) : new[j] = ws[j]
      BY <1>1 DEF RowsOf
    <2>3. \A j \in RowsOf(ws, t) : ws[FirstOf(new, t)].created <= ws[j].created
      BY <1>1, <1>4, <2>1, <2>2
    <2>4. FirstOf(ws, t) = FirstOf(new, t)
      BY <2>1, <2>3, FirstIsUnique
    <2>5. \A f : Setting(new, t, f) = Setting(ws, t, f)
      BY <1>1, <2>1, <2>2, <2>4 DEF Setting
    <2>6. Many(new, t)
      BY <1>1, <2>1 DEF Many, RowsOf
    <2> QED
      BY <1>2, <1>3, <2>1, <2>4, <2>5, <2>6
  <1> QED
    BY <1>5, <1>6

-----------------------------------------------------------------------------
(* The kinds of steps, with the records that the actions compute.          *)

Initializing(t, i, n) ==
    [op |-> "initialize", tenant |-> t, id |-> i, created |-> n,
     values |-> <<>>, seen |-> <<>>]

Checking(t, values) ==
    [op |-> "checked", tenant |-> t, id |-> NoValue, created |-> 0,
     values |-> values, seen |-> <<>>]

\* A command that read the workspace that counts, and is about to write.
Writing(ws, t, values) ==
    [op |-> "write", tenant |-> t, id |-> FirstOf(ws, t), created |-> 0,
     values |-> values,
     seen |-> [f \in DOMAIN values |-> ws[FirstOf(ws, t)].settings[f]]]

Rests == UNCHANGED <<workspaces, command, clock, asked>>

Begins(o, t, i) ==
    /\ command[o].op = "idle" /\ t \in Tenants /\ i \in Ids
    /\ clock < MaxTime /\ clock' = clock + 1
    /\ command' = [command EXCEPT ![o] = Initializing(t, i, clock + 1)]
    /\ UNCHANGED <<workspaces, asked>>

Commits(o) ==
    /\ command[o].op = "initialize"
    /\ \/ workspaces' = workspaces
       \/ Inserts(workspaces, workspaces', command[o].id, command[o].tenant,
                  command[o].created)
    /\ command' = [command EXCEPT ![o] = Idle]
    /\ UNCHANGED <<clock, asked>>

WellTyped(values) ==
    /\ DOMAIN values \subseteq Fields
    /\ \A f \in DOMAIN values : values[f] \in Domain(f)

Starts(o, t, values) ==
    /\ command[o].op = "idle" /\ t \in Tenants /\ WellTyped(values)
    /\ \/ command' = [command EXCEPT ![o] = Checking(t, values)]
       \/ /\ RowsOf(workspaces, t) # {}
          /\ command' = [command EXCEPT ![o] = Writing(workspaces, t, values)]
    /\ Asks(t, values)
    /\ UNCHANGED <<workspaces, clock>>

Looks(o) ==
    /\ command[o].op = "checked" /\ RowsOf(workspaces, command[o].tenant) # {}
    /\ command' = [command EXCEPT ![o] =
                      Writing(workspaces, command[o].tenant, command[o].values)]
    /\ UNCHANGED <<workspaces, clock, asked>>

Fails(o) ==
    /\ command[o].op = "checked" /\ RowsOf(workspaces, command[o].tenant) = {}
    /\ Ends(o, FALSE)
    /\ UNCHANGED <<workspaces, clock>>

\* The settings that command c leaves.
Written(ws, c) ==
    [f \in Fields |-> IF f \in DOMAIN c.values /\ c.values[f] # c.seen[f]
                      THEN c.values[f] ELSE ws[c.id].settings[f]]

Writes(o) ==
    /\ command[o].op = "write"
    /\ Updates(workspaces, workspaces', command[o].id, Written(workspaces, command[o]))
    /\ Ends(o, TRUE)
    /\ UNCHANGED clock

LEMMA IdleIs ==
    /\ Idle = [op |-> "idle", tenant |-> NoValue, id |-> NoValue, created |-> 0,
               values |-> Idle.values, seen |-> Idle.seen]
    /\ Idle.op = "idle" /\ DOMAIN Idle.values = {}
  BY DEF Idle

LEMMA InitializingIs ==
    ASSUME NEW t, NEW i, NEW n
    PROVE  /\ Initializing(t, i, n).op = "initialize"
           /\ Initializing(t, i, n).tenant = t /\ Initializing(t, i, n).id = i
           /\ Initializing(t, i, n).created = n
           /\ DOMAIN Initializing(t, i, n).values = {}
           /\ t \in Tenants /\ i \in Ids /\ n \in 1..MaxTime
                  => \A ws : WellFormed(Initializing(t, i, n), ws)
  BY DEF Initializing, WellFormed

LEMMA CheckingIs ==
    ASSUME NEW t \in Tenants, NEW values, WellTyped(values)
    PROVE  /\ Checking(t, values).op = "checked" /\ Checking(t, values).tenant = t
           /\ Checking(t, values).values = values
           /\ \A ws : WellFormed(Checking(t, values), ws)
  BY DEF Checking, WellFormed, WellTyped

LEMMA WritingIs ==
    ASSUME NEW t \in Tenants, NEW values, WellTyped(values), NEW ws, NEW now,
           Dated(ws, now), RowsOf(ws, t) # {}
    PROVE  /\ Writing(ws, t, values).op = "write" /\ Writing(ws, t, values).tenant = t
           /\ Writing(ws, t, values).values = values
           /\ Writing(ws, t, values).id = FirstOf(ws, t)
           /\ \A f \in DOMAIN values :
                  Writing(ws, t, values).seen[f] = Setting(ws, t, f)
           /\ WellFormed(Writing(ws, t, values), ws)
  <1> DEFINE c == Writing(ws, t, values)
  <1>1. /\ c.op = "write" /\ c.tenant = t /\ c.values = values /\ c.id = FirstOf(ws, t)
        /\ c.seen = [f \in DOMAIN values |-> ws[FirstOf(ws, t)].settings[f]]
        /\ c = [op |-> c.op, tenant |-> c.tenant, id |-> c.id, created |-> c.created,
                values |-> c.values, seen |-> c.seen]
    BY DEF Writing
  <1>2. FirstOf(ws, t) \in RowsOf(ws, t)
    BY FirstIs
  <1> HIDE DEF c
  <1>3. WellFormed(c, ws)
    BY <1>1, <1>2 DEF WellFormed, WellTyped
  <1>4. \A f \in DOMAIN values : c.seen[f] = Setting(ws, t, f)
    BY <1>1 DEF Setting
  <1> QED
    BY <1>1, <1>3, <1>4 DEF c

LEMMA ReadsIs ==
    ASSUME NEW c, NEW t, NEW values,
           c = [op |-> c.op, tenant |-> t, id |-> c.id, created |-> 0,
                values |-> values, seen |-> c.seen]
    PROVE  Reads(c) = Writing(workspaces, t, values)
  <1> DEFINE i == PrimaryWorkspace(t)
             seen == [f \in DOMAIN values |-> workspaces[i].settings[f]]
  <1>1. c.tenant = t /\ c.values = values
    OBVIOUS
  <1>2. Reads(c) = [c EXCEPT !.op = "write", !.id = i, !.seen = seen]
    BY <1>1 DEF Reads
  <1>3. i = FirstOf(workspaces, t)
    BY ModelReadsRows
  <1>4. Writing(workspaces, t, values) =
            [op |-> "write", tenant |-> t, id |-> i, created |-> 0,
             values |-> values, seen |-> seen]
    BY <1>3 DEF Writing
  <1> HIDE DEF i, seen
  <1>5. [c EXCEPT !.op = "write", !.id = i, !.seen = seen]
        = [op |-> "write", tenant |-> t, id |-> i, created |-> 0,
           values |-> values, seen |-> seen]
    <2>1. [c EXCEPT !.op = "write"] =
              [op |-> "write", tenant |-> t, id |-> c.id, created |-> 0,
               values |-> values, seen |-> c.seen]
      OBVIOUS
    <2>2. [[op |-> "write", tenant |-> t, id |-> c.id, created |-> 0,
            values |-> values, seen |-> c.seen] EXCEPT !.id = i]
          = [op |-> "write", tenant |-> t, id |-> i, created |-> 0,
             values |-> values, seen |-> c.seen]
      OBVIOUS
    <2>3. [[op |-> "write", tenant |-> t, id |-> i, created |-> 0,
            values |-> values, seen |-> c.seen] EXCEPT !.seen = seen]
          = [op |-> "write", tenant |-> t, id |-> i, created |-> 0,
             values |-> values, seen |-> seen]
      OBVIOUS
    <2> QED
      BY <2>1, <2>2, <2>3
  <1> QED
    BY <1>2, <1>4, <1>5

LEMMA CommandIs ==
    ASSUME NEW op, NEW t, NEW i, NEW values
    PROVE  Command(op, t, i, values) =
               [op |-> op, tenant |-> t, id |-> i, created |-> 0, values |-> values,
                seen |-> <<>>]
  <1> DEFINE none == <<>>
  <1>1. Idle = [op |-> "idle", tenant |-> NoValue, id |-> NoValue, created |-> 0,
                values |-> none, seen |-> none]
    BY DEF Idle
  <1> HIDE DEF none
  <1>2. [[op |-> "idle", tenant |-> NoValue, id |-> NoValue, created |-> 0,
          values |-> none, seen |-> none] EXCEPT !.op = op]
        = [op |-> op, tenant |-> NoValue, id |-> NoValue, created |-> 0,
           values |-> none, seen |-> none]
    OBVIOUS
  <1>3. [[op |-> op, tenant |-> NoValue, id |-> NoValue, created |-> 0,
          values |-> none, seen |-> none] EXCEPT !.tenant = t]
        = [op |-> op, tenant |-> t, id |-> NoValue, created |-> 0,
           values |-> none, seen |-> none]
    OBVIOUS
  <1>4. [[op |-> op, tenant |-> t, id |-> NoValue, created |-> 0,
          values |-> none, seen |-> none] EXCEPT !.id = i]
        = [op |-> op, tenant |-> t, id |-> i, created |-> 0,
           values |-> none, seen |-> none]
    OBVIOUS
  <1>5. [[op |-> op, tenant |-> t, id |-> i, created |-> 0,
          values |-> none, seen |-> none] EXCEPT !.values = values]
        = [op |-> op, tenant |-> t, id |-> i, created |-> 0,
           values |-> values, seen |-> none]
    OBVIOUS
  <1>6. Command(op, t, i, values) =
            [op |-> op, tenant |-> t, id |-> i, created |-> 0, values |-> values,
             seen |-> none]
    BY <1>1, <1>2, <1>3, <1>4, <1>5 DEF Command
  <1> QED
    BY <1>6 DEF none

LEMMA InitializeBeginIs ==
    ASSUME RowTypes, NEW o \in Operators, NEW t \in Tenants, NEW i \in Ids,
           NEW chosen \in BOOLEAN, InitializeBegin(o, t, i, chosen)
    PROVE  Begins(o, t, i)
  <1>1. [Command("initialize", t, i, <<>>) EXCEPT !.created = clock + 1]
        = Initializing(t, i, clock + 1)
    BY CommandIs DEF Initializing
  <1>2. clock' = clock + 1
    BY DEF InitializeBegin
  <1> QED
    BY <1>1, <1>2 DEF InitializeBegin, Begins

LEMMA InitializeCommitIs ==
    ASSUME Types, NEW o \in Operators, InitializeCommit(o)
    PROVE  Commits(o)
  <1> DEFINE c == command[o]
  <1>1. /\ c.op = "initialize" /\ DOMAIN c.values = {} /\ c.tenant \in Tenants
        /\ c.id \in Ids /\ c.created \in 1..MaxTime
    BY DEF InitializeCommit, Types, RowTypes, WellFormed
  <1>2. asked' = asked
    <2>1. asked' = [asked EXCEPT ![c.tenant] = [f \in Fields |-> asked[c.tenant][f]]]
      BY <1>1 DEF InitializeCommit, Ends
    <2>2. asked[c.tenant] = [f \in Fields |-> asked[c.tenant][f]]
      BY <1>1 DEF Types, LogTypes
    <2>3. asked = [asked EXCEPT ![c.tenant] = asked[c.tenant]]
      BY <1>1 DEF Types, LogTypes
    <2> QED
      BY <2>1, <2>2, <2>3
  <1>3. command' = [command EXCEPT ![o] = Idle]
    BY DEF InitializeCommit, Ends
  <1>4. \/ workspaces' = workspaces
        \/ Inserts(workspaces, workspaces', c.id, c.tenant, c.created)
    BY <1>1 DEF InitializeCommit, Workspace, Inserts, Types, RowTypes
  <1> QED
    BY <1>1, <1>2, <1>3, <1>4 DEF Commits, InitializeCommit

LEMMA CommandsStart ==
    ASSUME RowTypes, NEW o \in Operators, NEW t \in Tenants, NEW values, WellTyped(values),
           command[o].op = "idle", Asks(t, values), UNCHANGED <<workspaces, clock>>,
           \/ command' = [command EXCEPT ![o] = Command("checked", t, NoValue, values)]
           \/ /\ WorkspacesOf(t) # {}
              /\ command' = [command EXCEPT ![o] =
                                Reads(Command("set_mode", t, NoValue, values))]
    PROVE  Starts(o, t, values)
  <1>1. Command("checked", t, NoValue, values) = Checking(t, values)
    BY CommandIs DEF Checking
  <1>2. Reads(Command("set_mode", t, NoValue, values)) = Writing(workspaces, t, values)
    <2> DEFINE c == Command("set_mode", t, NoValue, values)
    <2>1. c = [op |-> "set_mode", tenant |-> t, id |-> NoValue, created |-> 0,
               values |-> values, seen |-> <<>>]
      BY CommandIs
    <2>2. c = [op |-> c.op, tenant |-> t, id |-> c.id, created |-> 0,
               values |-> values, seen |-> c.seen]
      BY <2>1
    <2> HIDE DEF c
    <2>3. Reads(c) = Writing(workspaces, t, values)
      BY <2>2, ReadsIs
    <2> QED
      BY <2>3 DEF c
  <1>3. WorkspacesOf(t) = RowsOf(workspaces, t)
    BY ModelReadsRows
  <1> QED
    BY <1>1, <1>2, <1>3 DEF Starts

LEMMA SetModeBeginIs ==
    ASSUME RowTypes, NEW o \in Operators, NEW t \in Tenants, NEW mode \in Modes,
           SetModeBegin(o, t, mode)
    PROVE  \E values : Starts(o, t, values)
  <1> DEFINE values == [f \in {"mode"} |-> mode]
  <1>1. WellTyped(values)
    BY DEF WellTyped, Fields, Domain
  <1>2. /\ command[o].op = "idle" /\ WorkspacesOf(t) # {}
        /\ command' = [command EXCEPT ![o] = Reads(Command("set_mode", t, NoValue, values))]
        /\ Asks(t, values)
        /\ UNCHANGED <<workspaces, clock>>
    BY DEF SetModeBegin
  <1> HIDE DEF values
  <1>3. Starts(o, t, values)
    BY <1>1, <1>2, CommandsStart
  <1> QED
    BY <1>3

LEMMA CheckConnectorsIs ==
    ASSUME RowTypes, NEW o \in Operators, NEW t \in Tenants,
           NEW kinds \in SUBSET ConnectorKinds \ {{}}, NEW results \in [kinds -> BOOLEAN],
           CheckConnectors(o, t, results)
    PROVE  Starts(o, t, results)
  <1>1. WellTyped(results)
    <2>1. "mode" \notin ConnectorKinds
      BY WorkspacesAssumption
    <2>2. DOMAIN results = kinds /\ kinds \subseteq ConnectorKinds
      OBVIOUS
    <2> QED
      BY <2>1, <2>2 DEF WellTyped, Fields, Domain
  <1>2. /\ command[o].op = "idle"
        /\ command' = [command EXCEPT ![o] = Command("checked", t, NoValue, results)]
        /\ Asks(t, results)
        /\ UNCHANGED <<workspaces, clock>>
    BY DEF CheckConnectors
  <1> QED
    BY <1>1, <1>2, CommandsStart

LEMMA RecordChecksBeginIs ==
    ASSUME RowTypes, NEW o \in Operators, RecordChecksBegin(o)
    PROVE  Looks(o)
  <1> DEFINE c == command[o]
  <1>1. /\ c.op = "checked" /\ WorkspacesOf(c.tenant) # {}
        /\ command' = [command EXCEPT ![o] = Reads(c)]
        /\ UNCHANGED <<workspaces, clock, asked>>
    BY DEF RecordChecksBegin
  <1>2. c = [op |-> c.op, tenant |-> c.tenant, id |-> c.id, created |-> 0,
             values |-> c.values, seen |-> c.seen]
    BY <1>1 DEF RowTypes, WellFormed
  <1>3. WorkspacesOf(c.tenant) = RowsOf(workspaces, c.tenant)
    BY ModelReadsRows
  <1> HIDE DEF c
  <1>4. Reads(c) = Writing(workspaces, c.tenant, c.values)
    BY <1>2, ReadsIs
  <1> QED
    BY <1>1, <1>3, <1>4 DEF Looks, c

LEMMA RecordChecksFailsIs ==
    ASSUME RowTypes, NEW o \in Operators, RecordChecksFails(o)
    PROVE  Fails(o)
  BY ModelReadsRows DEF RecordChecksFails, Fails

LEMMA WriteIs ==
    ASSUME RowTypes, NEW o \in Operators, Write(o)
    PROVE  Writes(o)
  <1> DEFINE c == command[o]
             row == workspaces[c.id]
             s == Written(workspaces, c)
  <1>1. c.op = "write" /\ Ends(o, TRUE) /\ UNCHANGED clock
    BY DEF Write
  <1>2. c.id \in Ids /\ row # NoValue /\ workspaces \in Tables
    BY <1>1 DEF RowTypes, WellFormed, RowsOf
  <1>3. row = [tenant |-> row.tenant, created |-> row.created, settings |-> row.settings]
        /\ \A f \in Fields : row.settings[f] \in Domain(f)
    BY <1>2, RowsAre
  <1>4. s = [f \in Fields |-> s[f]] /\ \A f \in Fields : s[f] \in Domain(f)
    BY <1>1, <1>3 DEF Written, RowTypes, WellFormed
  <1>5. s \in Settings
    BY <1>4, SettingsAre
  <1>6. s = [f \in Fields |-> IF f \in {g \in DOMAIN c.values : c.values[g] # c.seen[g]}
                              THEN c.values[f] ELSE row.settings[f]]
    BY DEF Written
  <1>7. workspaces' = [workspaces EXCEPT ![c.id] = [row EXCEPT !.settings = s]]
    BY <1>2, <1>6 DEF Write, Tables
  <1> HIDE DEF s
  <1>8. [row EXCEPT !.settings = s]
        = [tenant |-> row.tenant, created |-> row.created, settings |-> s]
    BY <1>3
  <1>9. Updates(workspaces, workspaces', c.id, s)
    BY <1>2, <1>5, <1>7, <1>8 DEF Updates
  <1> QED
    BY <1>1, <1>9 DEF Writes, s

\* Every step is one of these.
LEMMA StepsAre ==
    ASSUME Types, [Next]_vars
    PROVE  \/ Rests
           \/ \E o \in Operators :
                  \/ Commits(o) \/ Looks(o) \/ Fails(o) \/ Writes(o)
                  \/ \E t \in Tenants, i \in Ids : Begins(o, t, i)
                  \/ \E t \in Tenants : \E values : Starts(o, t, values)
  <1> USE DEF Types
  <1>1. ASSUME NEW o \in Operators, NEW t \in Tenants, NEW i \in Ids, NEW chosen \in BOOLEAN,
               InitializeBegin(o, t, i, chosen)
        PROVE  Begins(o, t, i)
    BY <1>1, InitializeBeginIs
  <1>2. ASSUME NEW o \in Operators, NEW t \in Tenants, NEW mode \in Modes,
               SetModeBegin(o, t, mode)
        PROVE  \E values : Starts(o, t, values)
    BY <1>2, SetModeBeginIs
  <1>3. ASSUME NEW o \in Operators, NEW t \in Tenants,
               NEW kinds \in SUBSET ConnectorKinds \ {{}}, NEW results \in [kinds -> BOOLEAN],
               CheckConnectors(o, t, results)
        PROVE  \E values : Starts(o, t, values)
    BY <1>3, CheckConnectorsIs
  <1>4. ASSUME NEW o \in Operators,
               InitializeCommit(o) \/ RecordChecksBegin(o) \/ RecordChecksFails(o) \/ Write(o)
        PROVE  Commits(o) \/ Looks(o) \/ Fails(o) \/ Writes(o)
    BY <1>4, InitializeCommitIs, RecordChecksBeginIs, RecordChecksFailsIs, WriteIs
  <1>5. ASSUME \/ \E r \in Requests, t \in Tenants, own \in Limits \cup {NoValue} :
                      ProposeBegin(r, t, own)
               \/ \E r \in Requests, a \in ActionIds :
                      \/ \E value \in {OrderValue, NoValue}, conflict \in BOOLEAN :
                             Propose(r, a, value, conflict)
                      \/ ExecuteBegin(r, a)
               \/ \E r \in Requests : Execute(r)
               \/ \E a \in ActionIds, status \in {"approved", "rejected"} : Approve(a, status)
               \/ Restart \/ UNCHANGED vars
        PROVE  Rests
    BY <1>5 DEF Rests, ProposeBegin, Propose, ExecuteBegin, Execute, Approve, Restart, vars
  <1>6. CASE \E o \in Operators, t \in Tenants, i \in Ids, chosen \in BOOLEAN :
                 InitializeBegin(o, t, i, chosen)
    BY <1>1, <1>6
  <1>7. CASE \E o \in Operators, t \in Tenants, mode \in Modes : SetModeBegin(o, t, mode)
    BY <1>2, <1>7
  <1>8. CASE \E o \in Operators, t \in Tenants, kinds \in SUBSET ConnectorKinds \ {{}} :
                 \E results \in [kinds -> BOOLEAN] : CheckConnectors(o, t, results)
    BY <1>3, <1>8
  <1>9. CASE \E o \in Operators :
                 \/ InitializeCommit(o) \/ RecordChecksBegin(o)
                 \/ RecordChecksFails(o) \/ Write(o)
    BY <1>4, <1>9
  <1> QED
    BY <1>5, <1>6, <1>7, <1>8, <1>9, Zenon DEF Next

-----------------------------------------------------------------------------
(* What a step records of what was asked for.                              *)

AsksFor(log, new, t, values) ==
    \A u \in Tenants, f \in Fields :
        LET here == u = t /\ f \in DOMAIN values
        IN  /\ new[u][f].before = log[u][f].before
            /\ ~here => new[u][f] = log[u][f]
            /\ here => /\ new[u][f].since = log[u][f].since \cup {values[f]}
                       /\ new[u][f].ever = log[u][f].ever \cup ({values[f]} \ {Defaults[f]})

Alone(cmd, o, f) ==
    \A p \in Operators \ {o} : f \in DOMAIN cmd[p].values => cmd[p].tenant # cmd[o].tenant

EndsOf(cmd, log, new, o, done) ==
    \A u \in Tenants, f \in Fields :
        LET here == u = cmd[o].tenant /\ f \in DOMAIN cmd[o].values /\ Alone(cmd, o, f)
        IN  /\ new[u][f].ever = log[u][f].ever
            /\ ~here => new[u][f] = log[u][f]
            /\ here => /\ new[u][f].since = {}
                       /\ new[u][f].before =
                              IF done THEN log[u][f].since ELSE log[u][f].before

LEMMA AsksIs ==
    ASSUME LogTypes(asked), NEW t \in Tenants, NEW values, Asks(t, values)
    PROVE  LogTypes(asked') /\ AsksFor(asked, asked', t, values)
  <1> DEFINE entry(f) == IF f \notin DOMAIN values THEN asked[t][f]
                         ELSE [before |-> asked[t][f].before,
                               since |-> asked[t][f].since \cup {values[f]},
                               ever |-> asked[t][f].ever \cup ({values[f]} \ {Defaults[f]})]
  <1>1. ASSUME NEW f \in Fields
        PROVE  entry(f) = IF f \notin DOMAIN values THEN asked[t][f]
                          ELSE [asked[t][f] EXCEPT !.since = @ \cup {values[f]},
                                   !.ever = @ \cup ({values[f]} \ {Defaults[f]})]
    <2> DEFINE e == asked[t][f]
               since == e.since \cup {values[f]}
               ever == e.ever \cup ({values[f]} \ {Defaults[f]})
    <2>1. e = [before |-> e.before, since |-> e.since, ever |-> e.ever]
      BY DEF LogTypes
    <2>2. [e EXCEPT !.since = since] = [before |-> e.before, since |-> since, ever |-> e.ever]
      <3> HIDE DEF e, since
      <3> QED
        BY <2>1
    <2>3. [[before |-> e.before, since |-> since, ever |-> e.ever] EXCEPT !.ever = ever]
          = [before |-> e.before, since |-> since, ever |-> ever]
      <3> HIDE DEF e, since, ever
      <3> QED
        OBVIOUS
    <2>4. [e EXCEPT !.since = since, !.ever = ever]
          = [before |-> e.before, since |-> since, ever |-> ever]
      <3> HIDE DEF e, since, ever
      <3> QED
        BY <2>2, <2>3
    <2> QED
      BY <2>4
  <1>2. asked' = [asked EXCEPT ![t] = [f \in Fields |-> entry(f)]]
    <2> DEFINE new(f) == IF f \notin DOMAIN values THEN asked[t][f]
                         ELSE [asked[t][f] EXCEPT !.since = @ \cup {values[f]},
                                  !.ever = @ \cup ({values[f]} \ {Defaults[f]})]
    <2>1. asked' = [asked EXCEPT ![t] = [f \in Fields |-> new(f)]]
      BY DEF Asks
    <2>2. \A f \in Fields : entry(f) = new(f)
      BY <1>1
    <2> HIDE DEF entry, new
    <2>3. [f \in Fields |-> entry(f)] = [f \in Fields |-> new(f)]
      BY <2>2
    <2> QED
      BY <2>1, <2>3
  <1>3. \A f \in Fields :
            entry(f) = [before |-> entry(f).before, since |-> entry(f).since,
                        ever |-> entry(f).ever]
    BY DEF LogTypes
  <1>4. \A f \in Fields \ DOMAIN values : entry(f) = asked[t][f]
    OBVIOUS
  <1>5. \A f \in Fields \cap DOMAIN values :
            /\ entry(f).before = asked[t][f].before
            /\ entry(f).since = asked[t][f].since \cup {values[f]}
            /\ entry(f).ever = asked[t][f].ever \cup ({values[f]} \ {Defaults[f]})
    OBVIOUS
  <1> HIDE DEF entry
  <1>6. /\ \A u \in Tenants \ {t} : asked'[u] = asked[u]
        /\ asked'[t] = [f \in Fields |-> entry(f)]
        /\ asked' = [u \in Tenants |-> asked'[u]]
    BY <1>2 DEF LogTypes
  <1>7. LogTypes(asked')
    <2>1. \A u \in Tenants : asked'[u] = [f \in Fields |-> asked'[u][f]]
      BY <1>6 DEF LogTypes
    <2>2. \A f \in Fields : asked'[t][f] = entry(f)
      BY <1>6
    <2>3. ASSUME NEW u \in Tenants, NEW f \in Fields
          PROVE  asked'[u][f] = [before |-> asked'[u][f].before,
                                 since |-> asked'[u][f].since, ever |-> asked'[u][f].ever]
      <3>1. CASE u = t
        BY <1>3, <2>2, <3>1
      <3>2. CASE u # t
        BY <1>6, <3>2 DEF LogTypes
      <3> QED
        BY <3>1, <3>2
    <2> QED
      BY <1>6, <2>1, <2>3 DEF LogTypes
  <1>8. AsksFor(asked, asked', t, values)
    BY <1>4, <1>5, <1>6 DEF AsksFor
  <1> QED
    BY <1>7, <1>8

LEMMA EndsIs ==
    ASSUME LogTypes(asked), NEW o \in Operators, command[o].tenant \in Tenants,
           NEW done \in BOOLEAN, Ends(o, done)
    PROVE  /\ LogTypes(asked') /\ EndsOf(command, asked, asked', o, done)
           /\ command' = [command EXCEPT ![o] = Idle]
  <1> DEFINE c == command[o]
             t == c.tenant
             ends(f) == f \in DOMAIN c.values /\ Alone(command, o, f)
             entry(f) == IF ends(f)
                         THEN [before |-> IF done THEN asked[t][f].since
                                          ELSE asked[t][f].before,
                               since |-> {}, ever |-> asked[t][f].ever]
                         ELSE asked[t][f]
  <1>1. ASSUME NEW f \in Fields
        PROVE  entry(f) = IF ends(f)
                          THEN [asked[t][f] EXCEPT
                                   !.before = IF done THEN asked[t][f].since ELSE @,
                                   !.since = {}]
                          ELSE asked[t][f]
    <2> DEFINE e == asked[t][f]
               before == IF done THEN e.since ELSE e.before
    <2>1. e = [before |-> e.before, since |-> e.since, ever |-> e.ever]
      BY DEF LogTypes
    <2>2. [e EXCEPT !.before = before]
          = [before |-> before, since |-> e.since, ever |-> e.ever]
      <3> HIDE DEF e, before
      <3> QED
        BY <2>1
    <2>3. [[before |-> before, since |-> e.since, ever |-> e.ever] EXCEPT !.since = {}]
          = [before |-> before, since |-> {}, ever |-> e.ever]
      <3> HIDE DEF e, before
      <3> QED
        OBVIOUS
    <2>4. [e EXCEPT !.before = before, !.since = {}]
          = [before |-> before, since |-> {}, ever |-> e.ever]
      <3> HIDE DEF e, before
      <3> QED
        BY <2>2, <2>3
    <2> QED
      BY <2>4
  <1>2. asked' = [asked EXCEPT ![t] = [f \in Fields |-> entry(f)]]
    <2> DEFINE new(f) == IF ends(f)
                         THEN [asked[t][f] EXCEPT
                                  !.before = IF done THEN asked[t][f].since ELSE @,
                                  !.since = {}]
                         ELSE asked[t][f]
    <2>1. asked' = [asked EXCEPT ![t] = [f \in Fields |-> new(f)]]
      BY DEF Ends, Alone
    <2>2. \A f \in Fields : entry(f) = new(f)
      BY <1>1
    <2> HIDE DEF entry, new
    <2>3. [f \in Fields |-> entry(f)] = [f \in Fields |-> new(f)]
      BY <2>2
    <2> QED
      BY <2>1, <2>3
  <1>3. \A f \in Fields :
            entry(f) = [before |-> entry(f).before, since |-> entry(f).since,
                        ever |-> entry(f).ever]
    BY DEF LogTypes
  <1>4. \A f \in Fields : ~ends(f) => entry(f) = asked[t][f]
    OBVIOUS
  <1>5. \A f \in Fields : ends(f) =>
            /\ entry(f).before = IF done THEN asked[t][f].since ELSE asked[t][f].before
            /\ entry(f).since = {} /\ entry(f).ever = asked[t][f].ever
    OBVIOUS
  <1> HIDE DEF entry
  <1>6. /\ \A u \in Tenants \ {t} : asked'[u] = asked[u]
        /\ asked'[t] = [f \in Fields |-> entry(f)]
        /\ asked' = [u \in Tenants |-> asked'[u]]
    BY <1>2 DEF LogTypes
  <1>7. LogTypes(asked')
    <2>1. \A u \in Tenants : asked'[u] = [f \in Fields |-> asked'[u][f]]
      BY <1>6 DEF LogTypes
    <2>2. \A f \in Fields : asked'[t][f] = entry(f)
      BY <1>6
    <2>3. ASSUME NEW u \in Tenants, NEW f \in Fields
          PROVE  asked'[u][f] = [before |-> asked'[u][f].before,
                                 since |-> asked'[u][f].since, ever |-> asked'[u][f].ever]
      <3>1. CASE u = t
        BY <1>3, <2>2, <3>1
      <3>2. CASE u # t
        BY <1>6, <3>2 DEF LogTypes
      <3> QED
        BY <3>1, <3>2
    <2> QED
      BY <1>6, <2>1, <2>3 DEF LogTypes
  <1>8. EndsOf(command, asked, asked', o, done)
    BY <1>4, <1>5, <1>6 DEF EndsOf
  <1>9. command' = [command EXCEPT ![o] = Idle]
    BY DEF Ends
  <1> QED
    BY <1>7, <1>8, <1>9

-----------------------------------------------------------------------------
(* Types.                                                                  *)

LEMMA WellFormedStays ==
    ASSUME NEW c, NEW ws, NEW new, WellFormed(c, ws),
           \A t : RowsOf(ws, t) \subseteq RowsOf(new, t)
    PROVE  WellFormed(c, new)
  BY DEF WellFormed

\* One command becomes c, and the rows only become more.
Becomes(cmd, new, o, c) ==
    /\ DOMAIN new = DOMAIN cmd /\ new[o] = c
    /\ \A p \in DOMAIN cmd \ {o} : new[p] = cmd[p]

LEMMA CommandTypes ==
    ASSUME RowTypes, NEW o \in Operators, NEW c, Becomes(command, command', o, c),
           WellFormed(c, workspaces'),
           \A t : RowsOf(workspaces, t) \subseteq RowsOf(workspaces', t)
    PROVE  DOMAIN command' = Operators
           /\ \A p \in Operators : WellFormed(command'[p], workspaces')
  <1>1. DOMAIN command' = Operators /\ command'[o] = c
        /\ \A p \in Operators \ {o} : command'[p] = command[p]
    BY DEF RowTypes, Becomes
  <1>2. ASSUME NEW p \in Operators PROVE WellFormed(command'[p], workspaces')
    <2>1. CASE p = o
      BY <1>1, <2>1
    <2>2. CASE p # o
      <3>1. WellFormed(command[p], workspaces)
        BY DEF RowTypes
      <3>2. WellFormed(command[p], workspaces')
        BY <3>1, WellFormedStays
      <3> QED
        BY <1>1, <2>2, <3>2
    <2> QED
      BY <2>1, <2>2
  <1> QED
    BY <1>1, <1>2

LEMMA StepReplaces ==
    ASSUME RowTypes, NEW o \in Operators, NEW c, command' = [command EXCEPT ![o] = c]
    PROVE  Becomes(command, command', o, c)
  BY DEF Becomes, RowTypes

LEMMA BeginsKeepsRowTypes ==
    ASSUME RowTypes, NEW o \in Operators, NEW t, NEW i, Begins(o, t, i)
    PROVE  RowTypes'
  <1> DEFINE c == Initializing(t, i, clock + 1)
  <1>1. /\ t \in Tenants /\ i \in Ids /\ clock \in Nat /\ MaxTime \in Nat
        /\ clock' = clock + 1 /\ clock' \in 0..MaxTime /\ clock + 1 \in 1..MaxTime
        /\ command' = [command EXCEPT ![o] = c]
        /\ workspaces' = workspaces
    BY WorkspacesAssumption DEF Begins, RowTypes
  <1>2. c.op = "initialize" /\ c.created = clock + 1 /\ \A ws : WellFormed(c, ws)
    BY <1>1, InitializingIs
  <1> HIDE DEF c
  <1>3. Becomes(command, command', o, c)
    BY <1>1, StepReplaces
  <1>4. DOMAIN command' = Operators
        /\ \A p \in Operators : WellFormed(command'[p], workspaces')
    BY <1>1, <1>2, <1>3, CommandTypes
  <1>5. \A j \in Ids : workspaces[j] # NoValue =>
            workspaces[j].created \in 1..clock
    BY DEF RowTypes, Dated
  <1>6. Dated(workspaces', clock')
    BY <1>1, <1>5 DEF Dated, RowTypes
  <1>7. \A p \in Operators \ {o} : command'[p].op = "initialize" =>
            /\ command'[p].created \in 1..clock
            /\ \A j \in Ids : workspaces[j] # NoValue =>
                   workspaces[j].created # command'[p].created
    BY <1>3 DEF RowTypes, InitsDiffer, Becomes
  <1>8. \A p, q \in Operators \ {o} :
            command'[p].op = "initialize" /\ command'[q].op = "initialize" /\ p # q
            => command'[p].created # command'[q].created
    BY <1>3 DEF RowTypes, InitsDiffer, Becomes
  <1>9. InitsDiffer(workspaces', command', clock')
    <2>1. command'[o].created = clock + 1
      BY <1>2, <1>3 DEF Becomes
    <2>2. \A p \in Operators : command'[p].op = "initialize" =>
              /\ command'[p].created \in 1..clock'
              /\ \A j \in Ids : workspaces'[j] # NoValue =>
                     workspaces'[j].created # command'[p].created
      BY <1>1, <1>5, <1>7, <2>1
    <2>3. \A p, q \in Operators :
              command'[p].op = "initialize" /\ command'[q].op = "initialize" /\ p # q
              => command'[p].created # command'[q].created
      BY <1>1, <1>7, <1>8, <2>1
    <2> QED
      BY <2>2, <2>3 DEF InitsDiffer
  <1> QED
    BY <1>1, <1>4, <1>6, <1>9 DEF RowTypes

LEMMA CommitsKeepsRowTypes ==
    ASSUME RowTypes, NEW o \in Operators, Commits(o)
    PROVE  RowTypes'
  <1> DEFINE c == command[o]
  <1>1. /\ c.op = "initialize" /\ c.created \in 1..clock
        /\ \A i \in Ids : workspaces[i] # NoValue => workspaces[i].created # c.created
    BY DEF Commits, RowTypes, InitsDiffer
  <1>2. /\ clock' = clock /\ clock \in 0..MaxTime /\ clock \in Nat
        /\ Becomes(command, command', o, Idle)
    <2>1. clock' = clock /\ clock \in 0..MaxTime /\ clock \in Nat
      BY WorkspacesAssumption DEF Commits, RowTypes
    <2>2. command' = [command EXCEPT ![o] = Idle]
      BY DEF Commits
    <2> QED
      BY <2>1, <2>2, StepReplaces
  <1>3. /\ workspaces' \in Tables /\ Dated(workspaces', clock)
        /\ \A t : RowsOf(workspaces, t) \subseteq RowsOf(workspaces', t)
        /\ \A i \in Ids : workspaces'[i] # NoValue =>
               \/ workspaces[i] # NoValue /\ workspaces'[i].created = workspaces[i].created
               \/ workspaces'[i].created = c.created
    <2>1. CASE workspaces' = workspaces
      BY <2>1 DEF RowTypes
    <2>2. CASE Inserts(workspaces, workspaces', c.id, c.tenant, c.created)
      <3> DEFINE i == c.id
                 t == c.tenant
                 n == c.created
                 ws == workspaces
                 new == workspaces'
      <3>1. Dated(ws, clock) /\ Inserts(ws, new, i, t, n) /\ n <= clock
            /\ \A j \in Ids : ws[j] # NoValue => ws[j].created # n
        BY <1>1, <1>2, <2>2 DEF RowTypes
      <3> HIDE DEF i, t, n, ws, new
      <3>2. Dated(new, clock)
        BY <1>2, <3>1, InsertSets
      <3>3. /\ new \in Tables
            /\ new[i] = [tenant |-> t, created |-> n, settings |-> Defaults]
            /\ \A j \in Ids \ {i} : new[j] = ws[j]
            /\ RowsOf(new, t) = RowsOf(ws, t) \cup {i}
            /\ \A u : u # t => RowsOf(new, u) = RowsOf(ws, u)
        BY <3>1, InsertKeepsRows
      <3>4. \A u : RowsOf(ws, u) \subseteq RowsOf(new, u)
        BY <3>3
      <3>5. \A j \in Ids : new[j] # NoValue =>
                \/ ws[j] # NoValue /\ new[j].created = ws[j].created
                \/ new[j].created = n
        BY <3>3
      <3> QED
        BY <3>2, <3>3, <3>4, <3>5 DEF i, t, n, ws, new
    <2> QED
      BY <2>1, <2>2 DEF Commits
  <1>4. WellFormed(Idle, workspaces')
    BY IdleIs DEF WellFormed
  <1>5. DOMAIN command' = Operators
        /\ \A p \in Operators : WellFormed(command'[p], workspaces')
    BY <1>2, <1>3, <1>4, CommandTypes
  <1>6. \A p \in Operators : command'[p].op = "initialize" =>
            p # o /\ command'[p] = command[p]
    <2>1. command'[o] = Idle /\ Idle.op # "initialize"
      BY <1>2, IdleIs DEF Becomes
    <2>2. \A p \in Operators \ {o} : command'[p] = command[p]
      BY <1>2 DEF Becomes, RowTypes
    <2> QED
      BY <2>1, <2>2
  <1>7. InitsDiffer(workspaces', command', clock')
    <2>1. \A p \in Operators : command'[p].op = "initialize" =>
              command'[p].created \in 1..clock' /\ command'[p].created # c.created
      BY <1>1, <1>2, <1>6 DEF RowTypes, InitsDiffer
    <2>2. ASSUME NEW p \in Operators, command'[p].op = "initialize",
                 NEW i \in Ids, workspaces'[i] # NoValue
          PROVE  workspaces'[i].created # command'[p].created
      BY <1>3, <1>6, <2>1, <2>2 DEF RowTypes, InitsDiffer
    <2>3. \A p, q \in Operators :
              command'[p].op = "initialize" /\ command'[q].op = "initialize" /\ p # q
              => command'[p].created # command'[q].created
      BY <1>6 DEF RowTypes, InitsDiffer
    <2> QED
      BY <2>1, <2>2, <2>3 DEF InitsDiffer
  <1> QED
    BY <1>2, <1>3, <1>5, <1>7 DEF RowTypes

\* Steps that leave the times at which rows were created, and start no init.
LEMMA OthersKeepRowTypes ==
    ASSUME RowTypes, NEW o \in Operators, NEW c, c.op # "initialize",
           Becomes(command, command', o, c), WellFormed(c, workspaces'),
           clock' = clock, workspaces' \in Tables, Dated(workspaces', clock),
           \A t : RowsOf(workspaces, t) \subseteq RowsOf(workspaces', t),
           \A i \in Ids : workspaces'[i] # NoValue =>
               workspaces[i] # NoValue /\ workspaces'[i].created = workspaces[i].created
    PROVE  RowTypes'
  <1>1. DOMAIN command' = Operators
        /\ \A p \in Operators : WellFormed(command'[p], workspaces')
    BY CommandTypes
  <1>2. \A p \in Operators : command'[p].op = "initialize" =>
            p # o /\ command'[p] = command[p]
    BY DEF Becomes, RowTypes
  <1>3. InitsDiffer(workspaces', command', clock')
    <2>1. ASSUME NEW p \in Operators, command'[p].op = "initialize"
          PROVE  /\ command'[p].created \in 1..clock'
                 /\ \A i \in Ids : workspaces'[i] # NoValue =>
                        workspaces'[i].created # command'[p].created
      BY <1>2, <2>1 DEF RowTypes, InitsDiffer
    <2>2. \A p, q \in Operators :
              command'[p].op = "initialize" /\ command'[q].op = "initialize" /\ p # q
              => command'[p].created # command'[q].created
      BY <1>2 DEF RowTypes, InitsDiffer
    <2> QED
      BY <2>1, <2>2 DEF InitsDiffer
  <1> QED
    BY <1>1, <1>3 DEF RowTypes

LEMMA StartsKeepsRowTypes ==
    ASSUME RowTypes, NEW o \in Operators, NEW t, NEW values, Starts(o, t, values)
    PROVE  RowTypes'
  <1>1. /\ workspaces' = workspaces /\ clock' = clock /\ t \in Tenants
        /\ WellTyped(values)
        /\ workspaces \in Tables /\ Dated(workspaces, clock)
    BY DEF Starts, RowTypes
  <1>2. PICK c : /\ command' = [command EXCEPT ![o] = c]
                 /\ c.op # "initialize" /\ WellFormed(c, workspaces)
    <2>1. CASE command' = [command EXCEPT ![o] = Checking(t, values)]
      BY <1>1, <2>1, CheckingIs
    <2>2. CASE /\ RowsOf(workspaces, t) # {}
               /\ command' = [command EXCEPT ![o] = Writing(workspaces, t, values)]
      <3> DEFINE w == Writing(workspaces, t, values)
      <3>1. w.op = "write" /\ WellFormed(w, workspaces)
        BY <1>1, <2>2, WritingIs
      <3> HIDE DEF w
      <3>2. w.op # "initialize"
        BY <3>1
      <3> QED
        BY <2>2, <3>1, <3>2 DEF w
    <2> QED
      BY <2>1, <2>2 DEF Starts
  <1>3. Becomes(command, command', o, c)
    BY <1>2, StepReplaces
  <1> QED
    BY <1>1, <1>2, <1>3, OthersKeepRowTypes

LEMMA LooksKeepsRowTypes ==
    ASSUME RowTypes, NEW o \in Operators, Looks(o)
    PROVE  RowTypes'
  <1> DEFINE t == command[o].tenant
             values == command[o].values
             c == Writing(workspaces, t, values)
  <1>1. /\ workspaces' = workspaces /\ clock' = clock /\ t \in Tenants
        /\ WellTyped(values) /\ RowsOf(workspaces, t) # {}
        /\ workspaces \in Tables /\ Dated(workspaces, clock)
        /\ command' = [command EXCEPT ![o] = c]
    BY DEF Looks, RowTypes, WellFormed, WellTyped
  <1> HIDE DEF t, values
  <1>2. c.op = "write" /\ WellFormed(c, workspaces)
    BY <1>1, WritingIs
  <1> HIDE DEF c
  <1>3. Becomes(command, command', o, c)
    BY <1>1, StepReplaces
  <1>4. c.op # "initialize"
    BY <1>2
  <1> QED
    BY <1>1, <1>2, <1>3, <1>4, OthersKeepRowTypes

LEMMA EndsKeepsRowTypes ==
    ASSUME RowTypes, LogTypes(asked), NEW o \in Operators, Fails(o) \/ Writes(o)
    PROVE  RowTypes'
  <1>1. command[o].tenant \in Tenants /\ clock' = clock
    BY DEF RowTypes, WellFormed, Fails, Writes
  <1>2. Becomes(command, command', o, Idle)
    <2>1. command' = [command EXCEPT ![o] = Idle]
      BY DEF Fails, Writes, Ends
    <2> QED
      BY <2>1, StepReplaces
  <1>3. Idle.op # "initialize" /\ WellFormed(Idle, workspaces')
    BY IdleIs DEF WellFormed
  <1>4. /\ workspaces' \in Tables /\ Dated(workspaces', clock)
        /\ \A t : RowsOf(workspaces, t) \subseteq RowsOf(workspaces', t)
        /\ \A i \in Ids : workspaces'[i] # NoValue =>
               workspaces[i] # NoValue /\ workspaces'[i].created = workspaces[i].created
    <2>1. CASE Fails(o)
      BY <2>1 DEF Fails, RowTypes
    <2>2. CASE Writes(o)
      <3> DEFINE i == command[o].id
                 s == Written(workspaces, command[o])
                 ws == workspaces
                 new == workspaces'
      <3>1. Updates(ws, new, i, s) /\ Dated(ws, clock)
        BY <2>2 DEF Writes, RowTypes
      <3> HIDE DEF i, s, ws, new
      <3>2. /\ new \in Tables
            /\ \A j \in Ids : new[j] # NoValue <=> ws[j] # NoValue
            /\ \A j \in Ids : ws[j] # NoValue => new[j].created = ws[j].created
            /\ \A u : RowsOf(new, u) = RowsOf(ws, u)
        BY <3>1, UpdateKeepsRows
      <3>3. \A now : Dated(ws, now) => Dated(new, now)
        BY <3>1, UpdateKeepsRows
      <3> QED
        BY <3>1, <3>2, <3>3 DEF ws, new
    <2> QED
      BY <2>1, <2>2
  <1> QED
    BY <1>1, <1>2, <1>3, <1>4, OthersKeepRowTypes

-----------------------------------------------------------------------------
(* Requests and actions.                                                   *)

Proposing(t, mode, limit) ==
    [op |-> "propose", tenant |-> t, action |-> NoValue, mode |-> mode, limit |-> limit]

Executing(t, a) ==
    [op |-> "execute", tenant |-> t, action |-> a, mode |-> "observe_only", limit |-> NoValue]

LEMMA SettingsHaveTypes ==
    ASSUME NEW ws \in Tables, NEW now, Dated(ws, now), NEW t, NEW f \in Fields
    PROVE  Setting(ws, t, f) \in Domain(f)
  <1>1. Defaults[f] \in Domain(f)
    BY DefaultsAreSettings, SettingsAre
  <1>2. ASSUME RowsOf(ws, t) # {} PROVE ws[FirstOf(ws, t)].settings[f] \in Domain(f)
    <2>1. FirstOf(ws, t) \in Ids /\ ws[FirstOf(ws, t)] # NoValue
      BY <1>2, FirstIs DEF RowsOf
    <2> QED
      BY <2>1, RowsAre
  <1> QED
    BY <1>1, <1>2 DEF Setting

\* The verdict of a proposal: only proposal mode is not denied.
LEMMA VerdictIs ==
    ASSUME NEW q, q.mode \in Modes, NEW value, NEW conflict \in BOOLEAN
    PROVE  /\ Verdict(q, value, conflict) \in {"denied", "approval_required"}
           /\ q.mode # "demo_proposal" => Verdict(q, value, conflict) = "denied"
  <1>1. /\ \A rule : Denied(rule).status = "denied"
        /\ \A rule : NeedsOperations(rule).status = "approval_required"
    BY DEF Denied, NeedsOperations
  <1> QED
    BY <1>1 DEF Verdict, EvaluatePolicy, ProposerRoles, Modes

LEMMA NoRequestIs ==
    /\ NoRequest.op = "idle" /\ \A acts : RequestFormed(NoRequest, acts)
  BY DEF NoRequest, RequestFormed

LEMMA ProposingIs ==
    ASSUME NEW t \in Tenants, NEW mode \in Modes, NEW limit
    PROVE  /\ [NoRequest EXCEPT !.op = "propose", !.tenant = t, !.mode = mode,
                                !.limit = limit] = Proposing(t, mode, limit)
           /\ Proposing(t, mode, limit).op = "propose"
           /\ Proposing(t, mode, limit).tenant = t /\ Proposing(t, mode, limit).mode = mode
           /\ \A acts : RequestFormed(Proposing(t, mode, limit), acts)
  <1>1. [NoRequest EXCEPT !.op = "propose"]
        = [op |-> "propose", tenant |-> NoValue, action |-> NoValue,
           mode |-> "observe_only", limit |-> NoValue]
    BY DEF NoRequest
  <1>2. [[op |-> "propose", tenant |-> NoValue, action |-> NoValue,
          mode |-> "observe_only", limit |-> NoValue] EXCEPT !.tenant = t]
        = [op |-> "propose", tenant |-> t, action |-> NoValue,
           mode |-> "observe_only", limit |-> NoValue]
    OBVIOUS
  <1>3. [[op |-> "propose", tenant |-> t, action |-> NoValue,
          mode |-> "observe_only", limit |-> NoValue] EXCEPT !.mode = mode]
        = [op |-> "propose", tenant |-> t, action |-> NoValue,
           mode |-> mode, limit |-> NoValue]
    OBVIOUS
  <1>4. [[op |-> "propose", tenant |-> t, action |-> NoValue,
          mode |-> mode, limit |-> NoValue] EXCEPT !.limit = limit]
        = Proposing(t, mode, limit)
    BY DEF Proposing
  <1>5. /\ Proposing(t, mode, limit).op = "propose"
        /\ Proposing(t, mode, limit).tenant = t /\ Proposing(t, mode, limit).mode = mode
        /\ \A acts : RequestFormed(Proposing(t, mode, limit), acts)
    BY DEF Proposing, RequestFormed
  <1> QED
    BY <1>1, <1>2, <1>3, <1>4, <1>5

LEMMA ExecutingIs ==
    ASSUME NEW t, NEW a \in ActionIds
    PROVE  /\ [NoRequest EXCEPT !.op = "execute", !.tenant = t, !.action = a]
              = Executing(t, a)
           /\ Executing(t, a).op = "execute" /\ Executing(t, a).action = a
           /\ \A acts : acts[a] # NoValue => RequestFormed(Executing(t, a), acts)
  <1>1. [NoRequest EXCEPT !.op = "execute"]
        = [op |-> "execute", tenant |-> NoValue, action |-> NoValue,
           mode |-> "observe_only", limit |-> NoValue]
    BY DEF NoRequest
  <1>2. [[op |-> "execute", tenant |-> NoValue, action |-> NoValue,
          mode |-> "observe_only", limit |-> NoValue] EXCEPT !.tenant = t]
        = [op |-> "execute", tenant |-> t, action |-> NoValue,
           mode |-> "observe_only", limit |-> NoValue]
    OBVIOUS
  <1>3. [[op |-> "execute", tenant |-> t, action |-> NoValue,
          mode |-> "observe_only", limit |-> NoValue] EXCEPT !.action = a]
        = Executing(t, a)
    BY DEF Executing
  <1>4. Executing(t, a).op = "execute" /\ Executing(t, a).action = a
    BY DEF Executing
  <1>5. \A acts : acts[a] # NoValue => RequestFormed(Executing(t, a), acts)
    BY DEF Executing, RequestFormed
  <1> QED
    BY <1>1, <1>2, <1>3, <1>4, <1>5

Asking(r, t) ==
    /\ t \in Tenants /\ request[r].op = "idle"
    /\ \E limit : request' = [request EXCEPT ![r] =
                                 Proposing(t, Setting(workspaces, t, "mode"), limit)]
    /\ actions' = actions

Proposes(r, a) ==
    /\ request[r].op = "propose" /\ actions[a] = NoValue
    /\ \E status \in {"denied", "approval_required"} :
           /\ status # "denied" => request[r].mode = "demo_proposal"
           /\ actions' = [actions EXCEPT ![a] =
                             [tenant |-> request[r].tenant, status |-> status]]
    /\ request' = [request EXCEPT ![r] = NoRequest]

\* An action goes from one status to another.
Turns(a, before, after) ==
    /\ actions[a] # NoValue /\ actions[a].status = before
    /\ actions' = [actions EXCEPT ![a] = [tenant |-> actions[a].tenant, status |-> after]]

Gates(r, a) ==
    /\ actions[a] # NoValue /\ Setting(workspaces, actions[a].tenant, "shopify") = TRUE
    /\ request' = [request EXCEPT ![r] = Executing(actions[a].tenant, a)]
    /\ actions' = actions

Executes(r) ==
    /\ request[r].op = "execute"
    /\ actions' = actions \/ Turns(request[r].action, "approved", "provider_accepted")
    /\ request' = [request EXCEPT ![r] = NoRequest]

Served ==
    \/ \E r \in Requests, t \in Tenants : Asking(r, t)
    \/ \E r \in Requests, a \in ActionIds : Proposes(r, a) \/ Gates(r, a)
    \/ \E r \in Requests : Executes(r)
    \/ /\ \E a \in ActionIds, status \in {"approved", "rejected"} :
              Turns(a, "approval_required", status)
       /\ request' = request
    \/ request' = [r \in Requests |-> NoRequest] /\ actions' = actions

LEMMA StoredActionsAre ==
    /\ \A t \in Tenants, status \in ActionStatus :
           /\ [tenant |-> t, status |-> status] \in StoredAction
           /\ [tenant |-> t, status |-> status] # NoValue
    /\ \A acts \in [ActionIds -> StoredAction \cup {NoValue}], a \in ActionIds :
           acts[a] # NoValue =>
               /\ acts[a].tenant \in Tenants /\ acts[a].status \in ActionStatus
               /\ acts[a] = [tenant |-> acts[a].tenant, status |-> acts[a].status]
  BY NoValueAssumption DEF StoredAction

LEMMA ProposeBeginIs ==
    ASSUME Types, NEW r \in Requests, NEW t \in Tenants, NEW own, ProposeBegin(r, t, own)
    PROVE  Asking(r, t)
  <1> DEFINE mode == Setting(workspaces, t, "mode")
             limit == IF own # NoValue THEN own ELSE SettingsLimit
  <1>1. mode \in Modes
    BY SettingsHaveTypes DEF Types, RowTypes, Fields, Domain
  <1>2. /\ request[r].op = "idle" /\ actions' = actions
        /\ request' = [request EXCEPT ![r] =
               [NoRequest EXCEPT !.op = "propose", !.tenant = t, !.mode = mode,
                                 !.limit = limit]]
    BY ModelReadsRows DEF ProposeBegin
  <1> HIDE DEF mode, limit
  <1>3. [NoRequest EXCEPT !.op = "propose", !.tenant = t, !.mode = mode, !.limit = limit]
        = Proposing(t, mode, limit)
    BY <1>1, ProposingIs
  <1> QED
    BY <1>2, <1>3 DEF Asking, mode

LEMMA ProposeIs ==
    ASSUME Types, NEW r \in Requests, NEW a \in ActionIds, NEW value,
           NEW conflict \in BOOLEAN, Propose(r, a, value, conflict)
    PROVE  Proposes(r, a)
  <1> DEFINE q == request[r]
             status == Verdict(q, value, conflict)
  <1>1. /\ q.op = "propose" /\ actions[a] = NoValue
        /\ actions' = [actions EXCEPT ![a] = [tenant |-> q.tenant, status |-> status]]
        /\ request' = [request EXCEPT ![r] = NoRequest]
    BY DEF Propose
  <1>2. q.mode \in Modes
    BY <1>1 DEF Types, RequestTypes, RequestFormed
  <1> HIDE DEF q
  <1>3. /\ status \in {"denied", "approval_required"}
        /\ q.mode # "demo_proposal" => status = "denied"
    BY <1>2, VerdictIs
  <1> HIDE DEF status
  <1> QED
    BY <1>1, <1>3 DEF Proposes, q

LEMMA ExecuteBeginIs ==
    ASSUME Types, NEW r \in Requests, NEW a \in ActionIds, ExecuteBegin(r, a)
    PROVE  Gates(r, a)
  <1> DEFINE t == actions[a].tenant
  <1>1. Setting(workspaces, t, "shopify") \in BOOLEAN
    <2>1. "shopify" \in Fields /\ Domain("shopify") = BOOLEAN
      BY WorkspacesAssumption DEF Fields, Domain
    <2> QED
      BY <2>1, SettingsHaveTypes DEF Types, RowTypes
  <1>2. SettingOf(t, "shopify")
    BY DEF ExecuteBegin, HasCapability
  <1>3. Setting(workspaces, t, "shopify") = TRUE
    BY <1>1, <1>2, ModelReadsRows
  <1>4. [NoRequest EXCEPT !.op = "execute", !.tenant = t, !.action = a] = Executing(t, a)
    BY ExecutingIs
  <1> QED
    BY <1>3, <1>4 DEF ExecuteBegin, Gates

LEMMA ExecuteIs ==
    ASSUME Types, NEW r \in Requests, Execute(r)
    PROVE  Executes(r)
  <1> DEFINE a == request[r].action
  <1>1. request[r].op = "execute" /\ a \in ActionIds /\ actions[a] # NoValue
    BY DEF Execute, Types, RequestTypes, RequestFormed
  <1>2. actions[a] = [tenant |-> actions[a].tenant, status |-> actions[a].status]
    BY <1>1, StoredActionsAre DEF Types, RequestTypes
  <1>3. [actions EXCEPT ![a].status = "provider_accepted"]
        = [actions EXCEPT ![a] = [tenant |-> actions[a].tenant,
                                  status |-> "provider_accepted"]]
    <2>1. [actions[a] EXCEPT !.status = "provider_accepted"]
          = [tenant |-> actions[a].tenant, status |-> "provider_accepted"]
      BY <1>2
    <2>2. [actions EXCEPT ![a].status = "provider_accepted"]
          = [actions EXCEPT ![a] = [actions[a] EXCEPT !.status = "provider_accepted"]]
      OBVIOUS
    <2> QED
      BY <2>1, <2>2
  <1> QED
    BY <1>1, <1>3 DEF Execute, Executes, Turns

LEMMA ApproveIs ==
    ASSUME Types, NEW a \in ActionIds, NEW status, Approve(a, status)
    PROVE  Turns(a, "approval_required", status)
  <1>1. actions[a] # NoValue /\ actions[a].status = "approval_required"
    BY DEF Approve
  <1>2. actions[a] = [tenant |-> actions[a].tenant, status |-> actions[a].status]
    BY <1>1, StoredActionsAre DEF Types, RequestTypes
  <1>3. [actions EXCEPT ![a].status = status]
        = [actions EXCEPT ![a] = [tenant |-> actions[a].tenant, status |-> status]]
    <2>1. [actions[a] EXCEPT !.status = status]
          = [tenant |-> actions[a].tenant, status |-> status]
      BY <1>2
    <2>2. [actions EXCEPT ![a].status = status]
          = [actions EXCEPT ![a] = [actions[a] EXCEPT !.status = status]]
      OBVIOUS
    <2> QED
      BY <2>1, <2>2
  <1> QED
    BY <1>1, <1>3 DEF Approve, Turns

\* A step either leaves the requests and actions or is one of these.
LEMMA RequestStepsAre ==
    ASSUME Types, [Next]_vars
    PROVE  UNCHANGED <<request, actions>> \/ (Rests /\ Served)
  <1>1. ASSUME NEW r \in Requests, NEW t \in Tenants, NEW own, ProposeBegin(r, t, own)
        PROVE  Rests /\ Served
    BY <1>1, ProposeBeginIs DEF Served, Rests, ProposeBegin
  <1>2. ASSUME NEW r \in Requests, NEW a \in ActionIds, NEW value, NEW conflict \in BOOLEAN,
               Propose(r, a, value, conflict)
        PROVE  Rests /\ Served
    BY <1>2, ProposeIs DEF Served, Rests, Propose
  <1>3. ASSUME NEW r \in Requests, NEW a \in ActionIds, ExecuteBegin(r, a)
        PROVE  Rests /\ Served
    BY <1>3, ExecuteBeginIs DEF Served, Rests, ExecuteBegin
  <1>4. ASSUME NEW r \in Requests, Execute(r) PROVE Rests /\ Served
    BY <1>4, ExecuteIs DEF Served, Rests, Execute
  <1>5. ASSUME NEW a \in ActionIds, NEW status \in {"approved", "rejected"},
               Approve(a, status)
        PROVE  Rests /\ Served
    BY <1>5, ApproveIs DEF Served, Rests, Approve
  <1>6. CASE Restart
    BY <1>6 DEF Served, Rests, Restart
  <1>7. ASSUME \/ \E o \in Operators, t \in Tenants, i \in Ids, chosen \in BOOLEAN :
                      InitializeBegin(o, t, i, chosen)
               \/ \E o \in Operators, t \in Tenants, mode \in Modes : SetModeBegin(o, t, mode)
               \/ \E o \in Operators, t \in Tenants, kinds \in SUBSET ConnectorKinds \ {{}} :
                      \E results \in [kinds -> BOOLEAN] : CheckConnectors(o, t, results)
               \/ \E o \in Operators :
                      \/ InitializeCommit(o) \/ RecordChecksBegin(o)
                      \/ RecordChecksFails(o) \/ Write(o)
               \/ UNCHANGED vars
        PROVE  UNCHANGED <<request, actions>>
    BY <1>7 DEF InitializeBegin, SetModeBegin, CheckConnectors, InitializeCommit,
                RecordChecksBegin, RecordChecksFails, Write, vars
  <1>8. CASE \E r \in Requests, t \in Tenants, own \in Limits \cup {NoValue} :
                 /\ own # NoValue => WorkspacesOf(t) # {}
                 /\ ProposeBegin(r, t, own)
    BY <1>1, <1>8
  <1>9. CASE \E r \in Requests, a \in ActionIds :
                 \/ \E value \in {OrderValue, NoValue}, conflict \in BOOLEAN :
                        Propose(r, a, value, conflict)
                 \/ ExecuteBegin(r, a)
    BY <1>2, <1>3, <1>9
  <1>10. CASE \E r \in Requests : Execute(r)
    BY <1>4, <1>10
  <1>11. CASE \E a \in ActionIds, status \in {"approved", "rejected"} : Approve(a, status)
    BY <1>5, <1>11
  <1> QED
    BY <1>6, <1>7, <1>8, <1>9, <1>10, <1>11, Zenon DEF Next

\* An action that is there stays there, of its tenant.
LEMMA ActionsStay ==
    ASSUME Types, UNCHANGED <<request, actions>> \/ Served
    PROVE  /\ actions' \in [ActionIds -> StoredAction \cup {NoValue}]
           /\ \A a \in ActionIds : actions[a] # NoValue =>
                  actions'[a] # NoValue /\ actions'[a].tenant = actions[a].tenant
  <1> DEFINE Stay == /\ actions' \in [ActionIds -> StoredAction \cup {NoValue}]
                     /\ \A a \in ActionIds : actions[a] # NoValue =>
                            actions'[a] # NoValue /\ actions'[a].tenant = actions[a].tenant
  <1>0. actions \in [ActionIds -> StoredAction \cup {NoValue}]
    BY DEF Types, RequestTypes
  <1>1. CASE actions' = actions
    BY <1>0, <1>1
  <1>2. ASSUME NEW a \in ActionIds, NEW before, NEW after \in ActionStatus,
               Turns(a, before, after)
        PROVE  Stay
    <2> DEFINE row == [tenant |-> actions[a].tenant, status |-> after]
    <2>1. actions' = [actions EXCEPT ![a] = row] /\ actions[a] # NoValue
      BY <1>2 DEF Turns
    <2>2. actions[a].tenant \in Tenants
      BY <1>0, <2>1, StoredActionsAre
    <2>3. row \in StoredAction /\ row # NoValue /\ row.tenant = actions[a].tenant
      BY <2>2, StoredActionsAre
    <2> HIDE DEF row
    <2> QED
      BY <1>0, <2>1, <2>3
  <1>3. ASSUME NEW r \in Requests, NEW a \in ActionIds, Proposes(r, a)
        PROVE  Stay
    <2>1. request[r].tenant \in Tenants
      BY <1>3 DEF Proposes, Types, RequestTypes, RequestFormed
    <2>2. PICK status \in {"denied", "approval_required"} :
              actions' = [actions EXCEPT ![a] =
                             [tenant |-> request[r].tenant, status |-> status]]
      BY <1>3 DEF Proposes
    <2> DEFINE row == [tenant |-> request[r].tenant, status |-> status]
    <2>3. row \in StoredAction
      BY <2>1, StoredActionsAre DEF ActionStatus
    <2>4. actions' = [actions EXCEPT ![a] = row] /\ actions[a] = NoValue
      BY <1>3, <2>2 DEF Proposes
    <2> HIDE DEF row
    <2> QED
      BY <1>0, <2>3, <2>4
  <1>4. ASSUME NEW r \in Requests, Executes(r)
        PROVE  Stay
    <2>1. request[r].action \in ActionIds
      BY <1>4 DEF Executes, Types, RequestTypes, RequestFormed
    <2>2. actions' = actions \/ Turns(request[r].action, "approved", "provider_accepted")
      BY <1>4 DEF Executes
    <2>3. "provider_accepted" \in ActionStatus
      BY DEF ActionStatus
    <2> QED
      BY <1>1, <1>2, <2>1, <2>2, <2>3
  <1>5. ASSUME NEW a \in ActionIds, NEW status \in {"approved", "rejected"},
               Turns(a, "approval_required", status)
        PROVE  Stay
    <2>1. status \in ActionStatus
      BY DEF ActionStatus
    <2> QED
      BY <1>2, <1>5, <2>1
  <1>6. Stay
    <2>1. CASE UNCHANGED <<request, actions>>
      BY <1>1, <2>1
    <2>2. CASE Served
      BY <1>1, <1>3, <1>4, <1>5, <2>2 DEF Served, Asking, Gates
    <2> QED
      BY <2>1, <2>2
  <1> QED
    BY <1>6

LEMMA RequestsKeepTypes ==
    ASSUME Types, UNCHANGED <<request, actions>> \/ Served
    PROVE  RequestTypes'
  <1> DEFINE Formed == /\ DOMAIN request' = Requests
                       /\ \A r \in Requests : RequestFormed(request'[r], actions')
  <1>1. /\ actions' \in [ActionIds -> StoredAction \cup {NoValue}]
        /\ \A a \in ActionIds : actions[a] # NoValue => actions'[a] # NoValue
    BY ActionsStay
  <1>2. ASSUME NEW r \in Requests PROVE RequestFormed(request[r], actions')
    BY <1>1 DEF Types, RequestTypes, RequestFormed
  <1>3. ASSUME NEW r \in Requests, NEW q, request' = [request EXCEPT ![r] = q],
               RequestFormed(q, actions')
        PROVE  Formed
    BY <1>2, <1>3 DEF Types, RequestTypes
  <1>4. ASSUME request' = request PROVE Formed
    BY <1>2, <1>4 DEF Types, RequestTypes
  <1>5. ASSUME request' = [r \in Requests |-> NoRequest] PROVE Formed
    BY <1>5, NoRequestIs
  <1>6. ASSUME NEW r \in Requests, NEW t \in Tenants, Asking(r, t)
        PROVE  Formed
    <2> DEFINE mode == Setting(workspaces, t, "mode")
    <2>1. mode \in Modes
      BY SettingsHaveTypes DEF Types, RowTypes, Fields, Domain
    <2>2. PICK limit : request' = [request EXCEPT ![r] = Proposing(t, mode, limit)]
      BY <1>6 DEF Asking
    <2> HIDE DEF mode
    <2>3. RequestFormed(Proposing(t, mode, limit), actions')
      BY <2>1, ProposingIs
    <2> QED
      BY <1>3, <2>2, <2>3
  <1>7. ASSUME NEW r \in Requests, NEW a \in ActionIds, Gates(r, a)
        PROVE  Formed
    <2> DEFINE t == actions[a].tenant
    <2>1. actions'[a] # NoValue /\ request' = [request EXCEPT ![r] = Executing(t, a)]
      BY <1>1, <1>7 DEF Gates
    <2> HIDE DEF t
    <2>2. \A acts : acts[a] # NoValue => RequestFormed(Executing(t, a), acts)
      BY ExecutingIs
    <2>3. RequestFormed(Executing(t, a), actions')
      BY <2>1, <2>2
    <2> QED
      BY <1>3, <2>1, <2>3
  <1>8. ASSUME NEW r \in Requests, request' = [request EXCEPT ![r] = NoRequest]
        PROVE  Formed
    BY <1>3, <1>8, NoRequestIs
  <1>9. Formed
    <2> HIDE DEF Formed
    <2>1. ASSUME Served PROVE Formed
      BY <1>4, <1>5, <1>6, <1>7, <1>8, <2>1 DEF Served, Proposes, Executes
    <2> QED
      BY <1>4, <2>1
  <1> QED
    BY <1>1, <1>9 DEF RequestTypes

LEMMA TypesKept ==
    ASSUME Types, [Next]_vars
    PROVE  Types'
  <1>1. RequestTypes'
    BY RequestStepsAre, RequestsKeepTypes
  <1>2. CASE Rests
    <2>1. RowTypes' /\ LogTypes(asked)'
      BY <1>2 DEF Rests, Types, RowTypes
    <2> QED
      BY <1>1, <2>1 DEF Types
  <1>3. ASSUME NEW o \in Operators, NEW t \in Tenants, NEW i \in Ids, Begins(o, t, i)
        PROVE  RowTypes' /\ LogTypes(asked')
    BY <1>3, BeginsKeepsRowTypes DEF Types, Begins
  <1>4. ASSUME NEW o \in Operators, NEW t \in Tenants, NEW values, Starts(o, t, values)
        PROVE  RowTypes' /\ LogTypes(asked')
    <2>1. Asks(t, values)
      BY <1>4 DEF Starts
    <2> QED
      BY <1>4, <2>1, StartsKeepsRowTypes, AsksIs DEF Types
  <1>5. ASSUME NEW o \in Operators, Commits(o) \/ Looks(o)
        PROVE  RowTypes' /\ LogTypes(asked')
    BY <1>5, CommitsKeepsRowTypes, LooksKeepsRowTypes DEF Types, Commits, Looks
  <1>6. ASSUME NEW o \in Operators, Fails(o) \/ Writes(o)
        PROVE  RowTypes' /\ LogTypes(asked')
    <2>1. command[o].tenant \in Tenants
      BY <1>6 DEF Types, RowTypes, WellFormed, Fails, Writes
    <2>2. PICK done \in BOOLEAN : Ends(o, done)
      BY <1>6 DEF Fails, Writes
    <2> QED
      BY <1>6, <2>1, <2>2, EndsKeepsRowTypes, EndsIs DEF Types
  <1> QED
    BY <1>1, <1>2, <1>3, <1>4, <1>5, <1>6, StepsAre DEF Types

LEMMA TypesInit == Init => Types
  <1> SUFFICES ASSUME Init PROVE Types
    OBVIOUS
  <1>1. RowTypes
    <2>1. WellFormed(Idle, workspaces) /\ Idle.op # "initialize"
      BY IdleIs DEF WellFormed
    <2>2. /\ DOMAIN command = Operators /\ \A o \in Operators : command[o] = Idle
          /\ \A i \in Ids : workspaces[i] = NoValue
          /\ workspaces \in Tables /\ clock = 0
      BY DEF Init, Tables
    <2>3. clock \in 0..MaxTime
      BY <2>2, WorkspacesAssumption
    <2> QED
      BY <2>1, <2>2, <2>3 DEF RowTypes, Dated, InitsDiffer
  <1>2. LogTypes(asked)
    BY DEF Init, NeverAsked, LogTypes
  <1>3. RequestTypes
    BY NoRequestIs DEF Init, RequestTypes
  <1> QED
    BY <1>1, <1>2, <1>3 DEF Types

THEOREM TypesAlwaysHold == Spec => []Types
  <1>1. Types /\ [Next]_vars => Types'
    BY TypesKept
  <1> QED
    BY TypesInit, <1>1, PTL DEF Spec

\* Every variable has its type, and a command that is about to write has a
\* workspace of its tenant (WorkspaceService, Workspace and Connector rows).
THEOREM TypesHold == Spec => []TypeOK
  <1>1. Types => TypeOK
    <2> SUFFICES ASSUME Types PROVE TypeOK
      OBVIOUS
    <2>1. \A i \in Ids : workspaces[i] # NoValue =>
              /\ workspaces[i].tenant \in Tenants
              /\ workspaces[i].created \in 1..MaxTime
              /\ \A f \in Fields : workspaces[i].settings[f] \in Domain(f)
      BY RowsAre DEF Types, RowTypes
    <2>2. \A o \in Operators :
              /\ command[o].op \in {"idle", "initialize", "checked", "write"}
              /\ command[o].op = "write" => workspaces[command[o].id] # NoValue
              /\ \A f \in DOMAIN command[o].values : command[o].values[f] \in Domain(f)
      BY DEF Types, RowTypes, WellFormed, RowsOf
    <2>3. \A r \in Requests : request[r].op \in {"idle", "propose", "execute"}
      BY DEF Types, RequestTypes, RequestFormed
    <2>4. \A a \in ActionIds : actions[a] # NoValue =>
              actions[a].tenant \in Tenants /\ actions[a].status \in ActionStatus
      BY StoredActionsAre DEF Types, RequestTypes
    <2> QED
      BY <2>1, <2>2, <2>3, <2>4 DEF TypeOK
  <1> QED
    BY TypesAlwaysHold, <1>1, PTL

-----------------------------------------------------------------------------
(* Nothing takes effect that was never granted.                            *)

LEMMA EverGrows ==
    ASSUME Types, [Next]_vars
    PROVE  \A t \in Tenants, f \in Fields : asked[t][f].ever \subseteq asked'[t][f].ever
  <1>1. ASSUME asked' = asked
        PROVE  \A t \in Tenants, f \in Fields : asked[t][f].ever \subseteq asked'[t][f].ever
    BY <1>1
  <1>2. ASSUME NEW o \in Operators, NEW t \in Tenants, NEW values, Starts(o, t, values)
        PROVE  \A u \in Tenants, f \in Fields : asked[u][f].ever \subseteq asked'[u][f].ever
    <2>1. AsksFor(asked, asked', t, values)
      BY <1>2, AsksIs DEF Starts, Types
    <2> QED
      BY <2>1 DEF AsksFor
  <1>3. ASSUME NEW o \in Operators, Fails(o) \/ Writes(o)
        PROVE  \A t \in Tenants, f \in Fields : asked[t][f].ever \subseteq asked'[t][f].ever
    <2>1. command[o].tenant \in Tenants
      BY <1>3 DEF Types, RowTypes, WellFormed, Fails, Writes
    <2>2. PICK done \in BOOLEAN : Ends(o, done)
      BY <1>3 DEF Fails, Writes
    <2>3. EndsOf(command, asked, asked', o, done)
      BY <2>1, <2>2, EndsIs DEF Types
    <2> QED
      BY <2>3 DEF EndsOf
  <1> QED
    BY <1>1, <1>2, <1>3, StepsAre DEF Rests, Begins, Commits, Looks

LEMMA WritesEnds ==
    ASSUME Types, NEW o \in Operators, Writes(o)
    PROVE  /\ command[o].tenant \in Tenants
           /\ EndsOf(command, asked, asked', o, TRUE)
           /\ Becomes(command, command', o, Idle)
  <1>1. command[o].tenant \in Tenants
    BY DEF Types, RowTypes, WellFormed, Writes
  <1>2. command' = [command EXCEPT ![o] = Idle] /\ EndsOf(command, asked, asked', o, TRUE)
    BY <1>1, EndsIs DEF Types, Writes
  <1>3. Becomes(command, command', o, Idle)
    BY <1>2, StepReplaces DEF Types
  <1> QED
    BY <1>1, <1>2, <1>3

LEMMA FailsEnds ==
    ASSUME Types, NEW o \in Operators, Fails(o)
    PROVE  /\ command[o].tenant \in Tenants
           /\ EndsOf(command, asked, asked', o, FALSE)
           /\ Becomes(command, command', o, Idle)
  <1>1. command[o].tenant \in Tenants
    BY DEF Types, RowTypes, WellFormed, Fails
  <1>2. command' = [command EXCEPT ![o] = Idle] /\ EndsOf(command, asked, asked', o, FALSE)
    BY <1>1, EndsIs DEF Types, Fails
  <1>3. Becomes(command, command', o, Idle)
    BY <1>2, StepReplaces DEF Types
  <1> QED
    BY <1>1, <1>2, <1>3

LEMMA RowsStayGranted ==
    ASSUME GrantInv, [Next]_vars
    PROVE  RowsGranted(workspaces', asked')
  <1>1. Types /\ RowsGranted(workspaces, asked) /\ ValuesGranted(command, asked)
    BY DEF GrantInv
  <1>2. \A t \in Tenants, f \in Fields : asked[t][f].ever \subseteq asked'[t][f].ever
    BY <1>1, EverGrows
  <1>3. \A i \in Ids : workspaces[i] # NoValue => workspaces[i].tenant \in Tenants
    BY <1>1, RowsAre DEF Types, RowTypes
  <1>4. ASSUME workspaces' = workspaces PROVE RowsGranted(workspaces', asked')
    BY <1>1, <1>2, <1>3, <1>4 DEF RowsGranted, Granted
  <1>5. ASSUME NEW o \in Operators, Commits(o) PROVE RowsGranted(workspaces', asked')
    <2> DEFINE i == command[o].id
               t == command[o].tenant
               n == command[o].created
    <2>1. CASE workspaces' = workspaces
      BY <1>4, <2>1
    <2>2. CASE Inserts(workspaces, workspaces', i, t, n)
      <3> HIDE DEF i, t, n
      <3>1. /\ workspaces'[i] = [tenant |-> t, created |-> n, settings |-> Defaults]
            /\ \A j \in Ids \ {i} : workspaces'[j] = workspaces[j]
        BY <2>2, InsertKeepsRows
      <3>2. asked' = asked
        BY <1>5 DEF Commits
      <3>3. ASSUME NEW j \in Ids, NEW f \in Fields, workspaces'[j] # NoValue
            PROVE  Granted(asked', workspaces'[j].tenant, f, workspaces'[j].settings[f])
        <4>1. CASE j = i
          BY <3>1, <4>1 DEF Granted
        <4>2. CASE j # i
          BY <1>1, <3>1, <3>2, <3>3, <4>2 DEF RowsGranted
        <4> QED
          BY <4>1, <4>2
      <3> QED
        BY <3>3 DEF RowsGranted
    <2> QED
      BY <1>5, <2>1, <2>2 DEF Commits
  <1>6. ASSUME NEW o \in Operators, Writes(o) PROVE RowsGranted(workspaces', asked')
    <2> DEFINE c == command[o]
               i == c.id
               s == Written(workspaces, c)
    <2>1. /\ Updates(workspaces, workspaces', i, s)
          /\ i \in Ids /\ workspaces[i] # NoValue /\ workspaces[i].tenant = c.tenant
          /\ DOMAIN c.values \subseteq Fields /\ c.tenant \in Tenants
      BY <1>1, <1>6 DEF Writes, Types, RowTypes, WellFormed, RowsOf
    <2>2. \A f \in Fields : Granted(asked, c.tenant, f, s[f])
      <3>1. \A f \in DOMAIN c.values : Granted(asked, c.tenant, f, c.values[f])
        BY <1>1 DEF ValuesGranted
      <3>2. \A f \in Fields : Granted(asked, c.tenant, f, workspaces[i].settings[f])
        BY <1>1, <2>1 DEF RowsGranted
      <3> QED
        BY <3>1, <3>2 DEF Written
    <2> HIDE DEF c, i, s
    <2>3. /\ workspaces'[i].settings = s
          /\ \A j \in Ids : workspaces'[j] # NoValue <=> workspaces[j] # NoValue
          /\ \A j \in Ids : workspaces[j] # NoValue =>
                 /\ workspaces'[j].tenant = workspaces[j].tenant
                 /\ j # i => workspaces'[j].settings = workspaces[j].settings
      BY <2>1, UpdateKeepsRows
    <2>4. ASSUME NEW j \in Ids, NEW f \in Fields, workspaces'[j] # NoValue
          PROVE  Granted(asked', workspaces'[j].tenant, f, workspaces'[j].settings[f])
      <3>1. workspaces[j] # NoValue /\ workspaces'[j].tenant = workspaces[j].tenant
        BY <2>3, <2>4
      <3>2. Granted(asked, workspaces[j].tenant, f, workspaces'[j].settings[f])
        <4>1. CASE j = i
          BY <2>1, <2>2, <2>3, <4>1
        <4>2. CASE j # i
          BY <1>1, <2>3, <3>1, <4>2 DEF RowsGranted
        <4> QED
          BY <4>1, <4>2
      <3> QED
        BY <1>2, <1>3, <3>1, <3>2 DEF Granted
    <2> QED
      BY <2>4 DEF RowsGranted
  <1> QED
    BY <1>1, <1>4, <1>5, <1>6, StepsAre DEF Rests, Begins, Starts, Looks, Fails

LEMMA ValuesStayGranted ==
    ASSUME GrantInv, [Next]_vars
    PROVE  ValuesGranted(command', asked')
  <1>1. Types /\ ValuesGranted(command, asked)
    BY DEF GrantInv
  <1>2. \A t \in Tenants, f \in Fields : asked[t][f].ever \subseteq asked'[t][f].ever
    BY <1>1, EverGrows
  <1>3. ASSUME NEW p \in Operators, NEW f \in DOMAIN command[p].values
        PROVE  Granted(asked', command[p].tenant, f, command[p].values[f])
    <2>1. command[p].tenant \in Tenants /\ f \in Fields
      BY <1>1 DEF Types, RowTypes, WellFormed
    <2> QED
      BY <1>1, <1>2, <2>1 DEF ValuesGranted, Granted
  <1>4. ASSUME NEW o \in Operators, NEW c, Becomes(command, command', o, c),
               \A f \in DOMAIN c.values : Granted(asked', c.tenant, f, c.values[f])
        PROVE  ValuesGranted(command', asked')
    BY <1>1, <1>3, <1>4 DEF ValuesGranted, Becomes, Types, RowTypes
  <1>5. CASE Rests
    BY <1>3, <1>5 DEF Rests, ValuesGranted
  <1>6. ASSUME NEW o \in Operators, NEW t \in Tenants, NEW i \in Ids, Begins(o, t, i)
        PROVE  ValuesGranted(command', asked')
    <2> DEFINE c == Initializing(t, i, clock + 1)
    <2>1. command' = [command EXCEPT ![o] = c] /\ DOMAIN c.values = {}
      BY <1>6, InitializingIs DEF Begins
    <2> HIDE DEF c
    <2>2. Becomes(command, command', o, c)
      BY <1>1, <2>1, StepReplaces DEF Types
    <2> QED
      BY <1>4, <2>1, <2>2
  <1>7. ASSUME NEW o \in Operators, Commits(o) \/ Fails(o) \/ Writes(o)
        PROVE  ValuesGranted(command', asked')
    <2>1. Becomes(command, command', o, Idle)
      BY <1>1, <1>7, WritesEnds, FailsEnds, StepReplaces DEF Commits, Types
    <2> QED
      BY <1>4, <2>1, IdleIs
  <1>8. ASSUME NEW o \in Operators, NEW t \in Tenants, NEW values, Starts(o, t, values)
        PROVE  ValuesGranted(command', asked')
    <2>1. WellTyped(values) /\ Dated(workspaces, clock)
      BY <1>1, <1>8 DEF Starts, Types, RowTypes
    <2>2. PICK c : /\ command' = [command EXCEPT ![o] = c]
                   /\ c.tenant = t /\ c.values = values
      BY <1>8, <2>1, CheckingIs, WritingIs DEF Starts
    <2>3. AsksFor(asked, asked', t, values)
      BY <1>1, <1>8, AsksIs DEF Starts, Types
    <2>4. \A f \in DOMAIN values : Granted(asked', t, f, values[f])
      BY <2>1, <2>3 DEF AsksFor, Granted, WellTyped
    <2>5. Becomes(command, command', o, c)
      BY <1>1, <2>2, StepReplaces DEF Types
    <2> QED
      BY <1>4, <2>2, <2>4, <2>5
  <1>9. ASSUME NEW o \in Operators, Looks(o)
        PROVE  ValuesGranted(command', asked')
    <2> DEFINE t == command[o].tenant
               values == command[o].values
               c == Writing(workspaces, t, values)
    <2>1. /\ command' = [command EXCEPT ![o] = c]
          /\ RowsOf(workspaces, t) # {} /\ t \in Tenants
          /\ WellTyped(values) /\ Dated(workspaces, clock)
          /\ \A f \in DOMAIN values : Granted(asked', t, f, values[f])
      BY <1>1, <1>3, <1>9 DEF Looks, Types, RowTypes, WellFormed, WellTyped
    <2> HIDE DEF t, values
    <2>2. c.tenant = t /\ c.values = values
      BY <2>1, WritingIs
    <2> HIDE DEF c
    <2>3. Becomes(command, command', o, c)
      BY <1>1, <2>1, StepReplaces DEF Types
    <2> QED
      BY <1>4, <2>1, <2>2, <2>3
  <1> QED
    BY <1>1, <1>5, <1>6, <1>7, <1>8, <1>9, StepsAre

LEMMA SettingsAreGranted ==
    ASSUME NEW ws, NEW now, NEW log, NEW t, NEW f \in Fields,
           Dated(ws, now), RowsGranted(ws, log)
    PROVE  Granted(log, t, f, Setting(ws, t, f))
  <1>1. CASE RowsOf(ws, t) = {}
    BY <1>1 DEF Setting, Granted
  <1>2. CASE RowsOf(ws, t) # {}
    <2>1. /\ FirstOf(ws, t) \in Ids /\ ws[FirstOf(ws, t)] # NoValue
          /\ ws[FirstOf(ws, t)].tenant = t
      BY <1>2, FirstIs DEF RowsOf
    <2>2. Setting(ws, t, f) = ws[FirstOf(ws, t)].settings[f]
      BY <1>2 DEF Setting
    <2> QED
      BY <2>1, <2>2 DEF RowsGranted
  <1> QED
    BY <1>1, <1>2

LEMMA DefaultsPermitNothing ==
    /\ "mode" \in Fields /\ Defaults["mode"] # "demo_proposal"
    /\ "shopify" \in Fields /\ Defaults["shopify"] # TRUE
  <1>1. "mode" \in Fields /\ "shopify" \in Fields
    BY WorkspacesAssumption DEF Fields
  <1>2. Defaults["mode"] = "observe_only" /\ Defaults["shopify"] = FALSE
    BY <1>1 DEF Defaults
  <1> QED
    BY <1>1, <1>2

\* What a request or an action rests on.
RequestGranted(q, acts, log) ==
    /\ q.op = "propose" /\ q.mode = "demo_proposal" =>
           "demo_proposal" \in log[q.tenant]["mode"].ever
    /\ q.op = "execute" => TRUE \in log[acts[q.action].tenant]["shopify"].ever

ActionGranted(row, log) ==
    row # NoValue /\ row.status # "denied" =>
        /\ "demo_proposal" \in log[row.tenant]["mode"].ever
        /\ row.status = "provider_accepted" => TRUE \in log[row.tenant]["shopify"].ever

LEMMA GrantsAre ==
    ASSUME NEW req, NEW acts, NEW log
    PROVE  /\ RequestsGranted(req, acts, log)
              <=> \A r \in Requests : RequestGranted(req[r], acts, log)
           /\ ActionsGranted(acts, log)
              <=> \A a \in ActionIds : ActionGranted(acts[a], log)
  BY DEF RequestsGranted, ActionsGranted, RequestGranted, ActionGranted

LEMMA GrantsOutlast ==
    ASSUME Types, [Next]_vars, UNCHANGED <<request, actions>>,
           RequestsGranted(request, actions, asked), ActionsGranted(actions, asked)
    PROVE  RequestsGranted(request', actions', asked') /\ ActionsGranted(actions', asked')
  <1>1. \A t \in Tenants, f \in Fields : asked[t][f].ever \subseteq asked'[t][f].ever
    BY EverGrows
  <1>2. \A a \in ActionIds : actions[a] # NoValue => actions[a].tenant \in Tenants
    BY StoredActionsAre DEF Types, RequestTypes
  <1>3. \A r \in Requests :
            /\ request[r].op = "propose" => request[r].tenant \in Tenants
            /\ request[r].op = "execute" =>
                   actions[request[r].action].tenant \in Tenants
    BY <1>2 DEF Types, RequestTypes, RequestFormed
  <1>4. RequestsGranted(request', actions', asked')
    BY <1>1, <1>3, DefaultsPermitNothing DEF RequestsGranted
  <1>5. ActionsGranted(actions', asked')
    BY <1>1, <1>2, DefaultsPermitNothing DEF ActionsGranted
  <1> QED
    BY <1>4, <1>5

LEMMA ServiceStaysGranted ==
    ASSUME GrantInv, Rests, Served
    PROVE  RequestsGranted(request', actions', asked') /\ ActionsGranted(actions', asked')
  <1>1. /\ Types /\ RowsGranted(workspaces, asked) /\ asked' = asked
        /\ \A r \in Requests : RequestGranted(request[r], actions, asked)
        /\ \A a \in ActionIds : ActionGranted(actions[a], asked)
    BY GrantsAre DEF GrantInv, Rests
  <1>2. \A a \in ActionIds : actions[a] # NoValue =>
            actions'[a] # NoValue /\ actions'[a].tenant = actions[a].tenant
    BY <1>1, ActionsStay
  <1>3. \A r \in Requests : RequestGranted(request[r], actions', asked)
    BY <1>1, <1>2 DEF RequestGranted, Types, RequestTypes, RequestFormed
  <1>4. \A t \in Tenants, f \in Fields : Granted(asked, t, f, Setting(workspaces, t, f))
    BY <1>1, SettingsAreGranted DEF Types, RowTypes
  <1> DEFINE Requested == \A r \in Requests : RequestGranted(request'[r], actions', asked)
             Acted == \A a \in ActionIds : ActionGranted(actions'[a], asked)
  <1>5. ASSUME NEW r \in Requests, NEW q, request' = [request EXCEPT ![r] = q],
               RequestGranted(q, actions', asked)
        PROVE  Requested
    BY <1>1, <1>3, <1>5 DEF Types, RequestTypes
  <1>6. ASSUME NEW r \in Requests, request' = [request EXCEPT ![r] = NoRequest]
        PROVE  Requested
    <2>1. RequestGranted(NoRequest, actions', asked)
      BY NoRequestIs DEF RequestGranted
    <2> QED
      BY <1>5, <1>6, <2>1
  <1>7. ASSUME NEW a \in ActionIds, NEW row, actions' = [actions EXCEPT ![a] = row],
               ActionGranted(row, asked)
        PROVE  Acted
    BY <1>1, <1>7 DEF Types, RequestTypes
  <1>8. ASSUME actions' = actions PROVE Acted
    BY <1>1, <1>8
  <1>9. ASSUME request' = request PROVE Requested
    BY <1>3, <1>9
  <1>10. ASSUME NEW r \in Requests, NEW t \in Tenants, Asking(r, t)
         PROVE  Requested /\ Acted
    <2> DEFINE mode == Setting(workspaces, t, "mode")
    <2>1. Granted(asked, t, "mode", mode) /\ mode \in Modes
      BY <1>1, <1>4, SettingsHaveTypes, DefaultsPermitNothing DEF Types, RowTypes, Domain
    <2>2. PICK limit : request' = [request EXCEPT ![r] = Proposing(t, mode, limit)]
      BY <1>10 DEF Asking
    <2> HIDE DEF mode
    <2>3. /\ Proposing(t, mode, limit).op = "propose"
          /\ Proposing(t, mode, limit).tenant = t /\ Proposing(t, mode, limit).mode = mode
      BY DEF Proposing
    <2>4. RequestGranted(Proposing(t, mode, limit), actions', asked)
      BY <2>1, <2>3, DefaultsPermitNothing DEF RequestGranted, Granted
    <2> QED
      BY <1>5, <1>8, <1>10, <2>2, <2>4 DEF Asking
  <1>11. ASSUME NEW r \in Requests, NEW a \in ActionIds, Gates(r, a)
         PROVE  Requested /\ Acted
    <2> DEFINE t == actions[a].tenant
               q == Executing(t, a)
    <2>1. /\ actions' = actions /\ request' = [request EXCEPT ![r] = q]
          /\ t \in Tenants /\ Setting(workspaces, t, "shopify") = TRUE
      BY <1>1, <1>11, StoredActionsAre DEF Gates, Types, RequestTypes
    <2>2. TRUE \in asked[t]["shopify"].ever
      BY <1>4, <2>1, DefaultsPermitNothing DEF Granted
    <2>3. q.op = "execute" /\ q.action = a
      BY ExecutingIs
    <2>4. RequestGranted(q, actions', asked)
      <3> HIDE DEF q
      <3> QED
        BY <2>1, <2>2, <2>3 DEF RequestGranted
    <2> HIDE DEF q
    <2> QED
      BY <1>5, <1>8, <2>1, <2>4
  <1>12. ASSUME NEW r \in Requests, NEW a \in ActionIds, Proposes(r, a)
         PROVE  Requested /\ Acted
    <2>1. PICK status \in {"denied", "approval_required"} :
              /\ status # "denied" => request[r].mode = "demo_proposal"
              /\ actions' = [actions EXCEPT ![a] =
                                [tenant |-> request[r].tenant, status |-> status]]
      BY <1>12 DEF Proposes
    <2> DEFINE row == [tenant |-> request[r].tenant, status |-> status]
    <2>2. request[r].op = "propose" /\ RequestGranted(request[r], actions, asked)
      BY <1>1, <1>12 DEF Proposes
    <2>3. ActionGranted(row, asked)
      BY <2>1, <2>2 DEF ActionGranted, RequestGranted
    <2> HIDE DEF row
    <2>4. actions' = [actions EXCEPT ![a] = row]
      BY <2>1 DEF row
    <2> QED
      BY <1>6, <1>7, <1>12, <2>3, <2>4 DEF Proposes
  <1>13. ASSUME NEW a \in ActionIds, NEW before \in {"approval_required", "approved"},
                NEW after, Turns(a, before, after),
                after = "provider_accepted" => TRUE \in asked[actions[a].tenant]["shopify"].ever
         PROVE  Acted
    <2> DEFINE row == [tenant |-> actions[a].tenant, status |-> after]
    <2>1. ActionGranted(actions[a], asked)
      BY <1>1
    <2>2. ActionGranted(row, asked)
      BY <1>13, <2>1 DEF ActionGranted, Turns
    <2> HIDE DEF row
    <2>3. actions' = [actions EXCEPT ![a] = row]
      BY <1>13 DEF Turns, row
    <2> QED
      BY <1>7, <2>2, <2>3
  <1>14. ASSUME NEW r \in Requests, Executes(r)
         PROVE  Requested /\ Acted
    <2>1. /\ request[r].op = "execute" /\ request[r].action \in ActionIds
          /\ RequestGranted(request[r], actions, asked)
          /\ request' = [request EXCEPT ![r] = NoRequest]
      BY <1>1, <1>14 DEF Executes, Types, RequestTypes, RequestFormed
    <2>2. TRUE \in asked[actions[request[r].action].tenant]["shopify"].ever
      BY <2>1 DEF RequestGranted
    <2>3. actions' = actions \/ Turns(request[r].action, "approved", "provider_accepted")
      BY <1>14 DEF Executes
    <2> QED
      BY <1>6, <1>8, <1>13, <2>1, <2>2, <2>3
  <1>15. ASSUME NEW a \in ActionIds, NEW status \in {"approved", "rejected"},
                Turns(a, "approval_required", status), request' = request
         PROVE  Requested /\ Acted
    BY <1>9, <1>13, <1>15
  <1>16. ASSUME request' = [r \in Requests |-> NoRequest], actions' = actions
         PROVE  Requested /\ Acted
    <2>1. RequestGranted(NoRequest, actions', asked)
      BY NoRequestIs DEF RequestGranted
    <2> QED
      BY <1>8, <1>16, <2>1
  <1>17. Requested /\ Acted
    <2> HIDE DEF Requested, Acted
    <2> QED
      BY <1>10, <1>11, <1>12, <1>14, <1>15, <1>16 DEF Served
  <1> QED
    BY <1>1, <1>17, GrantsAre

THEOREM GrantInvHolds == Spec => []GrantInv
  <1>1. Init => GrantInv
    <2> SUFFICES ASSUME Init PROVE GrantInv
      OBVIOUS
    <2>1. Types
      BY TypesInit
    <2>2. /\ RowsGranted(workspaces, asked) /\ ActionsGranted(actions, asked)
          /\ RequestsGranted(request, actions, asked)
      BY NoRequestIs DEF Init, RowsGranted, ActionsGranted, RequestsGranted
    <2>3. ValuesGranted(command, asked)
      BY IdleIs DEF Init, ValuesGranted
    <2> QED
      BY <2>1, <2>2, <2>3 DEF GrantInv
  <1>2. ASSUME GrantInv, [Next]_vars PROVE GrantInv'
    <2>1. Types /\ Types'
      BY <1>2, TypesKept DEF GrantInv
    <2>2. RowsGranted(workspaces', asked') /\ ValuesGranted(command', asked')
      BY <1>2, RowsStayGranted, ValuesStayGranted
    <2>3. RequestsGranted(request', actions', asked') /\ ActionsGranted(actions', asked')
      <3>1. CASE UNCHANGED <<request, actions>>
        BY <1>2, <2>1, <3>1, GrantsOutlast DEF GrantInv
      <3>2. CASE Rests /\ Served
        BY <1>2, <3>2, ServiceStaysGranted
      <3> QED
        BY <1>2, <2>1, <3>1, <3>2, RequestStepsAre
    <2> QED
      BY <2>1, <2>2, <2>3 DEF GrantInv
  <1> QED
    BY <1>1, <1>2, PTL DEF Spec

\* No write without its tenant's operators: of an action that was not denied
\* the tenant was once put into proposal mode, and of one that was executed a
\* check of Shopify once succeeded (propose_action and the capability gate of
\* execute_action), however commands and requests overlap.
THEOREM OnlyGrantedEffects == Spec => []EffectsAreGranted
  <1>1. GrantInv => EffectsAreGranted
    BY DEF GrantInv, ActionsGranted, EffectsAreGranted
  <1> QED
    BY GrantInvHolds, <1>1, PTL

-----------------------------------------------------------------------------
(* Settings are as requested.                                              *)

LEMMA OneCommandExplained ==
    ASSUME Types, NEW o \in Operators, NEW c, Becomes(command, command', o, c),
           CommandAsked(c, asked'), WriteExplained(workspaces', c, asked'),
           \A p \in Operators \ {o} :
               CommandAsked(command[p], asked') /\ WriteExplained(workspaces', command[p], asked')
    PROVE  CommandsExplained(workspaces', command', asked')
  BY DEF CommandsExplained, Becomes, Types, RowTypes

LEMMA IdleIsExplained ==
    ASSUME NEW ws, NEW log
    PROVE  CommandAsked(Idle, log) /\ WriteExplained(ws, Idle, log)
  <1>1. Idle.op # "write" /\ DOMAIN Idle.values = {}
    BY IdleIs
  <1> HIDE DEF Idle
  <1> QED
    BY <1>1 DEF CommandAsked, WriteExplained

\* Steps that touch neither the rows nor what was asked for.
LEMMA QuietStepsExplained ==
    ASSUME SettingsInv, UNCHANGED <<workspaces, asked>>,
           \/ command' = command
           \/ \E o \in Operators : \E c :
                  /\ Becomes(command, command', o, c)
                  /\ CommandAsked(c, asked) /\ WriteExplained(workspaces, c, asked)
    PROVE  /\ SettingsExplained(workspaces', asked')
           /\ CommandsExplained(workspaces', command', asked')
  <1>1. SettingsExplained(workspaces', asked')
    BY DEF SettingsInv
  <1>2. Types /\ CommandsExplained(workspaces, command, asked)
        /\ \A p \in Operators : CommandAsked(command[p], asked')
                                /\ WriteExplained(workspaces', command[p], asked')
    BY DEF SettingsInv, CommandsExplained
  <1>3. ASSUME command' = command
        PROVE  CommandsExplained(workspaces', command', asked')
    BY <1>2, <1>3 DEF CommandsExplained
  <1>4. ASSUME NEW o \in Operators, NEW c, Becomes(command, command', o, c),
               CommandAsked(c, asked), WriteExplained(workspaces, c, asked)
        PROVE  CommandsExplained(workspaces', command', asked')
    BY <1>2, <1>4, OneCommandExplained
  <1> QED
    BY <1>1, <1>3, <1>4

LEMMA BeginsExplained ==
    ASSUME SettingsInv, NEW o \in Operators, NEW t, NEW i, Begins(o, t, i)
    PROVE  /\ SettingsExplained(workspaces', asked')
           /\ CommandsExplained(workspaces', command', asked')
  <1> DEFINE c == Initializing(t, i, clock + 1)
  <1>1. /\ command' = [command EXCEPT ![o] = c] /\ UNCHANGED <<workspaces, asked>>
        /\ c.op # "write" /\ DOMAIN c.values = {}
    BY InitializingIs DEF Begins
  <1> HIDE DEF c
  <1>2. CommandAsked(c, asked) /\ WriteExplained(workspaces, c, asked)
    BY <1>1 DEF CommandAsked, WriteExplained
  <1>3. Becomes(command, command', o, c)
    BY <1>1, StepReplaces DEF SettingsInv, Types
  <1> QED
    BY <1>1, <1>2, <1>3, QuietStepsExplained

LEMMA LooksExplained ==
    ASSUME SettingsInv, NEW o \in Operators, Looks(o)
    PROVE  /\ SettingsExplained(workspaces', asked')
           /\ CommandsExplained(workspaces', command', asked')
  <1> DEFINE t == command[o].tenant
             values == command[o].values
             c == Writing(workspaces, t, values)
  <1>1. /\ command' = [command EXCEPT ![o] = c] /\ UNCHANGED <<workspaces, asked>>
        /\ RowsOf(workspaces, t) # {} /\ t \in Tenants
        /\ WellTyped(values) /\ Dated(workspaces, clock)
        /\ \A f \in DOMAIN values : values[f] \in asked[t][f].since
    BY DEF Looks, SettingsInv, CommandsExplained, CommandAsked, Types, RowTypes,
           WellFormed, WellTyped
  <1> HIDE DEF t, values
  <1>2. /\ c.tenant = t /\ c.values = values /\ c.id = FirstOf(workspaces, t)
        /\ \A f \in DOMAIN values : c.seen[f] = Setting(workspaces, t, f)
    BY <1>1, WritingIs
  <1> HIDE DEF c
  <1>3. CommandAsked(c, asked) /\ WriteExplained(workspaces, c, asked)
    BY <1>1, <1>2 DEF CommandAsked, WriteExplained
  <1>4. Becomes(command, command', o, c)
    BY <1>1, StepReplaces DEF SettingsInv, Types
  <1> QED
    BY <1>1, <1>3, <1>4, QuietStepsExplained

\* What was explained by some values is so by more of them.
LEMMA MoreExplains ==
    ASSUME NEW ws, NEW t, NEW f, NEW V, NEW W, Explained(ws, t, f, V), V \subseteq W
    PROVE  Explained(ws, t, f, W)
  BY DEF Explained

LEMMA StartsExplained ==
    ASSUME SettingsInv, NEW o \in Operators, NEW t, NEW values, Starts(o, t, values)
    PROVE  /\ SettingsExplained(workspaces', asked')
           /\ CommandsExplained(workspaces', command', asked')
  <1>1. /\ Types /\ workspaces' = workspaces /\ t \in Tenants
        /\ WellTyped(values) /\ Dated(workspaces, clock)
        /\ AsksFor(asked, asked', t, values)
    BY AsksIs DEF Starts, SettingsInv, Types, RowTypes
  <1>2. \A u \in Tenants, f \in Fields :
            /\ asked'[u][f].before = asked[u][f].before
            /\ asked[u][f].since \subseteq asked'[u][f].since
    BY <1>1 DEF AsksFor
  <1>3. \A f \in DOMAIN values : values[f] \in asked'[t][f].since
    BY <1>1 DEF AsksFor, WellTyped
  <1>4. SettingsExplained(workspaces', asked')
    <2>1. ASSUME NEW u \in Tenants, NEW f \in Fields
          PROVE  Explained(workspaces, u, f, asked'[u][f].before \cup asked'[u][f].since)
      <3>1. Explained(workspaces, u, f, asked[u][f].before \cup asked[u][f].since)
        BY DEF SettingsInv, SettingsExplained
      <3>2. asked[u][f].before \cup asked[u][f].since
            \subseteq asked'[u][f].before \cup asked'[u][f].since
        BY <1>2
      <3> QED
        BY <3>1, <3>2, MoreExplains
    <2>2. ASSUME NEW u \in Tenants, NEW f \in Fields, RowsOf(workspaces, u) = {}
          PROVE  Defaults[f] \in asked'[u][f].before
      BY <1>2, <2>2 DEF SettingsInv, SettingsExplained
    <2> QED
      BY <1>1, <2>1, <2>2 DEF SettingsExplained
  <1>5. ASSUME NEW p \in Operators
        PROVE  CommandAsked(command[p], asked') /\ WriteExplained(workspaces', command[p], asked')
    <2> DEFINE d == command[p]
    <2>1. /\ CommandAsked(d, asked) /\ WriteExplained(workspaces, d, asked)
          /\ DOMAIN d.values \subseteq Fields
          /\ d.op \in {"idle", "initialize"} => DOMAIN d.values = {}
          /\ d.op # "idle" => d.tenant \in Tenants
      BY DEF SettingsInv, CommandsExplained, Types, RowTypes, WellFormed
    <2> HIDE DEF d
    <2>2. \A f \in DOMAIN d.values : asked[d.tenant][f].since \subseteq asked'[d.tenant][f].since
      BY <1>2, <2>1
    <2>3. CommandAsked(d, asked')
      BY <2>1, <2>2 DEF CommandAsked
    <2>4. WriteExplained(workspaces, d, asked')
      BY <2>1, <2>2, MoreExplains DEF WriteExplained
    <2> QED
      BY <1>1, <2>3, <2>4 DEF d
  <1>6. PICK c : /\ command' = [command EXCEPT ![o] = c]
                 /\ c.tenant = t /\ c.values = values
                 /\ c.op = "write" =>
                        /\ c.id = FirstOf(workspaces, t)
                        /\ \A f \in DOMAIN values : c.seen[f] = Setting(workspaces, t, f)
    <2>1. CASE command' = [command EXCEPT ![o] = Checking(t, values)]
      <3> DEFINE w == Checking(t, values)
      <3>1. w.op = "checked" /\ w.tenant = t /\ w.values = values
        BY <1>1, CheckingIs
      <3> HIDE DEF w
      <3>2. w.op # "write"
        BY <3>1
      <3> QED
        BY <2>1, <3>1, <3>2 DEF w
    <2>2. CASE /\ RowsOf(workspaces, t) # {}
               /\ command' = [command EXCEPT ![o] = Writing(workspaces, t, values)]
      <3> DEFINE w == Writing(workspaces, t, values)
      <3>1. /\ w.tenant = t /\ w.values = values /\ w.id = FirstOf(workspaces, t)
            /\ \A f \in DOMAIN values : w.seen[f] = Setting(workspaces, t, f)
        BY <1>1, <2>2, WritingIs
      <3> HIDE DEF w
      <3> QED
        BY <2>2, <3>1 DEF w
    <2> QED
      BY <2>1, <2>2 DEF Starts
  <1>7. CommandAsked(c, asked') /\ WriteExplained(workspaces', c, asked')
    BY <1>1, <1>3, <1>6 DEF CommandAsked, WriteExplained
  <1>8. Becomes(command, command', o, c)
    BY <1>1, <1>6, StepReplaces DEF Types
  <1> QED
    BY <1>1, <1>4, <1>5, <1>7, <1>8, OneCommandExplained

LEMMA CommitsExplained ==
    ASSUME SettingsInv, NEW o \in Operators, Commits(o)
    PROVE  /\ SettingsExplained(workspaces', asked')
           /\ CommandsExplained(workspaces', command', asked')
  <1> DEFINE i == command[o].id
             t == command[o].tenant
             n == command[o].created
             ws == workspaces
             new == workspaces'
  <1>1. /\ Types /\ Becomes(command, command', o, Idle) /\ asked' = asked
        /\ SettingsExplained(ws, asked) /\ CommandsExplained(ws, command, asked)
    BY StepReplaces DEF Commits, SettingsInv, Types
  <1>2. CASE new = ws
    BY <1>1, <1>2, IdleIsExplained, QuietStepsExplained
  <1>3. CASE Inserts(ws, new, i, t, n)
    <2>1. /\ Dated(ws, clock) /\ clock \in Nat /\ n <= clock /\ t \in Tenants
          /\ \A j \in Ids : ws[j] # NoValue => ws[j].created # n
      BY <1>1, WorkspacesAssumption DEF Commits, Types, RowTypes, InitsDiffer, WellFormed
    <2> HIDE DEF i, t, n, ws, new
    <2>2. /\ \A u : u # t =>
                 /\ Many(new, u) <=> Many(ws, u)
                 /\ RowsOf(ws, u) # {} => FirstOf(new, u) = FirstOf(ws, u)
                 /\ \A f : Setting(new, u, f) = Setting(ws, u, f)
          /\ RowsOf(ws, t) = {} => \A f \in Fields : Setting(new, t, f) = Defaults[f]
          /\ RowsOf(ws, t) # {} =>
                 /\ Many(new, t)
                 /\ \/ \A f \in Fields : Setting(new, t, f) = Defaults[f]
                    \/ /\ FirstOf(new, t) = FirstOf(ws, t)
                       /\ \A f : Setting(new, t, f) = Setting(ws, t, f)
      BY <1>3, <2>1, InsertSets
    <2>3. /\ RowsOf(new, t) = RowsOf(ws, t) \cup {i}
          /\ \A u : u # t => RowsOf(new, u) = RowsOf(ws, u)
      <3>1. /\ new \in Tables
            /\ new[i] = [tenant |-> t, created |-> n, settings |-> Defaults]
            /\ new[i] # NoValue
            /\ \A j \in Ids \ {i} : new[j] = ws[j]
            /\ RowsOf(new, t) = RowsOf(ws, t) \cup {i}
            /\ \A u : u # t => RowsOf(new, u) = RowsOf(ws, u)
        BY <1>3, InsertKeepsRows
      <3> QED
        BY <3>1
    <2>4. ASSUME NEW u, NEW f \in Fields, NEW V, Explained(ws, u, f, V),
                 RowsOf(ws, u) = {} => Defaults[f] \in V
          PROVE  Explained(new, u, f, V)
      BY <2>2, <2>4 DEF Explained
    <2>5. SettingsExplained(new, asked)
      <3>1. ASSUME NEW u \in Tenants, NEW f \in Fields
            PROVE  Explained(new, u, f, asked[u][f].before \cup asked[u][f].since)
        <4>1. /\ Explained(ws, u, f, asked[u][f].before \cup asked[u][f].since)
              /\ RowsOf(ws, u) = {} => Defaults[f] \in asked[u][f].before
          BY <1>1 DEF SettingsExplained
        <4> QED
          BY <2>4, <4>1
      <3>2. ASSUME NEW u \in Tenants, NEW f \in Fields, RowsOf(new, u) = {}
            PROVE  Defaults[f] \in asked[u][f].before
        <4>1. RowsOf(ws, u) = {}
          BY <2>3, <3>2
        <4> QED
          BY <1>1, <4>1 DEF SettingsExplained
      <3> QED
        BY <3>1, <3>2 DEF SettingsExplained
    <2>6. ASSUME NEW p \in Operators
          PROVE  CommandAsked(command[p], asked) /\ WriteExplained(new, command[p], asked)
      <3> DEFINE d == command[p]
      <3>1. /\ CommandAsked(d, asked) /\ WriteExplained(ws, d, asked)
            /\ DOMAIN d.values \subseteq Fields
            /\ d.op = "write" => RowsOf(ws, d.tenant) # {}
        BY <1>1 DEF CommandsExplained, Types, RowTypes, WellFormed, ws
      <3> HIDE DEF d
      <3>2. ASSUME d.op = "write", NEW f \in DOMAIN d.values
            PROVE  \/ Explained(new, d.tenant, f, asked[d.tenant][f].since)
                   \/ d.id = FirstOf(new, d.tenant) /\ Setting(new, d.tenant, f) = d.seen[f]
        <4>1. CASE Explained(ws, d.tenant, f, asked[d.tenant][f].since)
          BY <2>4, <3>1, <3>2, <4>1
        <4>2. CASE d.id = FirstOf(ws, d.tenant) /\ Setting(ws, d.tenant, f) = d.seen[f]
          <5>1. CASE d.tenant # t
            BY <2>2, <3>1, <3>2, <4>2, <5>1
          <5>2. CASE d.tenant = t
            BY <2>2, <3>1, <3>2, <4>2, <5>2 DEF Explained
          <5> QED
            BY <5>1, <5>2
        <4> QED
          BY <3>1, <3>2, <4>1, <4>2 DEF WriteExplained
      <3>3. WriteExplained(new, d, asked)
        BY <3>2 DEF WriteExplained
      <3> QED
        BY <3>1, <3>3 DEF d
    <2>7. CommandAsked(Idle, asked) /\ WriteExplained(new, Idle, asked)
      BY IdleIsExplained
    <2>8. CommandsExplained(workspaces', command', asked')
      BY <1>1, <2>6, <2>7, OneCommandExplained DEF new
    <2> QED
      BY <1>1, <2>5, <2>8 DEF new
  <1> QED
    BY <1>2, <1>3 DEF Commits

\* What a command that ends leaves of what the others were asked for.
LEMMA EndsLeave ==
    ASSUME Types, NEW o \in Operators, NEW done, EndsOf(command, asked, asked', o, done),
           NEW p \in Operators, p # o, NEW f \in DOMAIN command[p].values
    PROVE  asked'[command[p].tenant][f] = asked[command[p].tenant][f]
  <1>1. command[p].tenant \in Tenants /\ f \in Fields
    BY DEF Types, RowTypes, WellFormed
  <1>2. ~ (command[p].tenant = command[o].tenant /\ Alone(command, o, f))
    BY DEF Alone
  <1> QED
    BY <1>1, <1>2 DEF EndsOf

LEMMA FailsExplained ==
    ASSUME SettingsInv, NEW o \in Operators, Fails(o)
    PROVE  /\ SettingsExplained(workspaces', asked')
           /\ CommandsExplained(workspaces', command', asked')
  <1> DEFINE t == command[o].tenant
  <1>1. /\ Types /\ t \in Tenants /\ workspaces' = workspaces
        /\ RowsOf(workspaces, t) = {}
        /\ EndsOf(command, asked, asked', o, FALSE) /\ Becomes(command, command', o, Idle)
        /\ SettingsExplained(workspaces, asked)
        /\ CommandsExplained(workspaces, command, asked)
    BY FailsEnds DEF SettingsInv, Fails
  <1>2. ASSUME NEW u \in Tenants, NEW f \in Fields
        PROVE  /\ Explained(workspaces, u, f, asked'[u][f].before \cup asked'[u][f].since)
               /\ RowsOf(workspaces, u) = {} => Defaults[f] \in asked'[u][f].before
    <2>1. /\ Explained(workspaces, u, f, asked[u][f].before \cup asked[u][f].since)
          /\ RowsOf(workspaces, u) = {} => Defaults[f] \in asked[u][f].before
      BY <1>1 DEF SettingsExplained
    <2>2. CASE asked'[u][f] = asked[u][f]
      BY <2>1, <2>2
    <2>3. CASE asked'[u][f] # asked[u][f]
      <3>1. u = t /\ asked'[u][f].before = asked[u][f].before
        BY <1>1, <2>3 DEF EndsOf
      <3>2. Setting(workspaces, u, f) = Defaults[f]
        BY <1>1, <3>1 DEF Setting
      <3>3. Defaults[f] \in asked'[u][f].before
        BY <1>1, <2>1, <3>1
      <3> QED
        BY <3>2, <3>3 DEF Explained
    <2> QED
      BY <2>2, <2>3
  <1>3. ASSUME NEW p \in Operators \ {o}
        PROVE  CommandAsked(command[p], asked') /\ WriteExplained(workspaces', command[p], asked')
    <2>1. \A f \in DOMAIN command[p].values :
              asked'[command[p].tenant][f] = asked[command[p].tenant][f]
      BY <1>1, EndsLeave
    <2> QED
      BY <1>1, <2>1 DEF CommandsExplained, CommandAsked, WriteExplained
  <1>4. CommandAsked(Idle, asked') /\ WriteExplained(workspaces', Idle, asked')
    BY IdleIsExplained
  <1> QED
    BY <1>1, <1>2, <1>3, <1>4, OneCommandExplained DEF SettingsExplained

LEMMA WritesExplained ==
    ASSUME SettingsInv, NEW o \in Operators, Writes(o)
    PROVE  /\ SettingsExplained(workspaces', asked')
           /\ CommandsExplained(workspaces', command', asked')
  <1> DEFINE c == command[o]
             i == c.id
             t == c.tenant
             s == Written(workspaces, c)
             ws == workspaces
             new == workspaces'
  <1>1. /\ Types /\ t \in Tenants
        /\ EndsOf(command, asked, asked', o, TRUE) /\ Becomes(command, command', o, Idle)
        /\ SettingsExplained(ws, asked) /\ CommandsExplained(ws, command, asked)
    BY WritesEnds DEF SettingsInv
  <1>2. /\ Updates(ws, new, i, s) /\ Dated(ws, clock) /\ i \in RowsOf(ws, t)
        /\ c.op = "write" /\ DOMAIN c.values \subseteq Fields
        /\ CommandAsked(c, asked) /\ WriteExplained(ws, c, asked)
        /\ \A f \in Fields : s[f] = IF f \in DOMAIN c.values /\ c.values[f] # c.seen[f]
                                    THEN c.values[f] ELSE ws[i].settings[f]
    BY <1>1 DEF Writes, Types, RowTypes, WellFormed, CommandsExplained, Written
  <1>3. ASSUME NEW u
        PROVE  /\ Many(new, u) <=> Many(ws, u)
               /\ RowsOf(new, u) = RowsOf(ws, u)
               /\ RowsOf(ws, u) # {} => FirstOf(new, u) = FirstOf(ws, u)
               /\ \A f : RowsOf(ws, u) # {} /\ FirstOf(ws, u) = i
                      => Setting(new, u, f) = s[f]
               /\ \A f : RowsOf(ws, u) = {} \/ FirstOf(ws, u) # i
                      => Setting(new, u, f) = Setting(ws, u, f)
    <2> HIDE DEF c, i, t, s, ws, new
    <2>1. \A v : RowsOf(new, v) = RowsOf(ws, v)
      BY <1>2, UpdateKeepsRows
    <2>2. \A any, v : Dated(ws, any) /\ RowsOf(ws, v) # {} => FirstOf(new, v) = FirstOf(ws, v)
      BY <1>2, UpdateKeepsRows
    <2>3. /\ Many(new, u) <=> Many(ws, u)
          /\ \A f : RowsOf(ws, u) # {} /\ FirstOf(ws, u) = i => Setting(new, u, f) = s[f]
          /\ \A f : RowsOf(ws, u) = {} \/ FirstOf(ws, u) # i
                 => Setting(new, u, f) = Setting(ws, u, f)
      BY <1>2, UpdateSets
    <2> QED
      BY <1>2, <2>1, <2>2, <2>3
  <1> HIDE DEF s, ws, new
  <1>4. ASSUME NEW u, NEW f \in Fields, u # t \/ f \notin DOMAIN c.values
        PROVE  Setting(new, u, f) = Setting(ws, u, f)
    <2>1. CASE RowsOf(ws, u) = {} \/ FirstOf(ws, u) # i
      BY <1>3, <2>1
    <2>2. CASE RowsOf(ws, u) # {} /\ FirstOf(ws, u) = i
      <3>1. i \in RowsOf(ws, u)
        BY <1>2, <2>2, FirstIs
      <3>2. u = t
        BY <1>2, <3>1 DEF RowsOf
      <3>3. s[f] = ws[i].settings[f]
        BY <1>2, <1>4, <3>2
      <3>4. Setting(ws, u, f) = ws[i].settings[f]
        BY <2>2 DEF Setting
      <3> QED
        BY <1>3, <2>2, <3>3, <3>4
    <2> QED
      BY <2>1, <2>2
  <1>5. ASSUME NEW f \in DOMAIN c.values
        PROVE  Explained(new, t, f, asked[t][f].since)
    <2>1. \/ Explained(ws, t, f, asked[t][f].since)
          \/ i = FirstOf(ws, t) /\ Setting(ws, t, f) = c.seen[f]
      BY <1>2 DEF WriteExplained
    <2>2. c.values[f] \in asked[t][f].since /\ f \in Fields
      BY <1>2 DEF CommandAsked
    <2>3. CASE FirstOf(ws, t) # i
      BY <1>3, <2>1, <2>3 DEF Explained
    <2>4. CASE FirstOf(ws, t) = i
      <3>1. Setting(new, t, f) = s[f] /\ Setting(ws, t, f) = ws[i].settings[f]
        BY <1>2, <1>3, <2>4 DEF Setting
      <3>2. CASE c.values[f] # c.seen[f]
        BY <1>2, <2>2, <3>1, <3>2 DEF Explained
      <3>3. CASE c.values[f] = c.seen[f]
        <4>1. Setting(new, t, f) = Setting(ws, t, f)
          BY <1>2, <2>2, <3>1, <3>3
        <4> QED
          BY <1>3, <2>1, <2>2, <3>3, <4>1 DEF Explained
      <3> QED
        BY <3>2, <3>3
    <2> QED
      BY <2>3, <2>4
  <1>6. \A u \in Tenants, f \in Fields : u # t \/ f \notin DOMAIN c.values
            => asked'[u][f] = asked[u][f]
    BY <1>1 DEF EndsOf
  <1>7. SettingsExplained(new, asked')
    <2>1. ASSUME NEW u \in Tenants, NEW f \in Fields
          PROVE  /\ Explained(new, u, f, asked'[u][f].before \cup asked'[u][f].since)
                 /\ RowsOf(new, u) = {} => Defaults[f] \in asked'[u][f].before
      <3>1. /\ Explained(ws, u, f, asked[u][f].before \cup asked[u][f].since)
            /\ RowsOf(ws, u) = {} => Defaults[f] \in asked[u][f].before
        BY <1>1 DEF SettingsExplained
      <3>2. CASE u # t \/ f \notin DOMAIN c.values
        BY <1>3, <1>4, <1>6, <3>1, <3>2 DEF Explained
      <3>3. CASE u = t /\ f \in DOMAIN c.values
        <4>1. Explained(new, u, f, asked[u][f].since) /\ RowsOf(new, u) # {}
          BY <1>2, <1>3, <1>5, <3>3
        <4>2. asked[u][f].since \subseteq asked'[u][f].before \cup asked'[u][f].since
          BY <1>1 DEF EndsOf
        <4> QED
          BY <4>1, <4>2, MoreExplains
      <3> QED
        BY <3>2, <3>3
    <2> QED
      BY <2>1 DEF SettingsExplained
  <1>8. ASSUME NEW p \in Operators \ {o}
        PROVE  CommandAsked(command[p], asked') /\ WriteExplained(new, command[p], asked')
    <2> DEFINE d == command[p]
               u == d.tenant
    <2>1. /\ CommandAsked(d, asked) /\ WriteExplained(ws, d, asked)
          /\ DOMAIN d.values \subseteq Fields
          /\ d.op = "write" => RowsOf(ws, u) # {}
      BY <1>1 DEF CommandsExplained, Types, RowTypes, WellFormed, ws
    <2>2. \A f \in DOMAIN d.values : asked'[u][f] = asked[u][f]
      BY <1>1, EndsLeave
    <2> HIDE DEF d
    <2>3. CommandAsked(d, asked')
      BY <2>1, <2>2 DEF CommandAsked
    <2>4. ASSUME d.op = "write", NEW f \in DOMAIN d.values
          PROVE  \/ Explained(new, u, f, asked'[u][f].since)
                 \/ d.id = FirstOf(new, u) /\ Setting(new, u, f) = d.seen[f]
      <3>1. CASE u # t \/ f \notin DOMAIN c.values
        <4>1. \/ Explained(ws, u, f, asked[u][f].since)
              \/ d.id = FirstOf(ws, u) /\ Setting(ws, u, f) = d.seen[f]
          BY <2>1, <2>4 DEF WriteExplained
        <4>2. /\ Setting(new, u, f) = Setting(ws, u, f) /\ FirstOf(new, u) = FirstOf(ws, u)
              /\ Many(new, u) <=> Many(ws, u)
          BY <1>3, <1>4, <2>1, <2>4, <3>1
        <4> QED
          BY <2>2, <2>4, <4>1, <4>2 DEF Explained
      <3>2. CASE u = t /\ f \in DOMAIN c.values
        BY <1>5, <2>2, <2>4, <3>2
      <3> QED
        BY <3>1, <3>2
    <2>5. WriteExplained(new, d, asked')
      BY <2>4 DEF WriteExplained
    <2> QED
      BY <2>3, <2>5 DEF d
  <1>9. CommandAsked(Idle, asked') /\ WriteExplained(new, Idle, asked')
    BY IdleIsExplained
  <1>10. CommandsExplained(workspaces', command', asked')
    BY <1>1, <1>8, <1>9, OneCommandExplained DEF new
  <1> QED
    BY <1>7, <1>10 DEF new

THEOREM SettingsInvHolds == Spec => []SettingsInv
  <1>1. Init => SettingsInv
    <2> SUFFICES ASSUME Init PROVE SettingsInv
      OBVIOUS
    <2>1. Types
      BY TypesInit
    <2>2. SettingsExplained(workspaces, asked)
      <3>1. \A t : RowsOf(workspaces, t) = {}
        BY DEF Init, RowsOf
      <3>2. \A t \in Tenants, f \in Fields : asked[t][f].before = {Defaults[f]}
        BY DEF Init, NeverAsked
      <3> QED
        BY <3>1, <3>2 DEF SettingsExplained, Explained, Setting
    <2>3. CommandsExplained(workspaces, command, asked)
      BY IdleIsExplained DEF Init, CommandsExplained
    <2> QED
      BY <2>1, <2>2, <2>3 DEF SettingsInv
  <1>2. ASSUME SettingsInv, [Next]_vars PROVE SettingsInv'
    <2>1. Types /\ Types'
      BY <1>2, TypesKept DEF SettingsInv
    <2>2. CASE Rests
      BY <1>2, <2>1, <2>2, QuietStepsExplained DEF Rests, SettingsInv
    <2>3. ASSUME NEW o \in Operators, Commits(o) \/ Looks(o) \/ Fails(o) \/ Writes(o)
          PROVE  SettingsInv'
      BY <1>2, <2>1, <2>3, CommitsExplained, LooksExplained, FailsExplained, WritesExplained
         DEF SettingsInv
    <2>4. ASSUME NEW o \in Operators, NEW t, NEW i, Begins(o, t, i) PROVE SettingsInv'
      BY <1>2, <2>1, <2>4, BeginsExplained DEF SettingsInv
    <2>5. ASSUME NEW o \in Operators, NEW t, NEW values, Starts(o, t, values)
          PROVE  SettingsInv'
      BY <1>2, <2>1, <2>5, StartsExplained DEF SettingsInv
    <2> QED
      BY <1>2, <2>1, <2>2, <2>3, <2>4, <2>5, StepsAre
  <1> QED
    BY <1>1, <1>2, PTL DEF Spec

\* The rows of a tenant are as many as the times at which they were created.
LEMMA RowsAreFinite ==
    ASSUME Types, NEW t
    PROVE  IsFiniteSet(RowsOf(workspaces, t))
  <1> DEFINE S == RowsOf(workspaces, t)
             g == [i \in S |-> workspaces[i].created]
  <1>1. Dated(workspaces, clock) /\ clock \in Nat
    BY WorkspacesAssumption DEF Types, RowTypes
  <1>2. g \in Injection(S, 1..clock)
    <2>1. g \in [S -> 1..clock]
      BY <1>1 DEF Dated, RowsOf
    <2>2. \A i, j \in S : g[i] = g[j] => i = j
      BY <1>1 DEF Dated, RowsOf
    <2> HIDE DEF S, g
    <2> QED
      BY <2>1, <2>2 DEF Injection, IsInjective
  <1>3. IsFiniteSet(1..clock)
    BY <1>1, FS_Interval
  <1> HIDE DEF S, g
  <1>4. IsFiniteSet(S)
    BY <1>2, <1>3, FS_Injection
  <1> QED
    BY <1>4 DEF S

LEMMA ManyAreMoreThanOne ==
    ASSUME NEW S, IsFiniteSet(S), NEW i \in S, NEW j \in S, i # j
    PROVE  Cardinality(S) > 1
  <1>1. {i, j} \subseteq S /\ IsFiniteSet({i})
    BY FS_Singleton
  <1>2. Cardinality({i} \cup {j}) = Cardinality({i}) + 1 /\ Cardinality({i}) = 1
    BY <1>1, FS_AddElement, FS_Singleton
  <1>3. {i} \cup {j} = {i, j}
    OBVIOUS
  <1>4. Cardinality({i, j}) <= Cardinality(S) /\ Cardinality(S) \in Nat
    BY <1>1, FS_Subset, FS_CardinalityType
  <1> QED
    BY <1>2, <1>3, <1>4

\* What the code reads of a workspace is what was last asked for, or one of
\* what was asked for by commands that overlapped; where two concurrent inits
\* left a tenant with two workspaces it may be the initial value, which permits
\* nothing (initialize, set_mode and record_connector_checks, each of which
\* reads in its transaction and later writes).
THEOREM SettingsHold == Spec => []SettingsAreAsRequested
  <1>1. SettingsInv => SettingsAreAsRequested
    <2> SUFFICES ASSUME SettingsInv, NEW t \in Tenants, NEW f \in Fields
                 PROVE  \/ SettingOf(t, f) \in MayBe(t, f)
                        \/ SettingOf(t, f) = Defaults[f] /\ Cardinality(WorkspacesOf(t)) > 1
      BY DEF SettingsAreAsRequested
    <2>1. /\ SettingOf(t, f) = Setting(workspaces, t, f)
          /\ WorkspacesOf(t) = RowsOf(workspaces, t)
      BY ModelReadsRows
    <2>2. Explained(workspaces, t, f, MayBe(t, f))
      BY DEF SettingsInv, SettingsExplained, MayBe
    <2>3. Many(workspaces, t) => Cardinality(RowsOf(workspaces, t)) > 1
      <3>1. IsFiniteSet(RowsOf(workspaces, t))
        BY RowsAreFinite DEF SettingsInv
      <3> QED
        BY <3>1, ManyAreMoreThanOne DEF Many
    <2> QED
      BY <2>1, <2>2, <2>3 DEF Explained
  <1> QED
    BY SettingsInvHolds, <1>1, PTL

=============================================================================
