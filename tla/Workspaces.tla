------------------------------- MODULE Workspaces -------------------------------
(***************************************************************************)
(* Workspaces: the rows that say whether a tenant's agents may propose     *)
(* writes and whether its connectors may carry them out.  Operators run    *)
(* commands on them (cli.py init, workspace, connect, preflight, and POST  *)
(* /v1/workspace/mode), each with a transaction that reads and later writes*)
(* without a lock; requests for actions read them in sessions of their own *)
(* before they decide.                                                     *)
(*                                                                         *)
(* A connector check says of a connector that it is healthy or not, which  *)
(* decides its read and write capability.  An action is cancel_order by    *)
(* operations on an order of the amount OrderValue; what ActionService     *)
(* decides for other reasons may be any.                                   *)
(***************************************************************************)
EXTENDS ActionRules, FiniteSets

CONSTANTS
    Tenants,
    Ids,            \* workspace identifiers, chosen by callers or by uuid4
    ConnectorKinds, \* the connectors of a workspace
    Operators,      \* sessions in which commands run, one at a time in each
    Initializers,   \* the operators that run init
    Checkers,       \* the operators that run connect or preflight
    Requests,       \* threads that serve requests for actions
    ActionIds,      \* actions still to be proposed
    OrderValue,     \* total_price of an order
    SettingsLimit,  \* settings.write_value_limit, or NoValue
    Limits,         \* limits that a person wrote into thresholds; no code does
    MaxTime         \* bound on the transactions of init

ASSUME WorkspacesAssumption ==
    /\ "shopify" \in ConnectorKinds /\ ConnectorKinds \subseteq {"shopify", "easypost"}
    /\ Initializers \subseteq Operators /\ Checkers \subseteq Operators
    /\ NoValue \notin Ids \cup Tenants \cup ActionIds
    /\ OrderValue \in Nat /\ Limits \subseteq Nat
    /\ SettingsLimit \in Nat \cup {NoValue}
    /\ MaxTime \in Nat

VARIABLES
    workspaces,     \* rows of workspace, each with those of its connectors
    command,        \* the command an operator is running
    request,        \* the request a thread is serving
    actions,        \* status of the actions, with their tenants
    clock,          \* transactions of init begun
    asked           \* history: the values commands asked for

vars == <<workspaces, command, request, actions, clock, asked>>

-----------------------------------------------------------------------------
(* Rows.  The settings of a workspace are its mode and, for each connector,*)
(* the outcome of the last recorded check.                                 *)

Fields == {"mode"} \cup ConnectorKinds
Domain(f) == IF f = "mode" THEN Modes ELSE BOOLEAN

Defaults == [f \in Fields |-> IF f = "mode" THEN "observe_only" ELSE FALSE]

Settings ==
    {[f \in Fields |-> IF f = "mode" THEN mode ELSE checks[f]] :
        mode \in Modes, checks \in [ConnectorKinds -> BOOLEAN]}
Row == [tenant : Tenants, created : 1..MaxTime, settings : Settings]
StoredAction == [tenant : Tenants, status : ActionStatus]

ASSUME NoValueAssumption == NoValue \notin Row /\ NoValue \notin StoredAction

Workspace(t, created) ==
    [tenant |-> t, created |-> created, settings |-> Defaults]

\* A slip: the workspaces of every tenant.
WorkspacesOfAnyone(t) == {i \in Ids : workspaces[i] # NoValue}

WorkspacesOf(t) ==
    {i \in Ids : workspaces[i] # NoValue /\ workspaces[i].tenant = t}

\* created_at is the time at which the inserting transaction began.
PrimaryWorkspace(t) ==
    CHOOSE i \in WorkspacesOf(t) : \A j \in WorkspacesOf(t) :
        workspaces[i].created <= workspaces[j].created

\* Of a tenant without workspace: observe_only, and no capability.
SettingOf(t, f) ==
    IF WorkspacesOf(t) = {} THEN Defaults[f]
    ELSE workspaces[PrimaryWorkspace(t)].settings[f]

\* check_connector reports no write capability for EasyPost, ever.
HasCapability(t, kind, capability) ==
    SettingOf(t, kind) /\ (capability = "write" => kind = "shopify")

-----------------------------------------------------------------------------
(* History of a setting: what it may be if commands that overlap take      *)
(* effect in some order, each between its start and its end.               *)

NeverAsked == [t \in Tenants |-> [f \in Fields |->
                  [before |-> {Defaults[f]}, since |-> {}, ever |-> {}]]]

MayBe(t, f) == asked[t][f].before \cup asked[t][f].since

Idle == [op |-> "idle", tenant |-> NoValue, id |-> NoValue, created |-> 0,
         values |-> <<>>, seen |-> <<>>]

\* The values that operator o's command assigns to fields.
Command(op, t, i, values) ==
    [Idle EXCEPT !.op = op, !.tenant = t, !.id = i, !.values = values]

Asks(t, values) ==
    asked' = [asked EXCEPT ![t] = [f \in Fields |->
        IF f \notin DOMAIN values THEN asked[t][f]
        ELSE [asked[t][f] EXCEPT
            !.since = @ \cup {values[f]},
            !.ever = @ \cup ({values[f]} \ {Defaults[f]})]]]

\* Command o ends; done says whether it took effect.
Ends(o, done) ==
    LET c == command[o]
        history == asked[c.tenant]
        Alone(f) == \A p \in Operators \ {o} :
            f \in DOMAIN command[p].values => command[p].tenant # c.tenant
    IN  /\ command' = [command EXCEPT ![o] = Idle]
        /\ asked' = [asked EXCEPT ![c.tenant] = [f \in Fields |->
               IF f \in DOMAIN c.values /\ Alone(f)
               THEN [history[f] EXCEPT !.before = IF done THEN history[f].since ELSE @,
                                       !.since = {}]
               ELSE history[f]]]

-----------------------------------------------------------------------------
(* Commands.  A command that finds its workspace there, or none to work on,*)
(* returns or raises without a change and is no step of its own; the role  *)
(* that POST /v1/workspace/mode asks for is left to the caller.            *)

\* initialize up to its insert: no workspace of the tenant (with that id).  An
\* id that nobody chose is fresh.
InitializeBegin(o, t, i, chosen) ==
    /\ command[o].op = "idle" /\ o \in Initializers
    /\ clock < MaxTime
    /\ IF chosen THEN i \notin WorkspacesOf(t)
       ELSE /\ WorkspacesOf(t) = {}
            /\ workspaces[i] = NoValue
            /\ \A p \in Operators : command[p].id # i
    /\ clock' = clock + 1
    /\ command' = [command EXCEPT ![o] =
           [Command("initialize", t, i, <<>>) EXCEPT !.created = clock']]
    /\ UNCHANGED <<workspaces, request, actions, asked>>

\* A slip: the row is merged into the table, whosever it was.
InitializeOverwrites(o) ==
    LET c == command[o]
    IN  /\ c.op = "initialize"
        /\ workspaces' = [workspaces EXCEPT ![c.id] = Workspace(c.tenant, c.created)]
        /\ Ends(o, TRUE)
        /\ UNCHANGED <<request, actions, clock>>

\* The insert; it fails on the primary key of a row that is there by now.
InitializeCommit(o) ==
    LET c == command[o]
    IN  /\ c.op = "initialize"
        /\ workspaces' = IF workspaces[c.id] # NoValue THEN workspaces
                         ELSE [workspaces EXCEPT ![c.id] = Workspace(c.tenant, c.created)]
        /\ Ends(o, TRUE)
        /\ UNCHANGED <<request, actions, clock>>

\* The workspace that a command reads and the values that its fields have.
Reads(c) ==
    LET i == PrimaryWorkspace(c.tenant)
    IN  [c EXCEPT !.op = "write", !.id = i,
            !.seen = [f \in DOMAIN c.values |-> workspaces[i].settings[f]]]

SetModeBegin(o, t, mode) ==
    LET values == [f \in {"mode"} |-> mode]
    IN  /\ command[o].op = "idle" /\ WorkspacesOf(t) # {}
        /\ command' = [command EXCEPT ![o] = Reads(Command("set_mode", t, NoValue, values))]
        /\ Asks(t, values)
        /\ UNCHANGED <<workspaces, request, actions, clock>>

\* check_connectors asks the providers before any transaction begins.
CheckConnectors(o, t, results) ==
    /\ command[o].op = "idle" /\ o \in Checkers
    /\ command' = [command EXCEPT ![o] = Command("checked", t, NoValue, results)]
    /\ Asks(t, results)
    /\ UNCHANGED <<workspaces, request, actions, clock>>

RecordChecksBegin(o) ==
    /\ command[o].op = "checked" /\ WorkspacesOf(command[o].tenant) # {}
    /\ command' = [command EXCEPT ![o] = Reads(@)]
    /\ UNCHANGED <<workspaces, request, actions, clock, asked>>

RecordChecksFails(o) ==
    /\ command[o].op = "checked" /\ WorkspacesOf(command[o].tenant) = {}
    /\ Ends(o, FALSE)
    /\ UNCHANGED <<workspaces, request, actions, clock>>

\* flush and commit: an attribute assigned the value it was read with is not
\* part of the UPDATE.
Write(o) ==
    LET c == command[o]
        changed == {f \in DOMAIN c.values : c.values[f] # c.seen[f]}
    IN  /\ c.op = "write"
        /\ workspaces' = [workspaces EXCEPT ![c.id].settings =
               [f \in Fields |-> IF f \in changed THEN c.values[f] ELSE @[f]]]
        /\ Ends(o, TRUE)
        /\ UNCHANGED <<request, actions, clock>>

-----------------------------------------------------------------------------
(* Requests for actions, in one API process.                               *)

NoRequest == [op |-> "idle", tenant |-> NoValue, action |-> NoValue,
              mode |-> "observe_only", limit |-> NoValue]

\* propose_action reads the policy of the workspace and closes the session; a
\* limit of the workspace's own comes before that of the process.
ProposeBegin(r, t, own) ==
    /\ request[r].op = "idle"
    /\ request' = [request EXCEPT ![r] = [NoRequest EXCEPT
           !.op = "propose", !.tenant = t,
           !.mode = SettingOf(t, "mode"),
           !.limit = IF own # NoValue THEN own ELSE SettingsLimit]]
    /\ UNCHANGED <<workspaces, command, actions, clock, asked>>

\* order_value_for looks in the process's memory only: the amount of an order
\* that is stored may or may not be found there.
Verdict(q, order_value, has_conflict) ==
    EvaluatePolicy("cancel_order", "operations", q.mode, order_value, q.limit,
                   has_conflict).status

Propose(r, a, order_value, has_conflict) ==
    LET q == request[r]
    IN  /\ q.op = "propose" /\ actions[a] = NoValue
        /\ actions' = [actions EXCEPT ![a] =
               [tenant |-> q.tenant, status |-> Verdict(q, order_value, has_conflict)]]
        /\ request' = [request EXCEPT ![r] = NoRequest]
        /\ UNCHANGED <<workspaces, command, clock, asked>>

\* approve and reject read nothing of the workspace.
Approve(a, status) ==
    /\ actions[a] # NoValue /\ actions[a].status = "approval_required"
    /\ actions' = [actions EXCEPT ![a].status = status]
    /\ UNCHANGED <<workspaces, command, request, clock, asked>>

\* execute_action reads the capability before the action is looked up; for an
\* action of another tenant it comes to nothing.
ExecuteBegin(r, a) ==
    /\ request[r].op = "idle" /\ actions[a] # NoValue
    /\ HasCapability(actions[a].tenant, "shopify", "write")
    /\ request' = [request EXCEPT ![r] =
           [NoRequest EXCEPT !.op = "execute", !.tenant = actions[a].tenant, !.action = a]]
    /\ UNCHANGED <<workspaces, command, actions, clock, asked>>

\* ActionService calls the provider for an approved action only.
Execute(r) ==
    LET a == request[r].action
    IN  /\ request[r].op = "execute"
        /\ actions' = IF actions[a].status # "approved" THEN actions
                      ELSE [actions EXCEPT ![a].status = "provider_accepted"]
        /\ request' = [request EXCEPT ![r] = NoRequest]
        /\ UNCHANGED <<workspaces, command, clock, asked>>

\* The API process starts anew: its requests are gone.
Restart ==
    /\ request' = [r \in Requests |-> NoRequest]
    /\ UNCHANGED <<workspaces, command, actions, clock, asked>>

-----------------------------------------------------------------------------
Init ==
    /\ workspaces = [i \in Ids |-> NoValue]
    /\ command = [o \in Operators |-> Idle]
    /\ request = [r \in Requests |-> NoRequest]
    /\ actions = [a \in ActionIds |-> NoValue]
    /\ clock = 0
    /\ asked = NeverAsked

Next ==
    \/ \E o \in Operators, t \in Tenants, i \in Ids, chosen \in BOOLEAN :
           InitializeBegin(o, t, i, chosen)
    \/ \E o \in Operators, t \in Tenants, mode \in Modes : SetModeBegin(o, t, mode)
    \/ \E o \in Operators, t \in Tenants, kinds \in SUBSET ConnectorKinds \ {{}} :
           \E results \in [kinds -> BOOLEAN] : CheckConnectors(o, t, results)
    \/ \E o \in Operators :
           \/ InitializeCommit(o) \/ RecordChecksBegin(o)
           \/ RecordChecksFails(o) \/ Write(o)
    \/ \E r \in Requests, t \in Tenants, own \in Limits \cup {NoValue} :
           /\ own # NoValue => WorkspacesOf(t) # {}
           /\ ProposeBegin(r, t, own)
    \/ \E r \in Requests, a \in ActionIds :
           \/ \E value \in {OrderValue, NoValue}, conflict \in BOOLEAN :
                  Propose(r, a, value, conflict)
           \/ ExecuteBegin(r, a)
    \/ \E r \in Requests : Execute(r)
    \/ \E a \in ActionIds, status \in {"approved", "rejected"} : Approve(a, status)
    \/ Restart

Spec == Init /\ [][Next]_vars

-----------------------------------------------------------------------------
(* Properties.                                                             *)

\* Every variable has its type; a command in its transaction has a workspace.
TypeOK ==
    /\ \A i \in Ids : workspaces[i] # NoValue =>
           /\ workspaces[i].tenant \in Tenants
           /\ workspaces[i].created \in 1..MaxTime
           /\ \A f \in Fields : workspaces[i].settings[f] \in Domain(f)
    /\ \A o \in Operators :
           /\ command[o].op \in {"idle", "initialize", "checked", "write"}
           /\ command[o].op = "write" => workspaces[command[o].id] # NoValue
           /\ \A f \in DOMAIN command[o].values : command[o].values[f] \in Domain(f)
    /\ \A r \in Requests : request[r].op \in {"idle", "propose", "execute"}
    /\ \A a \in ActionIds : actions[a] # NoValue =>
           actions[a].tenant \in Tenants /\ actions[a].status \in ActionStatus

\* What the code reads of a workspace is what was last asked for, or one of
\* what was asked for by commands that overlapped: init never undoes a setting,
\* a check of one connector leaves the other alone, and no command reaches
\* another tenant.  Two concurrent inits may leave a tenant with two
\* workspaces; what was set on the one that does not count is lost, but only
\* ever to the initial values, which permit nothing.
SettingsAreAsRequested ==
    \A t \in Tenants, f \in Fields :
        \/ SettingOf(t, f) \in MayBe(t, f)
        \/ SettingOf(t, f) = Defaults[f] /\ Cardinality(WorkspacesOf(t)) > 1

\* No write without its tenant's operators: who has an action that was not
\* denied was once put into proposal mode, and an order is cancelled only
\* where a check of Shopify succeeded (the rule deny.workspace.observe_only
\* and the capability gate of execute_action).
EffectsAreGranted ==
    \A a \in ActionIds : actions[a] # NoValue /\ actions[a].status # "denied" =>
        LET t == actions[a].tenant
        IN  /\ "demo_proposal" \in asked[t]["mode"].ever
            /\ actions[a].status = "provider_accepted" => TRUE \in asked[t]["shopify"].ever

\* As SettingsAreAsRequested, for every tenant.  Two inits at a time break it:
\* created_at is the start of a transaction, so the later to commit may count.
CommandsAreNotLost ==
    \A t \in Tenants, f \in Fields : SettingOf(t, f) \in MayBe(t, f)

\* An order above the limit of its tenant is not proposed for a write: rule
\* deny.threshold.value.  After a restart the amount is not in memory, and the
\* rule passes what it does not know.
LimitIsKept ==
    [][\A a \in ActionIds :
          actions[a] = NoValue /\ actions'[a] # NoValue
          /\ actions'[a].status = "approval_required"
          => \E r \in Requests : request[r].op = "propose"
                 /\ request'[r].op = "idle" /\ ~OverLimit(OrderValue, request[r].limit)]_vars

\* docs/mvp-design.md:709, "Policy and preconditions are rechecked immediately
\* before execution."  Nothing reads the mode after the proposal.
ModeIsRecheckedAtExecution ==
    [][\A a \in ActionIds :
          actions'[a] # actions[a] /\ actions'[a].status = "provider_accepted"
          => SettingOf(actions[a].tenant, "mode") = "demo_proposal"]_vars
=============================================================================
