------------------------------ MODULE Cluster ------------------------------
(***************************************************************************)
(* The control loop of BlackArk: the deployments, apps and nodes tables of *)
(* the control plane (internal/control/server.go), the agents that poll it *)
(* (cmd/blackark-agent/main.go) and the Docker engine of each worker.      *)
(*                                                                         *)
(* A handler that is one SQL statement is one action.  A transaction       *)
(* (heartbeat, or the reconcile of deployApp) works on a private copy of   *)
(* the tables: one action begins it, one action is one iteration of a loop *)
(* of reconcile, and one commits or rolls back.  Transactions are          *)
(* serialised and nothing else moves while one runs: the copy is private   *)
(* and agents touch only their own node, so other orders add no outcome.   *)
(* The interleaving of two transactions' statements is out of this module. *)
(*                                                                         *)
(* A definition named Slip... is a plausible programming slip in the one   *)
(* that follows it; nothing refers to it.  It is what the properties are   *)
(* tried against.                                                          *)
(*                                                                         *)
(* Time is abstracted to what reconcile asks of it: who was seen later     *)
(* than whom, and who was last seen more than 30 seconds ago.              *)
(***************************************************************************)
EXTENDS Integers, FiniteSets

CONSTANTS
    Node,         \* workers
    App,          \* applications users may create
    NoNode,       \* the NULL node_id
    NoApp,
    MaxRows,      \* bound: rows ever inserted in the deployments table
    MaxReplicas,  \* bound: replicas a user asks for
    MaxOps,       \* bound: API calls of users
    MaxFaults,    \* bound: faults of the environment, all kinds together
    Faults        \* which kinds of fault happen

FaultKinds == {"lose", "abort", "abandon", "late", "crash", "stop", "docker"}

ASSUME NodeAssumption == NoNode \notin Node /\ IsFiniteSet(Node)
ASSUME AppAssumption == NoApp \notin App
ASSUME BoundsAssumption ==
    /\ MaxRows \in Nat /\ MaxReplicas \in Nat
    /\ MaxOps \in Nat /\ MaxFaults \in Nat
    /\ Faults \subseteq FaultKinds

VARIABLES
    apps,      \* rows of the apps table
    desired,   \* apps.desired_replicas
    rows,      \* the deployments table; rows are never removed from it
    health,    \* nodes.status; "absent" before the node joins
    later,     \* <<m, n>>: m.last_seen_at is after n.last_seen_at
    stale,     \* nodes whose last_seen_at is over 30 seconds ago
    calls,     \* API calls whose second database step is still to come
    tx,        \* the transaction in progress
    pc,        \* where each agent is in its loop
    inst,      \* agent.instances, the agent's memory: status per deployment
    todo,      \* the actions of the last heartbeat answer still to execute
    docker,    \* the container named blackark-<deployment> on each node
    ops,       \* API calls left
    faults     \* faults left

tables == <<apps, desired, rows, health, later, stale>>
agents == <<pc, inst, todo, docker>>
vars == <<tables, calls, tx, agents, ops, faults>>

Dep == 1..MaxRows

LiveStatus == {"pending", "running", "failed"}
Row == [status : LiveStatus \cup {"absent", "delete"},
        app : App \cup {NoApp}, node : Node \cup {NoNode}, born : Nat]
Table == [Dep -> Row]
Health == [Node -> {"absent", "healthy", "unhealthy"}]
Tx == [kind : {"none", "heartbeat", "deploy"}, hb : Node \cup {NoNode},
       work : Table, health : Health, later : SUBSET (Node \X Node),
       left : SUBSET App, app : App \cup {NoApp}, want : [App -> Nat], now : Nat]

AbsentRow == [status |-> "absent", app |-> NoApp, node |-> NoNode, born |-> 0]
NoTx == [kind |-> "none", hb |-> NoNode, work |-> [d \in Dep |-> AbsentRow],
         health |-> [n \in Node |-> "absent"], later |-> {}, left |-> {},
         app |-> NoApp, want |-> [a \in App |-> 0], now |-> 0]

Nothing == [d \in Dep |-> "none"]

TypeOK ==
    /\ apps \subseteq App
    /\ desired \in [App -> Nat]
    /\ rows \in Table
    /\ health \in Health
    /\ later \subseteq Node \X Node
    /\ stale \subseteq Node
    /\ calls \subseteq App \X {"deploy", "zero"}
    /\ tx \in Tx
    /\ pc \in [Node -> {"new", "down", "idle", "send", "act"}]
    /\ inst \in [Node -> [Dep -> {"none", "running", "failed"}]]
    /\ todo \in [Node -> [Dep -> {"none", "run", "delete"}]]
    /\ docker \in [Node -> [Dep -> {"none", "stopped", "running"}]]
    /\ ops \in Nat
    /\ faults \in Nat

Init ==
    /\ apps = {} /\ desired = [a \in App |-> 0]
    /\ rows = NoTx.work
    /\ health = NoTx.health
    /\ later = {} /\ stale = {}
    /\ calls = {} /\ tx = NoTx
    /\ pc = [n \in Node |-> "new"]
    /\ inst = [n \in Node |-> Nothing]
    /\ todo = [n \in Node |-> Nothing]
    /\ docker = [n \in Node |-> Nothing]
    /\ ops = MaxOps /\ faults = MaxFaults

Quiet == tx.kind = "none"
Fault(kind) == kind \in Faults /\ faults > 0 /\ faults' = faults - 1
UserCall == Quiet /\ ops > 0 /\ ops' = ops - 1

----------------------------------------------------------------------------
(* Queries on the deployments table t. *)

Live(t, a) == {d \in Dep : t[d].app = a /\ t[d].status \in LiveStatus}
Unassigned(t, a) ==
    {d \in Dep : t[d].app = a /\ t[d].status = "pending" /\ t[d].node = NoNode}
Load(t, n) == Cardinality({d \in Dep : t[d].node = n /\ t[d].status \in LiveStatus})
Free(t) == {d \in Dep : t[d].status = "absent"}
NextId(t) == {d \in Free(t) : \A e \in Free(t) : d <= e} \* ids in order of use

\* now() of the next transaction, later than the created_at of every row: the
\* rows one transaction inserts share their created_at.
Now(t) == 1 + Cardinality({t[d].born : d \in {e \in Dep : t[e].status # "absent"}})

\* ORDER BY created_at leaves rows of one transaction in any order.
Oldest(t, D) == {d \in D : \A e \in D : t[d].born <= t[e].born}
Newest(t, D, k) ==
    {T \in SUBSET D : /\ Cardinality(T) = k
                      /\ \A d \in T, e \in D \ T : t[d].born >= t[e].born}

\* The healthy node with the fewest live rows; of those, the one seen last.
LeastLoaded(t, h, l) ==
    {n \in Node : /\ h[n] = "healthy"
                  /\ \A m \in Node : h[m] = "healthy" =>
                       \/ Load(t, n) < Load(t, m)
                       \/ Load(t, n) = Load(t, m) /\ <<m, n>> \notin l}

----------------------------------------------------------------------------
(* The API: statements outside any transaction. *)

\* Node n exchanges its join token for a row of the nodes table; agents of
\* other nodes hear nothing of it, and no reconcile runs.
Touch(n) == {p \in later : p[2] # n /\ p[1] # n} \cup
            {<<n, m>> : m \in {m \in Node \ {n} : health[m] # "absent"}}

Join(n) ==
    /\ Quiet /\ pc[n] = "new"
    /\ health' = [health EXCEPT ![n] = "healthy"]
    /\ later' = Touch(n)
    /\ pc' = [pc EXCEPT ![n] = "idle"]
    /\ UNCHANGED <<apps, desired, rows, stale, calls, tx, inst, todo, docker, ops, faults>>

CreateApp(a, k) ==
    /\ UserCall /\ a \notin apps
    /\ apps' = apps \cup {a}
    /\ desired' = [desired EXCEPT ![a] = k]
    /\ UNCHANGED <<rows, health, later, stale, calls, tx, agents, faults>>

\* The first statement commits on its own; deployApp follows.
ScaleApp(a, k) ==
    /\ UserCall /\ a \in apps
    /\ desired' = [desired EXCEPT ![a] = k]
    /\ calls' = calls \cup {<<a, "deploy">>}
    /\ UNCHANGED <<apps, rows, health, later, stale, tx, agents, faults>>

\* POST deploy and POST restart are the same handler.
DeployApp(a) ==
    /\ UserCall /\ a \in apps
    /\ calls' = calls \cup {<<a, "deploy">>}
    /\ UNCHANGED <<tables, tx, agents, faults>>

\* The rows are marked first, the replicas zeroed by a second statement.
DeleteApp(a) ==
    /\ UserCall /\ a \in apps
    /\ rows' = [d \in Dep |-> IF rows[d].app = a
                              THEN [rows[d] EXCEPT !.status = "delete"] ELSE rows[d]]
    /\ calls' = calls \cup {<<a, "zero">>}
    /\ UNCHANGED <<apps, desired, health, later, stale, tx, agents, faults>>

DeleteAppZero(a) ==
    /\ Quiet /\ <<a, "zero">> \in calls
    /\ desired' = [desired EXCEPT ![a] = 0]
    /\ calls' = calls \ {<<a, "zero">>}
    /\ UNCHANGED <<apps, rows, health, later, stale, tx, agents, ops, faults>>

\* The caller disconnects, the statement fails or the control plane dies: the
\* step still to come of call c never happens.
AbandonCall(c) ==
    /\ Quiet /\ Fault("abandon")
    /\ calls' = calls \ {c}
    /\ UNCHANGED <<tables, tx, agents, ops>>

----------------------------------------------------------------------------
(* Transactions. *)

SlipReportedAnyNode(n) ==
    [d \in Dep |-> IF inst[n][d] # "none"
                   THEN [rows[d] EXCEPT !.status = inst[n][d]] ELSE rows[d]]
\* The heartbeat of node n updates the rows of its own instances, whatever
\* their status was.
Reported(n) ==
    [d \in Dep |-> IF rows[d].node = n /\ inst[n][d] # "none"
                   THEN [rows[d] EXCEPT !.status = inst[n][d]] ELSE rows[d]]

\* reconcile up to its loop over the apps: nodes over the 30 seconds are marked
\* unhealthy, and their running and pending rows lose their node.
MarkUnhealthy(h, s) ==
    [n \in Node |-> IF h[n] = "healthy" /\ n \in s THEN "unhealthy" ELSE h[n]]
SlipUnassign(t, h) ==
    [d \in Dep |-> IF t[d].node # NoNode /\ h[t[d].node] # "healthy"
                   THEN [t[d] EXCEPT !.status = "pending", !.node = NoNode]
                   ELSE t[d]]
Unassign(t, h) ==
    [d \in Dep |-> IF /\ t[d].status \in {"running", "pending"}
                      /\ t[d].node # NoNode
                      /\ h[t[d].node] # "healthy"
                   THEN [t[d] EXCEPT !.status = "pending", !.node = NoNode]
                   ELSE t[d]]

Begin(kind, n, t, h, l, s) ==
    LET marked == MarkUnhealthy(h, s)
    IN [kind |-> kind, hb |-> n, work |-> Unassign(t, marked), health |-> marked,
        later |-> l, left |-> apps, app |-> NoApp, want |-> desired, now |-> Now(t)]

BeginHeartbeat(n) ==
    /\ Quiet /\ pc[n] = "send"
    /\ tx' = Begin("heartbeat", n, Reported(n), [health EXCEPT ![n] = "healthy"],
                   Touch(n), stale \ {n})
    /\ UNCHANGED <<tables, calls, agents, ops, faults>>

BeginDeploy(a) ==
    /\ Quiet /\ <<a, "deploy">> \in calls
    /\ tx' = Begin("deploy", NoNode, rows, health, later, stale)
    /\ calls' = calls \ {<<a, "deploy">>}
    /\ UNCHANGED <<tables, agents, ops, faults>>

\* SELECT id, desired_replicas FROM apps has no order.
NextApp(a) ==
    /\ tx.app = NoApp /\ a \in tx.left
    /\ tx' = [tx EXCEPT !.app = a, !.left = tx.left \ {a}]
    /\ UNCHANGED <<tables, calls, agents, ops, faults>>

Placed == \* nothing more to place: no row waits, or no node is healthy
    \/ Unassigned(tx.work, tx.app) = {}
    \/ LeastLoaded(tx.work, tx.health, tx.later) = {}

AssignRow ==
    /\ tx.app # NoApp
    /\ \E d \in Oldest(tx.work, Unassigned(tx.work, tx.app)),
          n \in LeastLoaded(tx.work, tx.health, tx.later) :
            tx' = [tx EXCEPT !.work[d].node = n]
    /\ UNCHANGED <<tables, calls, agents, ops, faults>>

SlipMissing == Cardinality(Live(tx.work, tx.app)) + 1 < tx.want[tx.app]
Missing == Cardinality(Live(tx.work, tx.app)) < tx.want[tx.app]

InsertRow ==
    /\ tx.app # NoApp /\ Placed /\ Missing
    /\ \E n \in LeastLoaded(tx.work, tx.health, tx.later), d \in NextId(tx.work) :
         tx' = [tx EXCEPT !.work[d] = [status |-> "pending", app |-> tx.app,
                                       node |-> n, born |-> tx.now]]
    /\ UNCHANGED <<tables, calls, agents, ops, faults>>

SlipSurplus(t, a, k) ==
    LET excess == Cardinality(Live(t, a)) - k
    IN IF excess > 1 THEN Newest(t, Live(t, a), excess - 1) ELSE {{}}
\* The last statement for an app marks its newest surplus rows.
Surplus(t, a, k) ==
    LET excess == Cardinality(Live(t, a)) - k
    IN IF excess > 0 THEN Newest(t, Live(t, a), excess) ELSE {{}}

TrimRows ==
    /\ tx.app # NoApp /\ Placed
    /\ ~Missing \/ LeastLoaded(tx.work, tx.health, tx.later) = {}
    /\ \E T \in Surplus(tx.work, tx.app, tx.want[tx.app]) :
         tx' = [tx EXCEPT !.work = [d \in Dep |-> IF d \in T
                                      THEN [tx.work[d] EXCEPT !.status = "delete"]
                                      ELSE tx.work[d]],
                          !.app = NoApp]
    /\ UNCHANGED <<tables, calls, agents, ops, faults>>

Reconciled == ~Quiet /\ tx.app = NoApp /\ tx.left = {}

Install ==
    /\ rows' = tx.work /\ health' = tx.health /\ later' = tx.later
    /\ tx' = NoTx

SlipActions(t, n) ==
    [d \in Dep |-> CASE t[d].status = "pending" -> "run"
                     [] t[d].status = "delete" -> "delete"
                     [] OTHER -> "none"]
\* The actions of a heartbeat's answer: node n's rows that are pending or to
\* delete, selected after reconcile in the same transaction.
Actions(t, n) ==
    [d \in Dep |-> CASE t[d].node = n /\ t[d].status = "pending" -> "run"
                     [] t[d].node = n /\ t[d].status = "delete" -> "delete"
                     [] OTHER -> "none"]

Receive(n, actions) ==
    /\ todo' = [todo EXCEPT ![n] = actions]
    /\ pc' = [pc EXCEPT ![n] = IF actions = Nothing THEN "idle" ELSE "act"]

\* The answer reaches the agent, or the agent's request times out after the
\* commit and the actions are lost.
CommitHeartbeat(n) ==
    /\ Reconciled /\ tx.kind = "heartbeat" /\ tx.hb = n
    /\ Install
    /\ stale' = stale \ {n}
    /\ \/ Receive(n, Actions(tx.work, n)) /\ UNCHANGED faults
       \/ Receive(n, Nothing) /\ Fault("lose")
    /\ UNCHANGED <<apps, desired, calls, inst, docker, ops>>

CommitDeploy ==
    /\ Reconciled /\ tx.kind = "deploy"
    /\ Install
    /\ UNCHANGED <<apps, desired, stale, calls, agents, ops, faults>>

\* A statement fails or the request is cancelled: nothing is installed, and a
\* heartbeating agent gets no actions.
Rollback ==
    /\ ~Quiet /\ Fault("abort")
    /\ tx' = NoTx
    /\ pc' = [n \in Node |-> IF n = tx.hb THEN "idle" ELSE pc[n]]
    /\ UNCHANGED <<tables, calls, inst, todo, docker, ops>>

----------------------------------------------------------------------------
(* The agent: refresh, heartbeat, then the actions one after the other. *)

Kept(n) == {d \in Dep : inst[n][d] # "none" /\ docker[n][d] # "none"}

\* Every instance is inspected; one not running is started again.  An error
\* of either call makes it failed, whether or not the start took effect, and a
\* failed instance whose container runs keeps that status.  One whose answer is
\* cut off is passed over: nothing becomes of it or of its container.
Refresh(n) ==
    /\ Quiet /\ pc[n] = "idle"
    /\ \E bad \in SUBSET Kept(n), off \in SUBSET Kept(n) : \* in error; left as they were
         /\ IF bad \cup off = {} THEN UNCHANGED faults ELSE Fault("docker")
         /\ inst' = [inst EXCEPT ![n] =
              [d \in Dep |-> CASE inst[n][d] = "none" -> "none"
                               [] d \in bad \/ docker[n][d] = "none" -> "failed"
                               [] d \notin off /\ docker[n][d] = "stopped" -> "running"
                               [] OTHER -> inst[n][d]]]
         /\ docker' = [docker EXCEPT ![n] =
              [d \in Dep |-> IF inst[n][d] # "none" /\ d \notin off /\ docker[n][d] = "stopped"
                             THEN "running" ELSE docker[n][d]]]
    /\ pc' = [pc EXCEPT ![n] = "send"]
    /\ UNCHANGED <<tables, calls, tx, todo, ops>>

\* Actions are executed in the order of created_at; an error is only logged.
Current(n, d) ==
    /\ Quiet /\ pc[n] = "act"
    /\ d \in Oldest(rows, {e \in Dep : todo[n][e] # "none"})

Done(n, d) == Receive(n, [todo[n] EXCEPT ![d] = "none"])

SlipRun(n, d) == \* forgets to record the instance
    /\ Current(n, d) /\ todo[n][d] = "run"
    /\ docker' = [docker EXCEPT ![n][d] = "running"]
    /\ Done(n, d)
    /\ UNCHANGED <<tables, calls, tx, inst, ops, faults>>
Run(n, d) ==
    /\ Current(n, d) /\ todo[n][d] = "run"
    /\ IF inst[n][d] = "running" \/ docker[n][d] # "none"
       THEN UNCHANGED <<inst, docker>> \* already running, or the name is taken
       ELSE /\ docker' = [docker EXCEPT ![n][d] = "running"]
            /\ inst' = [inst EXCEPT ![n][d] = "running"]
    /\ Done(n, d)
    /\ UNCHANGED <<tables, calls, tx, ops, faults>>

\* A Docker call fails or times out: before the container is created, after
\* it, or after it was started.  The agent records no instance.
RunFails(n, d) ==
    /\ Current(n, d) /\ todo[n][d] = "run"
    /\ inst[n][d] # "running" /\ docker[n][d] = "none"
    /\ Fault("docker")
    /\ \E state \in {"none", "stopped", "running"} :
         docker' = [docker EXCEPT ![n][d] = state]
    /\ Done(n, d)
    /\ UNCHANGED <<tables, calls, tx, inst, ops>>

SlipRemove(n, d) == \* without force, Docker keeps a running container
    /\ Current(n, d) /\ todo[n][d] = "delete"
    /\ IF inst[n][d] = "none" \/ docker[n][d] # "stopped"
       THEN UNCHANGED <<inst, docker>>
       ELSE /\ docker' = [docker EXCEPT ![n][d] = "none"]
            /\ inst' = [inst EXCEPT ![n][d] = "none"]
    /\ Done(n, d)
    /\ UNCHANGED <<tables, calls, tx, ops, faults>>
\* An agent that does not remember the deployment reports success.  Docker
\* answers 404 for a container that is gone, and the entry then stays.
Remove(n, d) ==
    /\ Current(n, d) /\ todo[n][d] = "delete"
    /\ IF inst[n][d] = "none" \/ docker[n][d] = "none"
       THEN UNCHANGED <<inst, docker>>
       ELSE /\ docker' = [docker EXCEPT ![n][d] = "none"]
            /\ inst' = [inst EXCEPT ![n][d] = "none"]
    /\ Done(n, d)
    /\ UNCHANGED <<tables, calls, tx, ops, faults>>

\* The call fails, with or without having removed the container.
RemoveFails(n, d) ==
    /\ Current(n, d) /\ todo[n][d] = "delete" /\ inst[n][d] # "none"
    /\ Fault("docker")
    /\ \E state \in {"none", docker[n][d]} : docker' = [docker EXCEPT ![n][d] = state]
    /\ Done(n, d)
    /\ UNCHANGED <<tables, calls, tx, inst, ops>>

----------------------------------------------------------------------------
(* The environment. *)

\* The agent's memory dies with it; containers do not.
Crash(n) ==
    /\ Quiet /\ pc[n] \in {"idle", "send", "act"} /\ Fault("crash")
    /\ pc' = [pc EXCEPT ![n] = "down"]
    /\ inst' = [inst EXCEPT ![n] = Nothing]
    /\ todo' = [todo EXCEPT ![n] = Nothing]
    /\ UNCHANGED <<tables, calls, tx, docker, ops>>

Start(n) ==
    /\ Quiet /\ pc[n] = "down"
    /\ pc' = [pc EXCEPT ![n] = "idle"]
    /\ UNCHANGED <<tables, calls, tx, inst, todo, docker, ops, faults>>

ContainerStops(n, d) ==
    /\ Quiet /\ docker[n][d] = "running" /\ Fault("stop")
    /\ docker' = [docker EXCEPT ![n][d] = "stopped"]
    /\ UNCHANGED <<tables, calls, tx, pc, inst, todo, ops>>

\* Thirty seconds pass since the last heartbeat of n; everyone seen earlier
\* has passed them already.  To a live agent this happens when its loop or the
\* control plane is held up: an image pull alone may take two minutes.
Expire(n) ==
    /\ Quiet /\ health[n] # "absent" /\ n \notin stale
    /\ \A m \in Node : <<n, m>> \in later => m \in stale
    /\ IF pc[n] = "down" THEN UNCHANGED faults ELSE Fault("late")
    /\ stale' = stale \cup {n}
    /\ UNCHANGED <<apps, desired, rows, health, later, calls, tx, agents, ops>>

----------------------------------------------------------------------------
Replicas == 0..MaxReplicas

Transaction ==
    \/ \E a \in App : NextApp(a)
    \/ AssignRow \/ InsertRow \/ TrimRows
    \/ \E n \in Node : CommitHeartbeat(n)
    \/ CommitDeploy

\* One agent process is at one place: at most one of these is enabled, faults
\* apart.
Agent(n) ==
    \/ Join(n) \/ Refresh(n) \/ BeginHeartbeat(n)
    \/ \E d \in Dep : Run(n, d) \/ RunFails(n, d) \/ Remove(n, d) \/ RemoveFails(n, d)

Call(a) == BeginDeploy(a) \/ DeleteAppZero(a)

Users ==
    \E a \in App :
        \/ \E k \in Replicas : CreateApp(a, k) \/ ScaleApp(a, k)
        \/ DeployApp(a) \/ DeleteApp(a)

Environment ==
    \/ Rollback
    \/ \E c \in calls : AbandonCall(c)
    \/ \E n \in Node : Crash(n) \/ Expire(n)
    \/ \E n \in Node, d \in Dep : ContainerStops(n, d)

Next ==
    \/ Transaction \/ Users \/ Environment
    \/ \E n \in Node : Agent(n) \/ Start(n)
    \/ \E a \in App : Call(a)

Spec == Init /\ [][Next]_vars

\* The agent loops every five seconds and requests are served.  Strong fairness,
\* since transactions take turns.
Working ==
    /\ WF_vars(Transaction)
    /\ \A n \in Node : SF_vars(Agent(n))
    /\ \A a \in App : SF_vars(Call(a))

\* systemd restarts an agent that stops: no worker is lost for good.
FairSpec == Spec /\ Working /\ \A n \in Node : SF_vars(Start(n))

\* A worker may be lost for good, and then its last heartbeat gets old.
LossSpec == Spec /\ Working /\ \A n \in Node : SF_vars(pc[n] = "down" /\ Expire(n))

----------------------------------------------------------------------------
(* Properties. *)

\* What keeps the properties below true, as an inductive invariant: an agent
\* that is not acting owes nothing; what it is about to report as running
\* exists; and the private copy of a transaction in progress already agrees
\* with all that the committed rows promise the agents.
Orders == \A n \in Node : pc[n] # "act" => todo[n] = Nothing
Accurate ==
    \A n \in Node, d \in Dep :
        pc[n] = "send" /\ inst[n][d] = "running" => docker[n][d] # "none"

Condemned(t) ==
    \A n \in Node, d \in Dep :
        todo[n][d] = "delete" => t[d].status = "delete" /\ t[d].node = n
Backed(t) ==
    \A n \in Node, d \in Dep :
        t[d].status = "running" /\ t[d].node = n => docker[n][d] # "none"
Dead(n, d) ==
    /\ rows[d].status = "delete" /\ rows[d].node = n
    /\ inst[n][d] = "none" /\ todo[n][d] # "run"

Sender == tx.hb \in Node => tx.kind = "heartbeat" /\ pc[tx.hb] = "send"
CopyAgrees ==
    tx.kind # "none" =>
        /\ Condemned(tx.work) /\ Backed(tx.work)
        /\ \A n \in Node, d \in Dep : Dead(n, d) => tx.work[d].status = "delete"

Inv ==
    /\ TypeOK
    /\ Orders /\ Accurate /\ Condemned(rows) /\ Backed(rows)
    /\ Sender /\ CopyAgrees

\* What an agent is told to remove is condemned for as long as the order is
\* outstanding: the row of every outstanding delete action is marked 'delete'
\* and belongs to that agent's node.  Reports revive deleted rows (heartbeat),
\* reconcile moves rows between nodes, and agents act on answers that may be
\* old; none of it withdraws an order under way.
CondemnedOnly == Condemned(rows)

\* A row the API shows as running has a container on the node it names, across
\* agent crashes, lost answers, failed Docker calls and reassignments.
NoPhantom == Backed(rows)

\* A step that makes a container disappear removes one whose row is marked
\* 'delete' on that very node: never the replica a live row counts on.
RemovalSafe ==
    [][\A n \in Node, d \in Dep :
         docker[n][d] # "none" /\ docker'[n][d] = "none" =>
           rows[d].status = "delete" /\ rows[d].node = n]_vars

\* Deletion is final once the node is done with it: a row marked 'delete' whose
\* agent has neither an instance nor an order to run it is never live again.
\* (While the agent still has the instance, its report does revive the row.)
DeadStayDead ==
    [][\A n \in Node, d \in Dep : Dead(n, d) => rows'[d].status = "delete"]_vars

\* What a reconcile that commits leaves behind: every app has exactly the live
\* rows it asked for, all placed, unless no node is healthy, when it has at
\* most that many; and no pending or running row sits on an unhealthy node.
ReconcilePromise ==
    Reconciled =>
      LET up == \E n \in Node : tx.health[n] = "healthy"
      IN /\ \A a \in apps :
              /\ Cardinality(Live(tx.work, a)) <= tx.want[a]
              /\ up => /\ Cardinality(Live(tx.work, a)) = tx.want[a]
                       /\ Unassigned(tx.work, a) = {}
         /\ \A d \in Dep :
              tx.work[d].status \in {"pending", "running"} /\ tx.work[d].node # NoNode =>
                tx.health[tx.work[d].node] = "healthy"

\* As long as no node is taken for dead, a deployment is started on no node but
\* its own.
OneHome ==
    \A n \in Node, d \in Dep : docker[n][d] # "none" => rows[d].node = n

Containers(a) ==
    {c \in Node \X Dep : rows[c[2]].app = a /\ docker[c[1]][c[2]] # "none"}
Running(a) == {c \in Containers(a) : docker[c[1]][c[2]] = "running"}

\* Every app ends up with at least the running containers it asks for.
Served == \A a \in App : <>[](Cardinality(Running(a)) >= desired[a])


\* An app scaled to zero or deleted ends up without containers.
Emptied == \A a \in App : <>[](desired[a] = 0) => <>[](Containers(a) = {})

\* A pending row does not stay pending while its node keeps its heartbeats.
PendingEnds ==
    \A d \in Dep : rows[d].status = "pending" ~> rows[d].status # "pending"

\* Every app ends up with exactly the running containers it asks for.
Settled == \A a \in App : <>[](Cardinality(Running(a)) = desired[a])
=============================================================================
