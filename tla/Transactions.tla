---------------------------- MODULE Transactions ----------------------------
(***************************************************************************)
(* Heartbeats and deploys of BlackArk that overlap (internal/control/      *)
(* server.go: heartbeat, deployApp, reconcile): transactions of PostgreSQL *)
(* at READ COMMITTED, statement by statement and row lock by row lock.     *)
(*                                                                         *)
(* A statement sees what was committed when it starts, and what its own    *)
(* transaction wrote.  An UPDATE waits for a row another transaction       *)
(* wrote; when that one ends, it tests its WHERE on the row as committed   *)
(* by then.  A transaction in a cycle of waits is rolled back.  Where the  *)
(* test can only become false between the start of a statement and its     *)
(* lock, both are one step; where it cannot, tx[t].left holds what the     *)
(* statement found when it started.                                        *)
(*                                                                         *)
(* Cluster has the same handlers with transactions one after the other,    *)
(* and all the rest: here there is one app, placement is any healthy node, *)
(* reports say 'running', and an agent executes its actions at once.       *)
(* Definitions named Slip... are plausible slips in those that follow.     *)
(***************************************************************************)
EXTENDS Integers, FiniteSets

CONSTANTS
    Node,         \* workers; a worker has one heartbeat under way at most
    Caller,       \* requests of users to deploy
    NoNode,       \* the NULL node_id
    NoSession,
    MaxRows,      \* bound: rows ever inserted
    MaxReplicas,  \* bound: replicas a user asks for
    MaxTx,        \* bound: transactions begun
    MaxScales,    \* bound: changes of the desired replicas
    MaxLate       \* bound: times a node is unseen for 30 seconds

Session == Node \cup Caller

ASSUME SessionAssumption ==
    /\ NoNode \notin Node /\ NoSession \notin Session /\ Node \cap Caller = {}
ASSUME BoundsAssumption ==
    /\ MaxRows \in Nat /\ MaxReplicas \in Nat
    /\ MaxTx \in Nat /\ MaxScales \in Nat /\ MaxLate \in Nat

VARIABLES
    desired,   \* apps.desired_replicas
    rows,      \* the deployments table, as committed
    health,    \* nodes.status, as committed
    stale,     \* nodes last seen over 30 seconds ago
    newRows,   \* latest version of each row, committed or not
    newHealth, \* latest version of each node
    owner,     \* session whose transaction has written the row
    nodeOwner, \* session whose transaction has written the node
    tx,        \* the transaction of each session
    inst,      \* deployments each agent has a container of
    begun, scales, lates \* towards the bounds

committed == <<rows, health, stale>>
written == <<newRows, newHealth, owner, nodeOwner>>
budgets == <<begun, scales, lates>>
vars == <<desired, committed, written, tx, inst, budgets>>

Dep == 1..MaxRows
Replicas == 0..MaxReplicas
LiveStatus == {"pending", "running"}
Row == [status : LiveStatus \cup {"absent", "delete"}, node : Node \cup {NoNode},
        born : Nat]
AbsentRow == [status |-> "absent", node |-> NoNode, born |-> 0]

\* at: the statement a session is at; left: what is left of its rows; pick: the
\* node chosen for the next one; down: unhealthy nodes that UPDATE joined with;
\* old: nodes not seen in the 30 seconds before now(); born: order of now();
\* alone: history, no other transaction was open at any time of this one.
Tx == [at : {"idle", "touch", "report", "mark", "unassign", "pending", "assign",
             "insert", "trim", "commit"},
       left : SUBSET Dep, pick : Node \cup {NoNode}, down : SUBSET Node,
       old : SUBSET Node, want : Nat, count : Nat, born : Nat, alone : BOOLEAN]
NoTx == [at |-> "idle", left |-> {}, pick |-> NoNode, down |-> {}, old |-> {},
         want |-> 0, count |-> 0, born |-> 0, alone |-> FALSE]

TypeOK ==
    /\ desired \in Nat
    /\ rows \in [Dep -> Row] /\ newRows \in [Dep -> Row]
    /\ health \in [Node -> {"healthy", "unhealthy"}]
    /\ newHealth \in [Node -> {"healthy", "unhealthy"}]
    /\ stale \subseteq Node
    /\ owner \in [Dep -> Session \cup {NoSession}]
    /\ nodeOwner \in [Node -> Session \cup {NoSession}]
    /\ tx \in [Session -> Tx]
    /\ inst \in [Node -> SUBSET Dep]
    /\ begun \in Nat /\ scales \in Nat /\ lates \in Nat

\* Workers have joined and an app has been created, with no rows yet.
Init ==
    /\ desired \in Replicas
    /\ rows = [d \in Dep |-> AbsentRow] /\ newRows = rows
    /\ health = [n \in Node |-> "healthy"] /\ newHealth = health
    /\ stale = {}
    /\ owner = [d \in Dep |-> NoSession] /\ nodeOwner = [n \in Node |-> NoSession]
    /\ tx = [t \in Session |-> NoTx]
    /\ inst = [n \in Node |-> {}]
    /\ begun = 0 /\ scales = 0 /\ lates = 0

----------------------------------------------------------------------------
(* What a session sees and may write. *)

View(t) == [d \in Dep |-> IF owner[d] = t THEN newRows[d] ELSE rows[d]]
Up(t) == {n \in Node : IF nodeOwner[n] = t THEN newHealth[n] = "healthy"
                                           ELSE health[n] = "healthy"}

Live(v) == {d \in Dep : v[d].status \in LiveStatus}
Newest(v, k) == \* ORDER BY created_at DESC LIMIT k
    {T \in SUBSET Live(v) :
        /\ Cardinality(T) = IF k < Cardinality(Live(v)) THEN k ELSE Cardinality(Live(v))
        /\ \A d \in T, e \in Live(v) \ T : v[d].born >= v[e].born}

Writable(t, d) == owner[d] \in {t, NoSession}
Write(t, d, row) ==
    /\ newRows' = [newRows EXCEPT ![d] = row]
    /\ owner' = [owner EXCEPT ![d] = t]

Step(t, change) ==
    /\ tx' = [tx EXCEPT ![t] = change]
    /\ UNCHANGED <<desired, committed, inst, budgets>>

----------------------------------------------------------------------------
Begin(t) ==
    /\ tx[t].at = "idle" /\ begun < MaxTx
    /\ begun' = begun + 1
    /\ tx' = [u \in Session |->
                IF u = t
                THEN [NoTx EXCEPT !.at = IF t \in Node THEN "touch" ELSE "mark",
                                  !.old = stale \ {t}, !.born = begun',
                                  !.alone = \A s \in Session : tx[s].at = "idle"]
                ELSE [tx[u] EXCEPT !.alone = FALSE]]
    /\ UNCHANGED <<desired, committed, written, inst, scales, lates>>

AfterReports(left) == IF left = {} THEN "mark" ELSE "report"

\* UPDATE nodes ... WHERE id=$1
Touch(n) ==
    /\ tx[n].at = "touch" /\ nodeOwner[n] = NoSession
    /\ newHealth' = [newHealth EXCEPT ![n] = "healthy"]
    /\ nodeOwner' = [nodeOwner EXCEPT ![n] = n]
    /\ Step(n, [tx[n] EXCEPT !.at = AfterReports(inst[n]), !.left = inst[n]])
    /\ UNCHANGED <<newRows, owner>>

\* UPDATE deployments ... WHERE id=$1 AND node_id=$4, once per instance.
Report(n) ==
    /\ tx[n].at = "report"
    /\ \E d \in tx[n].left :
         LET left == tx[n].left \ {d}
         IN /\ \/ rows[d].node # n /\ UNCHANGED written
               \/ /\ rows[d].node = n /\ owner[d] = NoSession
                  /\ Write(n, d, [rows[d] EXCEPT !.status = "running"])
                  /\ UNCHANGED <<newHealth, nodeOwner>>
            /\ Step(n, [tx[n] EXCEPT !.at = AfterReports(left), !.left = left])

\* UPDATE nodes SET status='unhealthy' WHERE last_seen_at is old AND healthy
Overdue(t) == Up(t) \cap tx[t].old

MarkUnhealthy(t) ==
    /\ tx[t].at = "mark"
    /\ \E m \in Overdue(t) :
         /\ nodeOwner[m] = NoSession
         /\ newHealth' = [newHealth EXCEPT ![m] = "unhealthy"]
         /\ nodeOwner' = [nodeOwner EXCEPT ![m] = t]
    /\ Step(t, tx[t])
    /\ UNCHANGED <<newRows, owner>>

\* UPDATE deployments SET status='pending',node_id=NULL WHERE status ... AND
\* node_id IN (unhealthy nodes): it starts, and goes over its rows.
StartUnassign(t) ==
    /\ tx[t].at = "mark" /\ Overdue(t) = {}
    /\ LET down == Node \ Up(t)
       IN Step(t, [tx[t] EXCEPT !.at = "unassign", !.down = down, !.old = {},
                     !.left = {d \in Live(View(t)) : View(t)[d].node \in down}])
    /\ UNCHANGED written

Unassign(t) ==
    /\ tx[t].at = "unassign"
    /\ \E d \in tx[t].left :
         /\ Writable(t, d)
         /\ IF d \in Live(View(t)) /\ View(t)[d].node \in tx[t].down
            THEN Write(t, d, [View(t)[d] EXCEPT !.status = "pending", !.node = NoNode])
            ELSE UNCHANGED <<newRows, owner>>
         /\ Step(t, [tx[t] EXCEPT !.left = tx[t].left \ {d}])
    /\ UNCHANGED <<newHealth, nodeOwner>>

\* SELECT id,desired_replicas FROM apps
ReadApps(t) ==
    /\ tx[t].at = "unassign" /\ tx[t].left = {}
    /\ Step(t, [tx[t] EXCEPT !.at = "pending", !.down = {}, !.want = desired])
    /\ UNCHANGED written

SlipReadPending(t) == \* forgets node_id IS NULL
    /\ tx[t].at = "pending"
    /\ Step(t, [tx[t] EXCEPT !.at = "assign",
                  !.left = {d \in Dep : View(t)[d].status = "pending"}])
    /\ UNCHANGED written
\* SELECT id FROM deployments WHERE ... status='pending' AND node_id IS NULL
ReadPending(t) ==
    /\ tx[t].at = "pending"
    /\ Step(t, [tx[t] EXCEPT !.at = "assign",
                  !.left = {d \in Dep : /\ View(t)[d].status = "pending"
                                        /\ View(t)[d].node = NoNode}])
    /\ UNCHANGED written

\* SELECT n.id FROM nodes ... LIMIT 1, before an assignment or an insertion.
Placing(t) ==
    \/ tx[t].at = "assign" /\ tx[t].left # {}
    \/ tx[t].at = "insert" /\ tx[t].count < tx[t].want

Choose(t) ==
    /\ Placing(t) /\ tx[t].pick = NoNode
    /\ \E n \in Up(t) : Step(t, [tx[t] EXCEPT !.pick = n])
    /\ UNCHANGED written

\* UPDATE deployments SET node_id=$2 WHERE id=$1, whatever the row is by then.
Assign(t) ==
    /\ tx[t].at = "assign" /\ tx[t].pick # NoNode
    /\ \E d \in tx[t].left :
         /\ \A e \in tx[t].left : rows[d].born <= rows[e].born
         /\ Writable(t, d)
         /\ Write(t, d, [View(t)[d] EXCEPT !.node = tx[t].pick])
         /\ Step(t, [tx[t] EXCEPT !.left = tx[t].left \ {d}, !.pick = NoNode])
    /\ UNCHANGED <<newHealth, nodeOwner>>

SlipCount(t) == \* counts what runs only
    /\ tx[t].at = "assign" /\ tx[t].pick = NoNode
    /\ tx[t].left = {} \/ Up(t) = {}
    /\ Step(t, [tx[t] EXCEPT !.at = "insert", !.left = {},
         !.count = Cardinality({d \in Dep : View(t)[d].status = "running"})])
    /\ UNCHANGED written
\* SELECT count(*) FROM deployments
Count(t) ==
    /\ tx[t].at = "assign" /\ tx[t].pick = NoNode
    /\ tx[t].left = {} \/ Up(t) = {}
    /\ Step(t, [tx[t] EXCEPT !.at = "insert", !.left = {},
                  !.count = Cardinality(Live(View(t)))])
    /\ UNCHANGED written

Unused == {d \in Dep : newRows[d] = AbsentRow}

Insert(t) ==
    /\ tx[t].at = "insert" /\ tx[t].pick # NoNode
    /\ \E d \in Unused :
         /\ \A e \in Unused : d <= e
         /\ Write(t, d, [status |-> "pending", node |-> tx[t].pick, born |-> tx[t].born])
    /\ Step(t, [tx[t] EXCEPT !.count = @ + 1, !.pick = NoNode])
    /\ UNCHANGED <<newHealth, nodeOwner>>

\* UPDATE deployments SET status='delete' WHERE id IN (the newest): its rows are
\* those of its start.
StartTrim(t) ==
    /\ tx[t].at = "insert" /\ tx[t].pick = NoNode
    /\ tx[t].count >= tx[t].want \/ Up(t) = {}
    /\ IF tx[t].count > tx[t].want
       THEN \E T \in Newest(View(t), tx[t].count - tx[t].want) :
              Step(t, [tx[t] EXCEPT !.at = "trim", !.left = T])
       ELSE Step(t, [tx[t] EXCEPT !.at = "commit"])
    /\ UNCHANGED written

SlipTrim(t) ==
    /\ tx[t].at = "trim"
    /\ \/ \E d \in tx[t].left :
            /\ Writable(t, d)
            /\ Write(t, d, [View(t)[d] EXCEPT !.status = "deleted"])
            /\ Step(t, [tx[t] EXCEPT !.left = tx[t].left \ {d}])
       \/ /\ tx[t].left = {} /\ UNCHANGED <<newRows, owner>>
          /\ Step(t, [tx[t] EXCEPT !.at = "commit"])
    /\ UNCHANGED <<newHealth, nodeOwner>>
Trim(t) ==
    /\ tx[t].at = "trim"
    /\ \/ \E d \in tx[t].left :
            /\ Writable(t, d)
            /\ Write(t, d, [View(t)[d] EXCEPT !.status = "delete"])
            /\ Step(t, [tx[t] EXCEPT !.left = tx[t].left \ {d}])
       \/ /\ tx[t].left = {} /\ UNCHANGED <<newRows, owner>>
          /\ Step(t, [tx[t] EXCEPT !.at = "commit"])
    /\ UNCHANGED <<newHealth, nodeOwner>>

----------------------------------------------------------------------------
(* The end of a transaction. *)

Release(t) ==
    /\ owner' = [d \in Dep |-> IF owner[d] = t THEN NoSession ELSE owner[d]]
    /\ nodeOwner' = [n \in Node |-> IF nodeOwner[n] = t THEN NoSession ELSE nodeOwner[n]]

SlipEnded(t) == \* goes by what it read first
    [tx EXCEPT ![t] = NoTx]
\* Whoever is still at work sees from now on that t was seen.
Ended(t) ==
    [u \in Session |-> IF u = t THEN NoTx ELSE [tx[u] EXCEPT !.old = @ \ {t}]]

Executed(n, v) ==
    (inst[n] \cup {d \in Dep : v[d].node = n /\ v[d].status = "pending"})
        \ {d \in Dep : v[d].node = n /\ v[d].status = "delete"}

Commit(t) ==
    /\ tx[t].at = "commit"
    /\ rows' = View(t)
    /\ health' = [n \in Node |-> IF nodeOwner[n] = t THEN newHealth[n] ELSE health[n]]
    /\ stale' = stale \ {t}
    /\ inst' = [n \in Node |-> IF n = t THEN Executed(n, View(t)) ELSE inst[n]]
    /\ tx' = Ended(t)
    /\ Release(t)
    /\ UNCHANGED <<desired, newRows, newHealth, budgets>>

\* t waits for u.
Waits(t, u) ==
    \/ tx[t].at = "touch" /\ nodeOwner[t] = u
    \/ tx[t].at = "mark" /\ \E m \in Overdue(t) : nodeOwner[m] = u
    \/ tx[t].at = "report" /\ \E d \in tx[t].left : rows[d].node = t /\ owner[d] = u
    \/ /\ tx[t].at \in {"unassign", "trim"} \/ (tx[t].at = "assign" /\ tx[t].pick # NoNode)
       /\ \E d \in tx[t].left : owner[d] = u

Rollback(t) ==
    /\ tx[t].at # "idle"
    /\ \E u \in Session \ {t} : /\ Waits(t, u)
                                /\ \/ Waits(u, t)
                                   \/ \E s \in Session \ {t, u} : Waits(u, s) /\ Waits(s, t)
    /\ newRows' = [d \in Dep |-> IF owner[d] = t THEN rows[d] ELSE newRows[d]]
    /\ newHealth' = [n \in Node |-> IF nodeOwner[n] = t THEN health[n] ELSE newHealth[n]]
    /\ Release(t)
    /\ tx' = [tx EXCEPT ![t] = NoTx]
    /\ UNCHANGED <<desired, committed, inst, budgets>>

----------------------------------------------------------------------------
Scale(k) == \* UPDATE apps SET desired_replicas=$2
    /\ scales < MaxScales
    /\ scales' = scales + 1
    /\ desired' = k
    /\ UNCHANGED <<committed, written, tx, inst, begun, lates>>

Late(n) ==
    /\ n \notin stale /\ tx[n].at = "idle" /\ lates < MaxLate
    /\ lates' = lates + 1
    /\ stale' = stale \cup {n}
    /\ UNCHANGED <<desired, rows, health, written, tx, inst, begun, scales>>

\* The bounds are reached and every transaction has ended.
Finished ==
    /\ begun = MaxTx /\ \A t \in Session : tx[t].at = "idle"
    /\ UNCHANGED vars

Statement(t) ==
    \/ MarkUnhealthy(t) \/ StartUnassign(t) \/ Unassign(t)
    \/ ReadApps(t) \/ ReadPending(t)
    \/ Choose(t) \/ Assign(t) \/ Count(t) \/ Insert(t)
    \/ StartTrim(t) \/ Trim(t)
    \/ Commit(t) \/ Rollback(t)

Next ==
    \/ \E t \in Session : Begin(t) \/ Statement(t)
    \/ \E n \in Node : Touch(n) \/ Report(n) \/ Late(n)
    \/ \E k \in Replicas : Scale(k)
    \/ Finished

Spec == Init /\ [][Next]_vars

----------------------------------------------------------------------------
(* Properties. *)

\* A reconcile that overlaps no other transaction leaves as many live rows as
\* the app asks for, whatever overlapping ones left before it: at most as many
\* when no node is healthy.
AloneExact ==
    \A t \in Session :
        tx[t].at = "commit" /\ tx[t].alone =>
            /\ Cardinality(Live(View(t))) <= tx[t].want
            /\ Up(t) # {} => Cardinality(Live(View(t))) = tx[t].want

\* A node is marked unhealthy only if no heartbeat of it was committed since it
\* was found unseen for 30 seconds: the heartbeat that arrives meanwhile makes
\* the UPDATE wait and then pass over the node (heartbeat, reconcile).
HeardStaysUp ==
    [][\A n \in Node : health[n] = "healthy" /\ health'[n] # "healthy" => n \in stale]_vars

\* A reconcile that overlaps no other transaction takes a row only from a node
\* that is unseen still.  (Overlapping ones may take it from a node whose heartbeat
\* was committed meanwhile, and which has started it.)
KeptAlone ==
    [][\A t \in Session :
         tx[t].at = "commit" /\ tx[t].alone /\ tx'[t].at = "idle" =>
           \A d \in Dep : rows[d].node # NoNode /\ rows'[d].node # rows[d].node
                           => rows[d].node \in stale]_vars

\* A transaction that commits does not leave fewer live rows than it wants if
\* there were enough before.
TrimKeeps ==
    [][\A t \in Session :
         tx[t].at = "commit" /\ tx'[t].at = "idle"
           /\ Cardinality(Live(rows)) >= tx[t].want =>
             Cardinality(Live(rows')) >= tx[t].want]_vars
=============================================================================
