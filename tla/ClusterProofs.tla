--------------------------- MODULE ClusterProofs ---------------------------
(* Safety of Cluster for every number of nodes, apps, rows and faults. *)
EXTENDS Cluster, FiniteSetTheorems, TLAPS

\* now() of a transaction is a number: the table is finite.
LEMMA NowType == ASSUME NEW t \in Table PROVE Now(t) \in Nat
<1> DEFINE used == {e \in Dep : t[e].status # "absent"}
           times == {t[d].born : d \in used}
           f == [d \in used |-> t[d].born]
<1>1. IsFiniteSet(Dep)
  BY FS_Interval, BoundsAssumption DEF Dep
<1>2. IsFiniteSet(used)
  BY <1>1, FS_Subset
<1>3. f \in Surjection(used, times)
  BY DEF Surjection
<1>4. IsFiniteSet(times)
  BY <1>2, <1>3, FS_Surjection
<1>5. Cardinality(times) \in Nat
  BY <1>4, FS_CardinalityType
<1> QED BY <1>5 DEF Now

\* Updating columns of a row and fields of a transaction.
LEMMA RowType ==
    ASSUME NEW r \in Row, NEW n \in Node \cup {NoNode}
    PROVE  [r EXCEPT !.node = n] \in Row /\ [r EXCEPT !.status = "delete"] \in Row
BY DEF Row

LEMMA WorkType ==
    ASSUME NEW x \in Tx, NEW w \in Table, NEW a \in App \cup {NoApp}
    PROVE  [x EXCEPT !.work = w] \in Tx /\ [x EXCEPT !.work = w, !.app = a] \in Tx
<1>1. [x EXCEPT !.work = w] \in Tx
  BY DEF Tx
<1>2. \A y \in Tx : [y EXCEPT !.app = a] \in Tx
  BY DEF Tx
<1> QED BY <1>1, <1>2

\* The tables with which a transaction starts are well-formed.
LEMMA BeginType ==
    ASSUME TypeOK, NEW kind \in {"heartbeat", "deploy"}, NEW n \in Node \cup {NoNode},
           NEW t \in Table, NEW h \in Health, NEW l \in SUBSET (Node \X Node),
           NEW s \in SUBSET Node
    PROVE  Begin(kind, n, t, h, l, s) \in Tx
<1>1. MarkUnhealthy(h, s) \in Health
  BY DEF MarkUnhealthy, Health
<1>2. ASSUME NEW d \in Dep
      PROVE  [t[d] EXCEPT !.status = "pending", !.node = NoNode] \in Row
  BY DEF Table, Row, LiveStatus
<1>3. Unassign(t, MarkUnhealthy(h, s)) \in Table
  BY <1>2 DEF Unassign, Table
<1>4. Now(t) \in Nat
  BY NowType
<1> QED BY <1>1, <1>3, <1>4 DEF Begin, TypeOK, Health, Tx

\* Type correctness of the initial state.
LEMMA InitType == ASSUME Init PROVE TypeOK
<1> USE NodeAssumption, AppAssumption, BoundsAssumption
<1>1. rows \in Table /\ tx.work \in Table
  BY DEF Init, NoTx, AbsentRow, Table, Row
<1>2. health \in Health
  BY DEF Init, NoTx, Health
<1>3. tx \in Tx
  BY <1>1, <1>2 DEF Init, NoTx, Tx, Health
<1> QED BY <1>1, <1>2, <1>3 DEF Init, TypeOK, Nothing

\* Type correctness is preserved by the API's statements.
LEMMA ApiType ==
    ASSUME TypeOK, NEW a \in App
    PROVE  /\ \A k \in Replicas : CreateApp(a, k) \/ ScaleApp(a, k) => TypeOK'
           /\ DeployApp(a) => TypeOK'
           /\ DeleteApp(a) => TypeOK'
           /\ DeleteAppZero(a) => TypeOK'
           /\ BeginDeploy(a) => TypeOK'
           /\ NextApp(a) => TypeOK'
<1> USE BoundsAssumption
<1>1. \A k \in Replicas : k \in Nat
  BY DEF Replicas
<1>2. \A k \in Replicas : CreateApp(a, k) => TypeOK'
  BY <1>1 DEF TypeOK, CreateApp, UserCall, agents
<1>3. \A k \in Replicas : ScaleApp(a, k) => TypeOK'
  BY <1>1 DEF TypeOK, ScaleApp, UserCall, agents
<1>4. DeployApp(a) => TypeOK'
  BY DEF TypeOK, DeployApp, UserCall, tables, agents
<1>5. DeleteApp(a) => TypeOK'
  <2>1. SUFFICES ASSUME DeleteApp(a) PROVE TypeOK'
    OBVIOUS
  <2>2. rows' \in Table
    BY <2>1, RowType DEF DeleteApp, TypeOK, Table
  <2> QED BY <2>1, <2>2 DEF TypeOK, DeleteApp, UserCall, agents
<1>6. DeleteAppZero(a) => TypeOK'
  BY DEF TypeOK, DeleteAppZero, agents
<1>7. BeginDeploy(a) => TypeOK'
  <2>1. SUFFICES ASSUME BeginDeploy(a) PROVE TypeOK'
    OBVIOUS
  <2>2. tx' \in Tx
    BY <2>1, BeginType DEF BeginDeploy, TypeOK
  <2> QED BY <2>1, <2>2 DEF TypeOK, BeginDeploy, tables, agents
<1>8. NextApp(a) => TypeOK'
  <2>1. SUFFICES ASSUME NextApp(a) PROVE TypeOK'
    OBVIOUS
  <2>2. tx \in Tx
    BY DEF TypeOK
  <2>3. tx' = [tx EXCEPT !.app = a, !.left = tx.left \ {a}]
    BY <2>1 DEF NextApp
  <2>4. tx' \in Tx
    BY <2>2, <2>3 DEF Tx
  <2> QED BY <2>1, <2>4 DEF TypeOK, NextApp, tables, agents
<1> QED BY <1>2, <1>3, <1>4, <1>5, <1>6, <1>7, <1>8

\* Type correctness is preserved by the loops of reconcile, commit and rollback.
LEMMA TransactionType ==
    ASSUME TypeOK
    PROVE  /\ AssignRow => TypeOK'
           /\ InsertRow => TypeOK'
           /\ TrimRows => TypeOK'
           /\ CommitDeploy => TypeOK'
           /\ Rollback => TypeOK'
<1>1. AssignRow => TypeOK'
  <2>1. SUFFICES ASSUME AssignRow PROVE TypeOK'
    OBVIOUS
  <2>2. PICK d \in Dep, n \in Node : tx' = [tx EXCEPT !.work[d].node = n]
    BY <2>1 DEF AssignRow, Oldest, Unassigned, LeastLoaded
  <2>3. tx \in Tx /\ tx.work \in Table
    BY DEF TypeOK, Tx
  <2>4. [tx.work EXCEPT ![d] = [tx.work[d] EXCEPT !.node = n]] \in Table
    BY <2>3, RowType DEF Table
  <2>5. tx' \in Tx
    BY <2>2, <2>3, <2>4, WorkType
  <2> QED BY <2>1, <2>5 DEF TypeOK, AssignRow, tables, agents
<1>2. InsertRow => TypeOK'
  <2>1. SUFFICES ASSUME InsertRow PROVE TypeOK'
    OBVIOUS
  <2>2. PICK d \in Dep, n \in Node :
          tx' = [tx EXCEPT !.work[d] = [status |-> "pending", app |-> tx.app,
                                        node |-> n, born |-> tx.now]]
    BY <2>1 DEF InsertRow, NextId, Free, LeastLoaded
  <2>3. tx' \in Tx
    BY <2>2 DEF TypeOK, Tx, Table, Row, LiveStatus
  <2> QED BY <2>1, <2>3 DEF TypeOK, InsertRow, tables, agents
<1>3. TrimRows => TypeOK'
  <2>1. SUFFICES ASSUME TrimRows PROVE TypeOK'
    OBVIOUS
  <2>2. PICK T :
          tx' = [tx EXCEPT !.work = [d \in Dep |-> IF d \in T
                                      THEN [tx.work[d] EXCEPT !.status = "delete"]
                                      ELSE tx.work[d]],
                           !.app = NoApp]
    BY <2>1 DEF TrimRows
  <2>3. tx \in Tx /\ tx.work \in Table
    BY DEF TypeOK, Tx
  <2>4. [d \in Dep |-> IF d \in T THEN [tx.work[d] EXCEPT !.status = "delete"]
                       ELSE tx.work[d]] \in Table
    BY <2>3, RowType DEF Table
  <2>5. tx' \in Tx
    BY <2>2, <2>3, <2>4, WorkType
  <2> QED BY <2>1, <2>5 DEF TypeOK, TrimRows, tables, agents
<1>4. NoTx \in Tx
  BY DEF NoTx, AbsentRow, Tx, Table, Row, Health
<1>5. CommitDeploy => TypeOK'
  BY <1>4 DEF TypeOK, Tx, CommitDeploy, Install, agents
<1>6. Rollback => TypeOK'
  BY <1>4 DEF TypeOK, Rollback, Fault, tables
<1> QED BY <1>1, <1>2, <1>3, <1>5, <1>6

\* What an agent does with an answer.
LEMMA ReceiveType ==
    ASSUME TypeOK, NEW n \in Node, NEW x \in [Dep -> {"none", "run", "delete"}],
           Receive(n, x)
    PROVE  /\ pc' \in [Node -> {"new", "down", "idle", "send", "act"}]
           /\ todo' \in [Node -> [Dep -> {"none", "run", "delete"}]]
BY DEF Receive, TypeOK

\* Type correctness is preserved by the agents.
LEMMA AgentType ==
    ASSUME TypeOK, NEW n \in Node
    PROVE  /\ Join(n) => TypeOK'
           /\ Start(n) => TypeOK'
           /\ Refresh(n) => TypeOK'
           /\ BeginHeartbeat(n) => TypeOK'
           /\ CommitHeartbeat(n) => TypeOK'
<1>1. Touch(n) \in SUBSET (Node \X Node)
  BY DEF Touch, TypeOK
<1>2. Join(n) => TypeOK'
  BY <1>1 DEF TypeOK, Join, Health
<1>3. Start(n) => TypeOK'
  BY DEF TypeOK, Start, tables
<1>4. Refresh(n) => TypeOK'
  <2>1. SUFFICES ASSUME Refresh(n) PROVE TypeOK'
    OBVIOUS
  <2>2. PICK bad \in SUBSET Kept(n), off \in SUBSET Kept(n) :
          /\ IF bad \cup off = {} THEN UNCHANGED faults ELSE Fault("docker")
          /\ inst' = [inst EXCEPT ![n] =
               [d \in Dep |-> CASE inst[n][d] = "none" -> "none"
                                [] d \in bad \/ docker[n][d] = "none" -> "failed"
                                [] d \notin off /\ docker[n][d] = "stopped" -> "running"
                                [] OTHER -> inst[n][d]]]
          /\ docker' = [docker EXCEPT ![n] =
               [d \in Dep |-> IF inst[n][d] # "none" /\ d \notin off /\ docker[n][d] = "stopped"
                              THEN "running" ELSE docker[n][d]]]
    BY <2>1 DEF Refresh
  <2>3. faults' \in Nat
    BY <2>2 DEF TypeOK, Fault
  <2>4. inst' \in [Node -> [Dep -> {"none", "running", "failed"}]]
    BY <2>2 DEF TypeOK
  <2>5. docker' \in [Node -> [Dep -> {"none", "stopped", "running"}]]
    BY <2>2 DEF TypeOK
  <2> QED BY <2>1, <2>3, <2>4, <2>5 DEF Refresh, TypeOK, tables
<1>5. BeginHeartbeat(n) => TypeOK'
  <2>1. SUFFICES ASSUME BeginHeartbeat(n) PROVE TypeOK'
    OBVIOUS
  <2>2. ASSUME NEW d \in Dep PROVE Reported(n)[d] \in Row
    <3>1. CASE rows[d].node = n /\ inst[n][d] # "none"
      <4>1. inst[n][d] \in {"running", "failed"} /\ rows[d] \in Row
        BY <3>1 DEF TypeOK, Table
      <4> QED BY <3>1, <4>1 DEF Reported, Row, LiveStatus
    <3>2. CASE ~(rows[d].node = n /\ inst[n][d] # "none")
      BY <3>2 DEF Reported, TypeOK, Table
    <3> QED BY <3>1, <3>2
  <2>3. Reported(n) \in Table
    BY <2>2 DEF Reported, Table
  <2>4. [health EXCEPT ![n] = "healthy"] \in Health
    BY DEF TypeOK, Health
  <2>5. tx' \in Tx
    BY <1>1, <2>1, <2>3, <2>4, BeginType DEF BeginHeartbeat, TypeOK
  <2> QED BY <2>1, <2>5 DEF TypeOK, BeginHeartbeat, tables, agents
<1>6. CommitHeartbeat(n) => TypeOK'
  <2>1. SUFFICES ASSUME CommitHeartbeat(n) PROVE TypeOK'
    OBVIOUS
  <2>2. Actions(tx.work, n) \in [Dep -> {"none", "run", "delete"}]
    BY DEF Actions
  <2>3. Nothing \in [Dep -> {"none", "run", "delete"}]
    BY DEF Nothing
  <2>4. /\ pc' \in [Node -> {"new", "down", "idle", "send", "act"}]
        /\ todo' \in [Node -> [Dep -> {"none", "run", "delete"}]]
    BY <2>1, <2>2, <2>3, ReceiveType DEF CommitHeartbeat
  <2>5. faults' \in Nat
    BY <2>1 DEF CommitHeartbeat, Fault, TypeOK
  <2>6. NoTx \in Tx
    BY DEF NoTx, AbsentRow, Tx, Table, Row, Health
  <2> QED BY <2>1, <2>4, <2>5, <2>6 DEF TypeOK, CommitHeartbeat, Install, Tx
<1> QED BY <1>2, <1>3, <1>4, <1>5, <1>6

\* Type correctness is preserved by the execution of actions and by faults.
LEMMA ActType ==
    ASSUME TypeOK, NEW n \in Node, NEW d \in Dep
    PROVE  /\ Run(n, d) => TypeOK'
           /\ RunFails(n, d) => TypeOK'
           /\ Remove(n, d) => TypeOK'
           /\ RemoveFails(n, d) => TypeOK'
           /\ ContainerStops(n, d) => TypeOK'
<1>1. [todo[n] EXCEPT ![d] = "none"] \in [Dep -> {"none", "run", "delete"}]
  BY DEF TypeOK
<1>2. Done(n, d) => /\ pc' \in [Node -> {"new", "down", "idle", "send", "act"}]
                    /\ todo' \in [Node -> [Dep -> {"none", "run", "delete"}]]
  BY <1>1, ReceiveType DEF Done
<1>3. Run(n, d) => TypeOK'
  <2>1. SUFFICES ASSUME Run(n, d) PROVE TypeOK'
    OBVIOUS
  <2>2. /\ inst' \in [Node -> [Dep -> {"none", "running", "failed"}]]
        /\ docker' \in [Node -> [Dep -> {"none", "stopped", "running"}]]
    <3>1. CASE UNCHANGED <<inst, docker>>
      BY <3>1 DEF TypeOK
    <3>2. CASE /\ docker' = [docker EXCEPT ![n][d] = "running"]
               /\ inst' = [inst EXCEPT ![n][d] = "running"]
      BY <3>2 DEF TypeOK
    <3> QED BY <2>1, <3>1, <3>2 DEF Run
  <2> QED BY <1>2, <2>1, <2>2 DEF Run, TypeOK, tables
<1>4. RunFails(n, d) => TypeOK'
  BY <1>2 DEF RunFails, Fault, TypeOK, tables
<1>5. Remove(n, d) => TypeOK'
  <2>1. SUFFICES ASSUME Remove(n, d) PROVE TypeOK'
    OBVIOUS
  <2>2. /\ inst' \in [Node -> [Dep -> {"none", "running", "failed"}]]
        /\ docker' \in [Node -> [Dep -> {"none", "stopped", "running"}]]
    <3>1. CASE UNCHANGED <<inst, docker>>
      BY <3>1 DEF TypeOK
    <3>2. CASE /\ docker' = [docker EXCEPT ![n][d] = "none"]
               /\ inst' = [inst EXCEPT ![n][d] = "none"]
      BY <3>2 DEF TypeOK
    <3> QED BY <2>1, <3>1, <3>2 DEF Remove
  <2> QED BY <1>2, <2>1, <2>2 DEF Remove, TypeOK, tables
<1>6. RemoveFails(n, d) => TypeOK'
  <2>1. SUFFICES ASSUME RemoveFails(n, d) PROVE TypeOK'
    OBVIOUS
  <2>2. docker' \in [Node -> [Dep -> {"none", "stopped", "running"}]]
    BY <2>1 DEF RemoveFails, TypeOK
  <2>3. faults' \in Nat
    BY <2>1 DEF RemoveFails, Fault, TypeOK
  <2> QED BY <1>2, <2>1, <2>2, <2>3 DEF RemoveFails, TypeOK, tables
<1>7. ContainerStops(n, d) => TypeOK'
  BY DEF ContainerStops, Fault, TypeOK, tables
<1> QED BY <1>3, <1>4, <1>5, <1>6, <1>7

\* Type correctness is inductive.
LEMMA TypeNext == TypeOK /\ [Next]_vars => TypeOK'
<1> SUFFICES ASSUME TypeOK, [Next]_vars PROVE TypeOK'
  OBVIOUS
<1>1. CASE Transaction
  <2>1. CASE \E a \in App : NextApp(a)
    BY <2>1, ApiType
  <2>2. CASE \E n \in Node : CommitHeartbeat(n)
    BY <2>2, AgentType
  <2> QED BY <1>1, <2>1, <2>2, TransactionType DEF Transaction
<1>2. CASE Users
  <2>1. PICK a \in App : \/ \E k \in Replicas : CreateApp(a, k) \/ ScaleApp(a, k)
                         \/ DeployApp(a) \/ DeleteApp(a)
    BY <1>2 DEF Users
  <2> QED BY <2>1, ApiType
<1>3. CASE Environment
  <2>1. CASE \E c \in calls : AbandonCall(c)
    BY <2>1 DEF AbandonCall, Fault, TypeOK, tables, agents
  <2>2. CASE \E n \in Node, d \in Dep : ContainerStops(n, d)
    BY <2>2, ActType
  <2>3. CASE \E n \in Node : Crash(n)
    BY <2>3 DEF Crash, Fault, TypeOK, Nothing, tables
  <2>4. CASE \E n \in Node : Expire(n)
    BY <2>4 DEF Expire, Fault, TypeOK, agents
  <2> QED BY <1>3, <2>1, <2>2, <2>3, <2>4, TransactionType DEF Environment
<1>4. CASE \E n \in Node : Agent(n) \/ Start(n)
  <2>1. PICK n \in Node : Agent(n) \/ Start(n)
    BY <1>4
  <2>2. CASE \E d \in Dep : Run(n, d) \/ RunFails(n, d) \/ Remove(n, d) \/ RemoveFails(n, d)
    BY <2>2, ActType
  <2> QED BY <2>1, <2>2, AgentType DEF Agent
<1>5. CASE \E a \in App : Call(a)
  <2>1. PICK a \in App : Call(a)
    BY <1>5
  <2> QED BY <2>1, ApiType DEF Call
<1>6. CASE UNCHANGED vars
  BY <1>6 DEF TypeOK, vars, tables, agents
<1> QED BY <1>1, <1>2, <1>3, <1>4, <1>5, <1>6 DEF Next

\* Every table, every agent's memory and every container keeps its type.
THEOREM TypeCorrect == Spec => []TypeOK
<1>1. Init => TypeOK
  BY InitType
<1> QED BY <1>1, TypeNext, PTL DEF Spec

\* A quiet step that leaves the rows alone disturbs the invariant only through
\* what agents hold and what Docker runs.
LEMMA Undisturbed ==
    ASSUME Inv, UNCHANGED <<rows, tx, pc, inst, todo, docker>>
    PROVE  Orders' /\ Accurate' /\ Condemned(rows)' /\ Backed(rows)' /\ Sender' /\ CopyAgrees'
BY DEF Inv, Orders, Accurate, Condemned, Backed, Sender, CopyAgrees, Dead

\* Without a transaction nothing is claimed of its copy.
LEMMA NoCopy == ASSUME Inv, Quiet, UNCHANGED tx PROVE Sender' /\ CopyAgrees'
BY DEF Inv, Quiet, Sender, CopyAgrees

\* What Receive does to the agents.
LEMMA ReceiveOrders ==
    ASSUME TypeOK, Orders, NEW n \in Node, NEW x \in [Dep -> {"none", "run", "delete"}],
           Receive(n, x)
    PROVE  /\ Orders'
           /\ todo'[n] = x
           /\ \A m \in Node \ {n} : todo'[m] = todo[m] /\ pc'[m] = pc[m]
           /\ pc'[n] # "send"
BY DEF TypeOK, Orders, Receive

\* The agents' steps preserve the invariant.
LEMMA AgentInv ==
    ASSUME Inv, NEW n \in Node, Join(n) \/ Start(n) \/ Crash(n) \/ Refresh(n)
    PROVE  /\ Orders' /\ Accurate' /\ Condemned(rows)' /\ Backed(rows)'
           /\ Sender' /\ CopyAgrees'
<1>1. Quiet /\ UNCHANGED <<rows, tx>>
  BY DEF Join, Start, Crash, Refresh, tables
<1>2. Sender' /\ CopyAgrees'
  BY <1>1, NoCopy
<1>3. CASE Join(n) \/ Start(n)
  BY <1>2, <1>3 DEF Inv, TypeOK, Join, Start, tables, Orders, Accurate, Condemned, Backed
<1>4. CASE Crash(n)
  <2>1. /\ pc' = [pc EXCEPT ![n] = "down"]
        /\ inst' = [inst EXCEPT ![n] = Nothing]
        /\ todo' = [todo EXCEPT ![n] = Nothing]
        /\ UNCHANGED docker
    BY <1>4 DEF Crash
  <2> QED BY <1>1, <1>2, <2>1 DEF Inv, TypeOK, Orders, Accurate, Condemned, Backed, Nothing
<1>5. CASE Refresh(n)
  <2>1. PICK bad \in SUBSET Kept(n), off \in SUBSET Kept(n) :
          /\ inst' = [inst EXCEPT ![n] =
               [d \in Dep |-> CASE inst[n][d] = "none" -> "none"
                                [] d \in bad \/ docker[n][d] = "none" -> "failed"
                                [] d \notin off /\ docker[n][d] = "stopped" -> "running"
                                [] OTHER -> inst[n][d]]]
          /\ docker' = [docker EXCEPT ![n] =
               [d \in Dep |-> IF inst[n][d] # "none" /\ d \notin off /\ docker[n][d] = "stopped"
                              THEN "running" ELSE docker[n][d]]]
    BY <1>5 DEF Refresh
  <2>2. pc' = [pc EXCEPT ![n] = "send"] /\ pc[n] = "idle" /\ UNCHANGED todo
    BY <1>5 DEF Refresh
  <2>3. ASSUME NEW m \in Node, NEW d \in Dep
        PROVE  /\ docker[m][d] # "none" => docker'[m][d] # "none"
               /\ m = n /\ inst'[m][d] = "running" => docker'[m][d] # "none"
               /\ m # n => inst'[m][d] = inst[m][d]
    BY <2>1 DEF Inv, TypeOK
  <2>4. Orders'
    BY <2>2 DEF Inv, TypeOK, Orders
  <2>5. Accurate'
    BY <2>2, <2>3 DEF Inv, TypeOK, Accurate
  <2>6. Condemned(rows)' /\ Backed(rows)'
    BY <1>1, <2>2, <2>3 DEF Inv, Condemned, Backed
  <2> QED BY <1>2, <2>4, <2>5, <2>6
<1> QED BY <1>3, <1>4, <1>5

\* Executing an action preserves the invariant: only the container of a
\* condemned row disappears.
LEMMA ActInv ==
    ASSUME Inv, NEW n \in Node, NEW d \in Dep,
           \/ Run(n, d) \/ RunFails(n, d) \/ Remove(n, d) \/ RemoveFails(n, d)
    PROVE  /\ Orders' /\ Accurate' /\ Condemned(rows)' /\ Backed(rows)'
           /\ Sender' /\ CopyAgrees'
<1>1. Quiet /\ UNCHANGED <<rows, tx>> /\ Done(n, d)
  BY DEF Run, RunFails, Remove, RemoveFails, Current, tables
<1>2. Sender' /\ CopyAgrees'
  BY <1>1, NoCopy
<1>3. [todo[n] EXCEPT ![d] = "none"] \in [Dep -> {"none", "run", "delete"}]
  BY DEF Inv, TypeOK
<1>4. /\ Orders'
      /\ todo'[n] = [todo[n] EXCEPT ![d] = "none"]
      /\ \A m \in Node \ {n} : todo'[m] = todo[m] /\ pc'[m] = pc[m]
      /\ pc'[n] # "send"
  BY <1>1, <1>3, ReceiveOrders DEF Done, Inv
<1>5. /\ \A m \in Node, e \in Dep :
            m # n \/ e # d => docker'[m][e] = docker[m][e] /\ inst'[m][e] = inst[m][e]
      /\ docker[n][d] # "none" => docker'[n][d] # "none" \/ todo[n][d] = "delete"
  <2>1. CASE Run(n, d)
    BY <2>1 DEF Run, Inv, TypeOK
  <2>2. CASE RunFails(n, d)
    BY <2>2 DEF RunFails, Inv, TypeOK
  <2>3. CASE Remove(n, d)
    BY <2>3 DEF Remove, Inv, TypeOK
  <2>4. CASE RemoveFails(n, d)
    BY <2>4 DEF RemoveFails, Inv, TypeOK
  <2> QED BY <2>1, <2>2, <2>3, <2>4
<1>6. Accurate'
  <2> SUFFICES ASSUME NEW m \in Node, NEW e \in Dep, pc'[m] = "send", inst'[m][e] = "running"
               PROVE  docker'[m][e] # "none"
    BY DEF Accurate
  <2>1. m # n
    BY <1>4
  <2>2. pc[m] = "send" /\ inst[m][e] = "running"
    BY <1>4, <1>5, <2>1
  <2>3. docker[m][e] # "none"
    BY <2>2 DEF Inv, Accurate
  <2> QED BY <1>5, <2>1, <2>3
<1>7. Condemned(rows)'
  <2>1. ASSUME NEW m \in Node, NEW e \in Dep, todo'[m][e] = "delete"
        PROVE  todo[m][e] = "delete"
    <3>1. CASE m = n
      BY <1>4, <2>1, <3>1 DEF Inv, TypeOK
    <3> QED BY <1>4, <2>1, <3>1
  <2> QED BY <1>1, <2>1 DEF Inv, Condemned
<1>8. Backed(rows)'
  <2>1. SUFFICES ASSUME NEW m \in Node, NEW e \in Dep,
                        rows[e].status = "running", rows[e].node = m
                 PROVE  docker'[m][e] # "none"
    BY <1>1 DEF Backed
  <2>2. docker[m][e] # "none"
    BY <2>1 DEF Inv, Backed
  <2>3. CASE m = n /\ e = d
    <3>1. todo[n][d] # "delete"
      BY <2>1, <2>3 DEF Inv, Condemned
    <3> QED BY <1>5, <2>2, <2>3, <3>1
  <2> QED BY <1>5, <2>2, <2>3
<1> QED BY <1>2, <1>4, <1>6, <1>7, <1>8

\* A container that stops still exists.
LEMMA StopInv ==
    ASSUME Inv, NEW n \in Node, NEW d \in Dep, ContainerStops(n, d)
    PROVE  /\ Orders' /\ Accurate' /\ Condemned(rows)' /\ Backed(rows)'
           /\ Sender' /\ CopyAgrees'
<1>1. Quiet /\ UNCHANGED <<rows, tx, pc, inst, todo>>
  BY DEF ContainerStops, tables
<1>2. \A m \in Node, e \in Dep : docker[m][e] # "none" => docker'[m][e] # "none"
  BY DEF ContainerStops, Inv, TypeOK
<1> QED BY <1>1, <1>2, NoCopy DEF Inv, Orders, Accurate, Condemned, Backed

\* Marking an app's rows for deletion withdraws no order and revives no row.
LEMMA DeleteInv ==
    ASSUME Inv, NEW a \in App, DeleteApp(a)
    PROVE  /\ Orders' /\ Accurate' /\ Condemned(rows)' /\ Backed(rows)'
           /\ Sender' /\ CopyAgrees'
<1>1. Quiet /\ UNCHANGED <<tx, pc, inst, todo, docker>>
  BY DEF DeleteApp, UserCall, agents
<1>2. ASSUME NEW d \in Dep
      PROVE  /\ rows'[d].node = rows[d].node
             /\ rows'[d].status \in {rows[d].status, "delete"}
  BY DEF DeleteApp, Inv, TypeOK, Table, Row
<1> QED BY <1>1, <1>2, NoCopy DEF Inv, Orders, Accurate, Condemned, Backed

\* The copy a transaction starts from: nothing condemned is revived, nothing is
\* shown as running without a container.
LEMMA BeginCopy ==
    ASSUME Inv, NEW t \in Table, NEW h \in Health,
           Condemned(t), Backed(t),
           \A n \in Node, d \in Dep : Dead(n, d) => t[d].status = "delete"
    PROVE  /\ Condemned(Unassign(t, h)) /\ Backed(Unassign(t, h))
           /\ \A n \in Node, d \in Dep :
                Dead(n, d) => Unassign(t, h)[d].status = "delete"
<1> DEFINE w == Unassign(t, h)
<1>1. ASSUME NEW d \in Dep
      PROVE  \/ w[d] = t[d]
             \/ /\ t[d].status \in {"running", "pending"}
                /\ w[d].status = "pending"
  BY DEF Unassign, Table, Row
<1> QED BY <1>1 DEF Condemned, Backed

\* The agreement of a copy carries over to a state with the same agents.
LEMMA CopyPrimed ==
    ASSUME UNCHANGED <<rows, inst, todo, docker>>,
           Condemned(tx'.work), Backed(tx'.work),
           \A n \in Node, d \in Dep : Dead(n, d) => tx'.work[d].status = "delete"
    PROVE  CopyAgrees'
<1>1. Condemned(tx.work)'
  BY DEF Condemned
<1>2. Backed(tx.work)'
  BY DEF Backed
<1>3. \A n \in Node, d \in Dep : Dead(n, d)' => tx'.work[d].status = "delete"
  BY DEF Dead
<1> QED BY <1>1, <1>2, <1>3 DEF CopyAgrees

\* Beginning a transaction establishes the agreement of its copy.
LEMMA BeginInv ==
    ASSUME Inv,
           \/ \E n \in Node : BeginHeartbeat(n)
           \/ \E a \in App : BeginDeploy(a)
    PROVE  /\ Orders' /\ Accurate' /\ Condemned(rows)' /\ Backed(rows)'
           /\ Sender' /\ CopyAgrees'
<1>1. UNCHANGED <<rows, pc, inst, todo, docker>>
  BY DEF BeginHeartbeat, BeginDeploy, tables, agents
<1>2. Orders' /\ Accurate' /\ Condemned(rows)' /\ Backed(rows)'
  BY <1>1 DEF Inv, Orders, Accurate, Condemned, Backed
<1>3. CASE \E n \in Node : BeginHeartbeat(n)
  <2>1. PICK n \in Node : BeginHeartbeat(n)
    BY <1>3
  <2> DEFINE h == MarkUnhealthy([health EXCEPT ![n] = "healthy"], stale \ {n})
  <2>2. /\ tx'.work = Unassign(Reported(n), h)
        /\ tx'.kind = "heartbeat" /\ tx'.hb = n /\ pc[n] = "send"
    BY <2>1 DEF BeginHeartbeat, Begin
  <2>3. \A d \in Dep : todo[n][d] # "delete"
    BY <2>2 DEF Inv, Orders, Nothing
  <2>4. ASSUME NEW d \in Dep
        PROVE  /\ Reported(n)[d] \in Row
               /\ Reported(n)[d].node = rows[d].node
               /\ \/ Reported(n)[d] = rows[d]
                  \/ /\ rows[d].node = n /\ inst[n][d] # "none"
                     /\ Reported(n)[d].status = inst[n][d]
    <3>1. rows[d] \in Row /\ inst[n][d] \in {"none", "running", "failed"}
      BY DEF Inv, TypeOK, Table
    <3> QED BY <3>1 DEF Reported, Row, LiveStatus
  <2>5. Reported(n) \in Table
    BY <2>4 DEF Reported, Table
  <2>6. Condemned(Reported(n))
    BY <2>3, <2>4 DEF Inv, Condemned
  <2>7. Backed(Reported(n))
    BY <2>2, <2>4 DEF Inv, Backed, Accurate
  <2>8. \A m \in Node, d \in Dep : Dead(m, d) => Reported(n)[d].status = "delete"
    BY <2>4 DEF Dead
  <2>9. h \in Health
    BY DEF MarkUnhealthy, Inv, TypeOK, Health
  <2> DEFINE w == Unassign(Reported(n), h)
  <2>10. /\ Condemned(w) /\ Backed(w)
         /\ \A m \in Node, d \in Dep : Dead(m, d) => w[d].status = "delete"
    BY <2>5, <2>6, <2>7, <2>8, <2>9, BeginCopy
  <2>11. CopyAgrees'
    BY <1>1, <2>2, <2>10, CopyPrimed
  <2> QED BY <1>1, <1>2, <2>2, <2>11 DEF Sender
<1>4. CASE \E a \in App : BeginDeploy(a)
  <2> DEFINE h == MarkUnhealthy(health, stale)
  <2>1. tx'.work = Unassign(rows, h) /\ tx'.hb = NoNode
    BY <1>4 DEF BeginDeploy, Begin
  <2>2. h \in Health /\ rows \in Table
    BY DEF MarkUnhealthy, Inv, TypeOK, Health
  <2>3. \A n \in Node, d \in Dep : Dead(n, d) => rows[d].status = "delete"
    BY DEF Dead
  <2>4. CopyAgrees'
    BY <1>1, <2>1, <2>2, <2>3, BeginCopy, CopyPrimed DEF Inv
  <2> QED BY NodeAssumption, <1>2, <2>1, <2>4 DEF Sender
<1> QED BY <1>3, <1>4

\* A statement of reconcile's loops only places or inserts pending rows and
\* marks rows for deletion: the copy keeps agreeing.
LEMMA StatementInv ==
    ASSUME Inv, UNCHANGED <<rows, pc, inst, todo, docker>>,
           tx'.kind = tx.kind, tx'.hb = tx.hb,
           \A d \in Dep :
             \/ tx'.work[d] = tx.work[d]
             \/ /\ tx.work[d].status \in {"pending", "absent"}
                /\ tx'.work[d].status = "pending"
             \/ /\ tx'.work[d].status = "delete"
                /\ tx'.work[d].node = tx.work[d].node
    PROVE  /\ Orders' /\ Accurate' /\ Condemned(rows)' /\ Backed(rows)'
           /\ Sender' /\ CopyAgrees'
<1>1. Orders' /\ Accurate' /\ Condemned(rows)' /\ Backed(rows)'
  BY DEF Inv, Orders, Accurate, Condemned, Backed
<1>2. Sender'
  BY DEF Inv, Sender
<1>3. CASE tx.kind = "none"
  BY <1>1, <1>2, <1>3 DEF CopyAgrees
<1>4. CASE tx.kind # "none"
  <2>1. Condemned(tx'.work)
    BY <1>4 DEF Inv, CopyAgrees, Condemned
  <2>2. Backed(tx'.work)
    BY <1>4 DEF Inv, CopyAgrees, Backed
  <2>3. \A n \in Node, d \in Dep : Dead(n, d) => tx'.work[d].status = "delete"
    BY <1>4 DEF Inv, CopyAgrees
  <2> QED BY <1>1, <1>2, <2>1, <2>2, <2>3, CopyPrimed
<1> QED BY <1>3, <1>4

\* Every statement of the loops is such a step.
LEMMA LoopInv ==
    ASSUME Inv, (\E a \in App : NextApp(a)) \/ AssignRow \/ InsertRow \/ TrimRows
    PROVE  /\ Orders' /\ Accurate' /\ Condemned(rows)' /\ Backed(rows)'
           /\ Sender' /\ CopyAgrees'
<1>1. UNCHANGED <<rows, pc, inst, todo, docker>>
  BY DEF NextApp, AssignRow, InsertRow, TrimRows, tables, agents
<1>2. tx \in Tx /\ tx.work \in Table
  BY DEF Inv, TypeOK, Tx
<1>3. CASE \E a \in App : NextApp(a)
  <2>1. PICK a \in App : tx' = [tx EXCEPT !.app = a, !.left = tx.left \ {a}]
    BY <1>3 DEF NextApp
  <2>2. tx'.kind = tx.kind /\ tx'.hb = tx.hb /\ tx'.work = tx.work
    BY <1>2, <2>1 DEF Tx
  <2> QED BY <1>1, <2>2, StatementInv
<1>4. CASE AssignRow
  <2>1. PICK e \in Dep, n \in Node :
          /\ tx' = [tx EXCEPT !.work[e].node = n]
          /\ tx.work[e].status = "pending"
    BY <1>4 DEF AssignRow, Oldest, Unassigned, LeastLoaded
  <2>2. /\ tx'.kind = tx.kind /\ tx'.hb = tx.hb
        /\ tx'.work = [tx.work EXCEPT ![e] = [tx.work[e] EXCEPT !.node = n]]
    BY <1>2, <2>1 DEF Tx
  <2>3. \A d \in Dep : tx'.work[d] = tx.work[d] \/ d = e
    BY <1>2, <2>2 DEF Table
  <2>4. tx'.work[e].status = "pending"
    BY <1>2, <2>1, <2>2 DEF Table, Row
  <2> QED BY <1>1, <2>1, <2>2, <2>3, <2>4, StatementInv
<1>5. CASE InsertRow
  <2>1. PICK e \in Dep, n \in Node :
          /\ tx' = [tx EXCEPT !.work[e] = [status |-> "pending", app |-> tx.app,
                                           node |-> n, born |-> tx.now]]
          /\ tx.work[e].status = "absent"
    BY <1>5 DEF InsertRow, NextId, Free, LeastLoaded
  <2>2. /\ tx'.kind = tx.kind /\ tx'.hb = tx.hb
        /\ tx'.work = [tx.work EXCEPT ![e] = [status |-> "pending", app |-> tx.app,
                                              node |-> n, born |-> tx.now]]
    BY <1>2, <2>1 DEF Tx
  <2>3. \A d \in Dep : tx'.work[d] = tx.work[d] \/ d = e
    BY <1>2, <2>2 DEF Table
  <2>4. tx'.work[e].status = "pending"
    BY <1>2, <2>2 DEF Table
  <2> QED BY <1>1, <2>1, <2>2, <2>3, <2>4, StatementInv
<1>6. CASE TrimRows
  <2>1. PICK T :
          tx' = [tx EXCEPT !.work = [d \in Dep |-> IF d \in T
                                      THEN [tx.work[d] EXCEPT !.status = "delete"]
                                      ELSE tx.work[d]],
                           !.app = NoApp]
    BY <1>6 DEF TrimRows
  <2>2. /\ tx'.kind = tx.kind /\ tx'.hb = tx.hb
        /\ tx'.work = [d \in Dep |-> IF d \in T
                                     THEN [tx.work[d] EXCEPT !.status = "delete"]
                                     ELSE tx.work[d]]
    BY <1>2, <2>1 DEF Tx
  <2>3. \A d \in Dep : \/ tx'.work[d] = tx.work[d]
                       \/ tx'.work[d] = [tx.work[d] EXCEPT !.status = "delete"]
    BY <2>2
  <2>4. \A d \in Dep : \/ tx'.work[d] = tx.work[d]
                       \/ /\ tx'.work[d].status = "delete"
                          /\ tx'.work[d].node = tx.work[d].node
    <3> SUFFICES ASSUME NEW d \in Dep, tx'.work[d] = [tx.work[d] EXCEPT !.status = "delete"]
                 PROVE  /\ tx'.work[d].status = "delete"
                        /\ tx'.work[d].node = tx.work[d].node
      BY <2>3
    <3>1. tx.work[d] \in Row
      BY <1>2 DEF Table
    <3> QED BY <3>1 DEF Row
  <2> QED BY <1>1, <2>2, <2>4, StatementInv
<1> QED BY <1>3, <1>4, <1>5, <1>6

\* Commit and rollback: the copy that is installed agrees with the agents, and
\* the actions of an answer are those of condemned and pending rows.
LEMMA EndInv ==
    ASSUME Inv, (\E n \in Node : CommitHeartbeat(n)) \/ CommitDeploy \/ Rollback
    PROVE  /\ Orders' /\ Accurate' /\ Condemned(rows)' /\ Backed(rows)'
           /\ Sender' /\ CopyAgrees'
<1>1. tx' = NoTx /\ tx.kind # "none" /\ UNCHANGED <<inst, docker>>
  BY DEF CommitHeartbeat, CommitDeploy, Rollback, Install, Reconciled, Quiet, agents
<1>2. Sender' /\ CopyAgrees'
  BY <1>1, NodeAssumption DEF Sender, CopyAgrees, NoTx
<1>3. CASE \E n \in Node : CommitHeartbeat(n)
  <2>1. PICK n \in Node : CommitHeartbeat(n)
    BY <1>3
  <2>2. Actions(tx.work, n) \in [Dep -> {"none", "run", "delete"}]
        /\ Nothing \in [Dep -> {"none", "run", "delete"}]
    BY DEF Actions, Nothing
  <2>3. PICK x \in {Actions(tx.work, n), Nothing} : Receive(n, x)
    BY <2>1 DEF CommitHeartbeat
  <2>4. /\ Orders'
        /\ todo'[n] = x
        /\ \A m \in Node \ {n} : todo'[m] = todo[m] /\ pc'[m] = pc[m]
        /\ pc'[n] # "send"
    BY <2>2, <2>3, ReceiveOrders DEF Inv
  <2>5. rows' = tx.work
    BY <2>1 DEF CommitHeartbeat, Install
  <2>6. Accurate'
    BY <1>1, <2>4 DEF Inv, Accurate
  <2>7. \A d \in Dep : x[d] = "delete" =>
          tx.work[d].status = "delete" /\ tx.work[d].node = n
    BY <2>3 DEF Actions, Nothing
  <2>8. Condemned(tx.work) /\ Backed(tx.work)
    BY <1>1 DEF Inv, CopyAgrees
  <2>9. Condemned(rows)'
    BY <2>4, <2>5, <2>7, <2>8 DEF Condemned
  <2>10. Backed(rows)'
    BY <1>1, <2>5, <2>8 DEF Backed
  <2> QED BY <1>2, <2>4, <2>6, <2>9, <2>10
<1>4. CASE CommitDeploy
  <2>1. rows' = tx.work /\ UNCHANGED <<pc, todo>>
    BY <1>4 DEF CommitDeploy, Install, agents
  <2>2. Condemned(tx.work) /\ Backed(tx.work)
    BY <1>1 DEF Inv, CopyAgrees
  <2>3. Condemned(rows)' /\ Backed(rows)'
    BY <1>1, <2>1, <2>2 DEF Condemned, Backed
  <2> QED BY <1>1, <1>2, <2>1, <2>3 DEF Inv, Orders, Accurate
<1>5. CASE Rollback
  <2>1. /\ UNCHANGED <<rows, todo>>
        /\ pc' = [n \in Node |-> IF n = tx.hb THEN "idle" ELSE pc[n]]
    BY <1>5 DEF Rollback, tables
  <2>2. tx.hb \in Node => pc[tx.hb] = "send"
    BY DEF Inv, Sender
  <2>3. Accurate' /\ Condemned(rows)' /\ Backed(rows)'
    BY <1>1, <2>1 DEF Inv, Accurate, Condemned, Backed
  <2>4. Orders'
    BY <2>1, <2>2 DEF Inv, Orders
  <2> QED BY <1>2, <2>3, <2>4
<1> QED BY <1>3, <1>4, <1>5

\* The empty tables and the agents that have not joined.
LEMMA InvInit == Init => Inv
<1> SUFFICES ASSUME Init PROVE Inv
  OBVIOUS
<1>1. TypeOK
  BY InitType
<1>2. /\ \A d \in Dep : rows[d].status = "absent"
      /\ \A n \in Node : todo[n] = Nothing /\ pc[n] = "new"
      /\ tx.kind = "none" /\ tx.hb = NoNode
  BY DEF Init, NoTx, AbsentRow
<1>3. \A n \in Node, d \in Dep : todo[n][d] = "none"
  BY <1>2 DEF Nothing
<1> QED BY <1>1, <1>2, <1>3, NodeAssumption
        DEF Inv, Orders, Accurate, Condemned, Backed, Sender, CopyAgrees

\* Every step preserves the invariant: one case for each group of actions.
LEMMA InvNext == Inv /\ [Next]_vars => Inv'
<1> SUFFICES ASSUME Inv, [Next]_vars
             PROVE  /\ Orders' /\ Accurate' /\ Condemned(rows)' /\ Backed(rows)'
                    /\ Sender' /\ CopyAgrees'
  BY TypeNext DEF Inv
<1>1. CASE Transaction
  BY <1>1, LoopInv, EndInv DEF Transaction
<1>2. CASE Users
  <2>1. PICK a \in App :
          \/ \E k \in Replicas : CreateApp(a, k) \/ ScaleApp(a, k)
          \/ DeployApp(a) \/ DeleteApp(a)
    BY <1>2 DEF Users
  <2>2. CASE DeleteApp(a)
    BY <2>2, DeleteInv
  <2>3. CASE DeployApp(a)
    BY <2>3, Undisturbed DEF DeployApp, tables, agents
  <2>4. CASE \E k \in Replicas : CreateApp(a, k) \/ ScaleApp(a, k)
    BY <2>4, Undisturbed DEF CreateApp, ScaleApp, agents
  <2> QED BY <2>1, <2>2, <2>3, <2>4
<1>3. CASE Environment
  <2>1. CASE Rollback
    BY <2>1, EndInv
  <2>2. CASE \E c \in calls : AbandonCall(c)
    BY <2>2, Undisturbed DEF AbandonCall, tables, agents
  <2>3. CASE \E n \in Node : Crash(n)
    BY <2>3, AgentInv
  <2>4. CASE \E n \in Node : Expire(n)
    BY <2>4, Undisturbed DEF Expire, agents
  <2>5. CASE \E n \in Node, d \in Dep : ContainerStops(n, d)
    BY <2>5, StopInv
  <2> QED BY <1>3, <2>1, <2>2, <2>3, <2>4, <2>5 DEF Environment
<1>4. CASE \E n \in Node : Agent(n) \/ Start(n)
  <2>1. PICK n \in Node : Agent(n) \/ Start(n)
    BY <1>4
  <2>2. CASE Join(n) \/ Start(n) \/ Refresh(n)
    BY <2>2, AgentInv
  <2>3. CASE BeginHeartbeat(n)
    BY <2>3, BeginInv
  <2>4. CASE \E d \in Dep : Run(n, d) \/ RunFails(n, d) \/ Remove(n, d) \/ RemoveFails(n, d)
    BY <2>4, ActInv
  <2> QED BY <2>1, <2>2, <2>3, <2>4 DEF Agent
<1>5. CASE \E a \in App : Call(a)
  <2>1. PICK a \in App : BeginDeploy(a) \/ DeleteAppZero(a)
    BY <1>5 DEF Call
  <2>2. CASE BeginDeploy(a)
    BY <2>2, BeginInv
  <2>3. CASE DeleteAppZero(a)
    BY <2>3, Undisturbed DEF DeleteAppZero, agents
  <2> QED BY <2>1, <2>2, <2>3
<1>6. CASE UNCHANGED vars
  BY <1>6, Undisturbed DEF vars, agents, tables
<1> QED BY <1>1, <1>2, <1>3, <1>4, <1>5, <1>6 DEF Next

\* The inductive invariant holds: the copy of a running transaction agrees with
\* the agents, and what an agent will report as running has a container.
THEOREM InvCorrect == Spec => []Inv
<1> QED BY InvInit, InvNext, PTL DEF Spec

\* An outstanding order to remove is always for a row marked 'delete' on that
\* agent's node (the answers of heartbeat, the loop of tick).
THEOREM CondemnedCorrect == Spec => []CondemnedOnly
<1>1. Inv => CondemnedOnly
  BY DEF Inv, CondemnedOnly
<1> QED BY <1>1, InvCorrect, PTL

\* A row shown as running always has a container on its node (the reports of
\* refresh, the UPDATE of heartbeat).
THEOREM NoPhantomCorrect == Spec => []NoPhantom
<1>1. Inv => NoPhantom
  BY DEF Inv, NoPhantom
<1> QED BY <1>1, InvCorrect, PTL

\* Only the actions of an agent remove containers.
LEMMA RemovalStep ==
    ASSUME Inv, [Next]_vars, NEW n \in Node, NEW d \in Dep,
           docker[n][d] # "none", docker'[n][d] = "none"
    PROVE  todo[n][d] = "delete"
<1>1. CASE \E m \in Node, e \in Dep :
             Run(m, e) \/ RunFails(m, e) \/ Remove(m, e) \/ RemoveFails(m, e)
  <2>1. PICK m \in Node, e \in Dep :
             Run(m, e) \/ RunFails(m, e) \/ Remove(m, e) \/ RemoveFails(m, e)
    BY <1>1
  <2>2. docker[n] \in [Dep -> {"none", "stopped", "running"}]
        /\ docker \in [Node -> [Dep -> {"none", "stopped", "running"}]]
    BY DEF Inv, TypeOK
  <2>3. CASE Run(m, e)
    BY <2>2, <2>3 DEF Run
  <2>4. CASE RunFails(m, e)
    BY <2>2, <2>4 DEF RunFails
  <2>5. CASE Remove(m, e)
    BY <2>2, <2>5 DEF Remove
  <2>6. CASE RemoveFails(m, e)
    BY <2>2, <2>6 DEF RemoveFails
  <2> QED BY <2>1, <2>3, <2>4, <2>5, <2>6
<1>2. CASE \E m \in Node, e \in Dep : ContainerStops(m, e)
  BY <1>2 DEF ContainerStops, Inv, TypeOK
<1>3. CASE \E m \in Node : Refresh(m)
  BY <1>3 DEF Refresh, Inv, TypeOK
<1>4. CASE UNCHANGED docker
  BY <1>4
<1>5. Transaction => UNCHANGED docker
  BY DEF Transaction, NextApp, AssignRow, InsertRow, TrimRows, CommitHeartbeat,
         CommitDeploy, agents
<1>6. Users => UNCHANGED docker
  BY DEF Users, CreateApp, ScaleApp, DeployApp, DeleteApp, agents
<1>7. ASSUME NEW m \in Node
      PROVE  Join(m) \/ Start(m) \/ BeginHeartbeat(m) \/ Crash(m) \/ Expire(m)
               => UNCHANGED docker
  BY DEF Join, Start, BeginHeartbeat, Crash, Expire, agents
<1>8. ASSUME NEW a \in App PROVE Call(a) => UNCHANGED docker
  BY DEF Call, BeginDeploy, DeleteAppZero, agents
<1>9. Rollback \/ (\E c \in calls : AbandonCall(c)) => UNCHANGED docker
  BY DEF Rollback, AbandonCall, agents
<1>10. Environment =>
         UNCHANGED docker \/ \E m \in Node, e \in Dep : ContainerStops(m, e)
  BY <1>7, <1>9 DEF Environment
<1>11. ASSUME NEW m \in Node, Agent(m) \/ Start(m)
       PROVE  \/ UNCHANGED docker
              \/ Refresh(m)
              \/ \E e \in Dep : Run(m, e) \/ RunFails(m, e) \/ Remove(m, e) \/ RemoveFails(m, e)
  BY <1>7, <1>11 DEF Agent
<1>12. UNCHANGED vars => UNCHANGED docker
  BY DEF vars, agents
<1> QED BY <1>1, <1>2, <1>3, <1>4, <1>5, <1>6, <1>8, <1>10, <1>11, <1>12 DEF Next

\* A container that disappears is that of a row marked 'delete' on its node:
\* no step of any component removes the replica of a live row.
THEOREM RemovalSafeCorrect == Spec => RemovalSafe
<1>1. Inv /\ [Next]_vars =>
        \A n \in Node, d \in Dep :
           docker[n][d] # "none" /\ docker'[n][d] = "none" =>
             rows[d].status = "delete" /\ rows[d].node = n
  BY RemovalStep DEF Inv, Condemned
<1> QED BY <1>1, InvCorrect, PTL DEF Spec, RemovalSafe

\* The tables change by DeleteApp and by the commit of a transaction only.
LEMMA RowsStep ==
    ASSUME [Next]_vars
    PROVE  \/ UNCHANGED rows
           \/ \E a \in App : DeleteApp(a)
           \/ rows' = tx.work /\ tx.kind # "none"
<1>1. Transaction => UNCHANGED rows \/ (rows' = tx.work /\ tx.kind # "none")
  BY DEF Transaction, NextApp, AssignRow, InsertRow, TrimRows, CommitHeartbeat,
         CommitDeploy, Install, Reconciled, Quiet, tables
<1>2. Users => UNCHANGED rows \/ \E a \in App : DeleteApp(a)
  BY DEF Users, CreateApp, ScaleApp, DeployApp, tables
<1>3. Environment => UNCHANGED rows
  BY DEF Environment, Rollback, AbandonCall, Crash, Expire, ContainerStops, tables
<1>4. ASSUME NEW n \in Node PROVE Agent(n) \/ Start(n) => UNCHANGED rows
  BY DEF Agent, Join, Start, Refresh, BeginHeartbeat, Run, RunFails, Remove,
         RemoveFails, tables
<1>5. ASSUME NEW a \in App PROVE Call(a) => UNCHANGED rows
  BY DEF Call, BeginDeploy, DeleteAppZero, tables
<1>6. UNCHANGED vars => UNCHANGED rows
  BY DEF vars, tables
<1> QED BY <1>1, <1>2, <1>3, <1>4, <1>5, <1>6 DEF Next

\* A deleted row its agent is done with stays deleted: neither a report nor a
\* reconcile that started earlier brings it back.
THEOREM DeadStayDeadCorrect == Spec => DeadStayDead
<1>1. ASSUME Inv, [Next]_vars, NEW n \in Node, NEW d \in Dep, Dead(n, d)
      PROVE  rows'[d].status = "delete"
  <2>1. CASE UNCHANGED rows
    BY <1>1, <2>1 DEF Dead
  <2>2. CASE \E a \in App : DeleteApp(a)
    BY <1>1, <2>2 DEF DeleteApp, Dead, Inv, TypeOK, Table, Row
  <2>3. CASE rows' = tx.work /\ tx.kind # "none"
    BY <1>1, <2>3 DEF Inv, CopyAgrees
  <2> QED BY <1>1, <2>1, <2>2, <2>3, RowsStep
<1>2. Inv /\ [Next]_vars =>
        \A n \in Node, d \in Dep : Dead(n, d) => rows'[d].status = "delete"
  BY <1>1
<1> QED BY <1>2, InvCorrect, PTL DEF Spec, DeadStayDead
=============================================================================
