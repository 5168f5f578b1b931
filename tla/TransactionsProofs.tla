------------------------- MODULE TransactionsProofs -------------------------
(* Overlapping transactions for every number of nodes, callers and rows. *)
EXTENDS Transactions, FiniteSetTheorems, TLAPS

Stage == {"idle", "touch", "report", "mark", "unassign", "pending", "assign",
          "insert", "trim", "commit"}

\* A transaction keeps its type when one of its locals is set.
LEMMA TxType ==
    ASSUME NEW x \in Tx
    PROVE  /\ \A v \in Stage : [x EXCEPT !.at = v] \in Tx
           /\ \A v \in SUBSET Dep : [x EXCEPT !.left = v] \in Tx
           /\ \A v \in Node \cup {NoNode} : [x EXCEPT !.pick = v] \in Tx
           /\ \A v \in SUBSET Node : [x EXCEPT !.down = v] \in Tx
           /\ \A v \in SUBSET Node : [x EXCEPT !.old = v] \in Tx
           /\ \A v \in Nat : [x EXCEPT !.want = v] \in Tx
           /\ \A v \in Nat : [x EXCEPT !.count = v] \in Tx
           /\ \A v \in Nat : [x EXCEPT !.born = v] \in Tx
           /\ \A v \in BOOLEAN : [x EXCEPT !.alone = v] \in Tx
<1>1. \A v \in Stage : [x EXCEPT !.at = v] \in Tx
  BY DEF Tx, Stage
<1>2. \A v \in SUBSET Dep : [x EXCEPT !.left = v] \in Tx
  BY DEF Tx
<1>3. \A v \in Node \cup {NoNode} : [x EXCEPT !.pick = v] \in Tx
  BY DEF Tx
<1>4. \A v \in SUBSET Node : [x EXCEPT !.down = v] \in Tx
  BY DEF Tx
<1>5. \A v \in SUBSET Node : [x EXCEPT !.old = v] \in Tx
  BY DEF Tx
<1>6. \A v \in Nat : [x EXCEPT !.want = v] \in Tx /\ [x EXCEPT !.count = v] \in Tx
                      /\ [x EXCEPT !.born = v] \in Tx
  BY DEF Tx
<1>7. \A v \in BOOLEAN : [x EXCEPT !.alone = v] \in Tx
  BY DEF Tx
<1> QED BY <1>1, <1>2, <1>3, <1>4, <1>5, <1>6, <1>7

LEMMA NoTxType == NoTx \in Tx
BY DEF NoTx, Tx

\* What a session sees are rows of the table.
LEMMA ViewType ==
    ASSUME TypeOK, NEW t \in Session
    PROVE  View(t) \in [Dep -> Row] /\ Up(t) \subseteq Node
BY DEF TypeOK, View, Up

\* A table has finitely many live rows.
LEMMA LiveCount ==
    ASSUME NEW v
    PROVE  Live(v) \subseteq Dep /\ IsFiniteSet(Live(v)) /\ Cardinality(Live(v)) \in Nat
<1>1. Live(v) \subseteq Dep
  BY DEF Live
<1>2. IsFiniteSet(Dep)
  BY FS_Interval, BoundsAssumption DEF Dep
<1>3. IsFiniteSet(Live(v))
  BY <1>1, <1>2, FS_Subset
<1> QED BY <1>1, <1>3, FS_CardinalityType

\* A step of a transaction that sets its locals keeps the types of the rest.
LEMMA StepType ==
    ASSUME TypeOK, NEW t \in Session, NEW c \in Tx, Step(t, c),
           newRows' \in [Dep -> Row], owner' \in [Dep -> Session \cup {NoSession}],
           newHealth' \in [Node -> {"healthy", "unhealthy"}],
           nodeOwner' \in [Node -> Session \cup {NoSession}]
    PROVE  TypeOK'
BY DEF TypeOK, Step, committed, budgets

\* A statement that writes nothing.
LEMMA ReadType ==
    ASSUME TypeOK, NEW t \in Session, NEW c \in Tx, Step(t, c), UNCHANGED written
    PROVE  TypeOK'
<1>1. /\ newRows' \in [Dep -> Row] /\ owner' \in [Dep -> Session \cup {NoSession}]
      /\ newHealth' \in [Node -> {"healthy", "unhealthy"}]
      /\ nodeOwner' \in [Node -> Session \cup {NoSession}]
  BY DEF TypeOK, written
<1> QED BY <1>1, StepType

\* A statement that writes a row of deployments.
LEMMA WriteType ==
    ASSUME TypeOK, NEW t \in Session, NEW c \in Tx, Step(t, c),
           NEW d \in Dep, NEW r \in Row, Write(t, d, r), UNCHANGED <<newHealth, nodeOwner>>
    PROVE  TypeOK'
<1>1. /\ newRows' \in [Dep -> Row] /\ owner' \in [Dep -> Session \cup {NoSession}]
      /\ newHealth' \in [Node -> {"healthy", "unhealthy"}]
      /\ nodeOwner' \in [Node -> Session \cup {NoSession}]
  BY DEF TypeOK, Write
<1> QED BY <1>1, StepType

----------------------------------------------------------------------------
(* Types: one lemma per kind of statement. *)

LEMMA InitType == Init => TypeOK
<1> SUFFICES ASSUME Init PROVE TypeOK
  OBVIOUS
<1>1. AbsentRow \in Row
  BY DEF AbsentRow, Row
<1>2. desired \in Nat
  BY BoundsAssumption DEF Init, Replicas
<1> QED BY <1>1, <1>2, NoTxType DEF Init, TypeOK

LEMMA BeginType == ASSUME TypeOK, NEW t \in Session, Begin(t) PROVE TypeOK'
<1>1. begun' \in Nat /\ stale \ {t} \in SUBSET Node
  <2>1. begun' = begun + 1
    BY DEF Begin
  <2>2. begun \in Nat /\ stale \in SUBSET Node
    BY DEF TypeOK
  <2> QED BY <2>1, <2>2
<1> DEFINE at == IF t \in Node THEN "touch" ELSE "mark"
           alone == \A s \in Session : tx[s].at = "idle"
           new == [NoTx EXCEPT !.at = at, !.old = stale \ {t}, !.born = begun',
                               !.alone = alone]
<1>2. at \in Stage /\ alone \in BOOLEAN
  BY DEF Stage
<1>3. new \in Tx
  <2> HIDE DEF at, alone
  <2>1. [NoTx EXCEPT !.at = at] \in Tx
    BY <1>2, NoTxType, TxType
  <2>2. [NoTx EXCEPT !.at = at, !.old = stale \ {t}] \in Tx
    BY <1>1, <2>1, TxType
  <2>3. [NoTx EXCEPT !.at = at, !.old = stale \ {t}, !.born = begun'] \in Tx
    BY <1>1, <2>2, TxType
  <2> QED BY <1>2, <2>3, TxType
<1>4. \A u \in Session : [tx[u] EXCEPT !.alone = FALSE] \in Tx
  BY TxType DEF TypeOK
<1>5. tx' = [u \in Session |-> IF u = t THEN new ELSE [tx[u] EXCEPT !.alone = FALSE]]
  BY DEF Begin
<1>6. tx' \in [Session -> Tx]
  <2> HIDE DEF new
  <2> QED BY <1>3, <1>4, <1>5
<1> QED BY <1>1, <1>6 DEF Begin, TypeOK, committed, written

LEMMA HeartbeatType ==
    ASSUME TypeOK, NEW n \in Node, Touch(n) \/ Report(n) PROVE TypeOK'
<1>1. n \in Session /\ tx[n] \in Tx /\ inst[n] \in SUBSET Dep
  BY DEF TypeOK, Session
<1>2. \A left \in SUBSET Dep :
        [tx[n] EXCEPT !.at = AfterReports(left), !.left = left] \in Tx
  <2> TAKE left \in SUBSET Dep
  <2>1. AfterReports(left) \in Stage
    BY DEF AfterReports, Stage
  <2>2. [tx[n] EXCEPT !.at = AfterReports(left)] \in Tx
    BY <1>1, <2>1, TxType
  <2> QED BY <2>2, TxType
<1>3. CASE Touch(n)
  <2> DEFINE c == [tx[n] EXCEPT !.at = AfterReports(inst[n]), !.left = inst[n]]
  <2>1. c \in Tx /\ Step(n, c)
    BY <1>1, <1>2, <1>3 DEF Touch
  <2>2. /\ newRows' \in [Dep -> Row] /\ owner' \in [Dep -> Session \cup {NoSession}]
        /\ newHealth' \in [Node -> {"healthy", "unhealthy"}]
        /\ nodeOwner' \in [Node -> Session \cup {NoSession}]
    BY <1>1, <1>3 DEF Touch, TypeOK
  <2> HIDE DEF c
  <2> QED BY <1>1, <2>1, <2>2, StepType
<1>4. CASE Report(n)
  <2>1. PICK d \in tx[n].left :
           /\ \/ UNCHANGED written
              \/ /\ Write(n, d, [rows[d] EXCEPT !.status = "running"])
                 /\ UNCHANGED <<newHealth, nodeOwner>>
           /\ Step(n, [tx[n] EXCEPT !.at = AfterReports(tx[n].left \ {d}),
                                    !.left = tx[n].left \ {d}])
    BY <1>4 DEF Report
  <2>2. d \in Dep /\ tx[n].left \ {d} \in SUBSET Dep
    BY <1>1 DEF Tx
  <2> DEFINE c == [tx[n] EXCEPT !.at = AfterReports(tx[n].left \ {d}),
                                !.left = tx[n].left \ {d}]
             r == [rows[d] EXCEPT !.status = "running"]
  <2>3. c \in Tx /\ Step(n, c)
    BY <1>2, <2>1, <2>2
  <2>4. r \in Row
    BY <2>2 DEF TypeOK, Row, LiveStatus
  <2>5. UNCHANGED written \/ (Write(n, d, r) /\ UNCHANGED <<newHealth, nodeOwner>>)
    BY <2>1
  <2> HIDE DEF c, r
  <2> QED BY <1>1, <2>2, <2>3, <2>4, <2>5, ReadType, WriteType
<1> QED BY <1>3, <1>4

\* Statements on nodes, and those that only read.
LEMMA ReadStatementType ==
    ASSUME TypeOK, NEW t \in Session,
           \/ MarkUnhealthy(t) \/ StartUnassign(t) \/ ReadApps(t) \/ ReadPending(t)
           \/ Choose(t) \/ Count(t) \/ StartTrim(t)
    PROVE  TypeOK'
<1>1. tx[t] \in Tx /\ {} \in SUBSET Dep /\ {} \in SUBSET Node
  BY DEF TypeOK
<1>2. \A v \in SUBSET Dep, w \in Stage : [tx[t] EXCEPT !.at = w, !.left = v] \in Tx
  <2> TAKE v \in SUBSET Dep, w \in Stage
  <2>1. [tx[t] EXCEPT !.at = w] \in Tx
    BY <1>1, TxType
  <2> QED BY <2>1, TxType
<1> USE DEF Stage
<1>3. CASE MarkUnhealthy(t)
  <2>1. Step(t, tx[t]) /\ newRows' \in [Dep -> Row]
        /\ owner' \in [Dep -> Session \cup {NoSession}]
    BY <1>3 DEF MarkUnhealthy, TypeOK
  <2>2. newHealth' \in [Node -> {"healthy", "unhealthy"}]
        /\ nodeOwner' \in [Node -> Session \cup {NoSession}]
    BY <1>3 DEF MarkUnhealthy, TypeOK
  <2> QED BY <1>1, <2>1, <2>2, StepType
<1>4. CASE StartUnassign(t)
  <2> DEFINE down == Node \ Up(t)
             left == {d \in Live(View(t)) : View(t)[d].node \in down}
             c == [tx[t] EXCEPT !.at = "unassign", !.down = down, !.old = {}, !.left = left]
  <2>1. Step(t, c) /\ UNCHANGED written
    BY <1>4 DEF StartUnassign
  <2>2. down \in SUBSET Node /\ left \in SUBSET Dep
    BY DEF Live
  <2>3. c \in Tx
    <3> HIDE DEF down, left
    <3>1. [tx[t] EXCEPT !.at = "unassign"] \in Tx
      BY <1>1, TxType
    <3>2. [tx[t] EXCEPT !.at = "unassign", !.down = down] \in Tx
      BY <2>2, <3>1, TxType
    <3>3. [tx[t] EXCEPT !.at = "unassign", !.down = down, !.old = {}] \in Tx
      BY <1>1, <3>2, TxType
    <3> QED BY <2>2, <3>3, TxType
  <2> HIDE DEF c
  <2> QED BY <2>1, <2>3, ReadType
<1>5. CASE ReadApps(t)
  <2> DEFINE c == [tx[t] EXCEPT !.at = "pending", !.down = {}, !.want = desired]
  <2>1. Step(t, c) /\ UNCHANGED written /\ desired \in Nat
    BY <1>5 DEF ReadApps, TypeOK
  <2>2. c \in Tx
    <3>1. [tx[t] EXCEPT !.at = "pending"] \in Tx
      BY <1>1, TxType
    <3>2. [tx[t] EXCEPT !.at = "pending", !.down = {}] \in Tx
      BY <1>1, <3>1, TxType
    <3> QED BY <2>1, <3>2, TxType
  <2> HIDE DEF c
  <2> QED BY <2>1, <2>2, ReadType
<1>6. CASE ReadPending(t)
  <2> DEFINE left == {d \in Dep : View(t)[d].status = "pending" /\ View(t)[d].node = NoNode}
             c == [tx[t] EXCEPT !.at = "assign", !.left = left]
  <2>1. Step(t, c) /\ UNCHANGED written
    BY <1>6 DEF ReadPending
  <2>2. left \in SUBSET Dep
    OBVIOUS
  <2>3. c \in Tx
    <3> HIDE DEF left
    <3> QED BY <1>2, <2>2
  <2> HIDE DEF c
  <2> QED BY <2>1, <2>3, ReadType
<1>7. CASE Choose(t)
  <2>1. PICK n \in Up(t) : Step(t, [tx[t] EXCEPT !.pick = n])
    BY <1>7 DEF Choose
  <2>2. [tx[t] EXCEPT !.pick = n] \in Tx /\ UNCHANGED written
    BY <1>1, <1>7, TxType, ViewType DEF Choose
  <2> QED BY <2>1, <2>2, ReadType
<1>8. CASE Count(t)
  <2> DEFINE k == Cardinality(Live(View(t)))
             c == [tx[t] EXCEPT !.at = "insert", !.left = {}, !.count = k]
  <2>1. Step(t, c) /\ UNCHANGED written
    BY <1>8 DEF Count
  <2>2. k \in Nat
    BY LiveCount
  <2>3. c \in Tx
    <3> HIDE DEF k
    <3>1. [tx[t] EXCEPT !.at = "insert", !.left = {}] \in Tx
      BY <1>1, <1>2
    <3> QED BY <2>2, <3>1, TxType
  <2> HIDE DEF c
  <2> QED BY <2>1, <2>3, ReadType
<1>9. CASE StartTrim(t)
  <2>1. CASE Step(t, [tx[t] EXCEPT !.at = "commit"])
    <3>1. [tx[t] EXCEPT !.at = "commit"] \in Tx /\ UNCHANGED written
      BY <1>1, <1>9, TxType DEF StartTrim
    <3> QED BY <2>1, <3>1, ReadType
  <2>2. CASE \E T \in Newest(View(t), tx[t].count - tx[t].want) :
               Step(t, [tx[t] EXCEPT !.at = "trim", !.left = T])
    <3>1. PICK T \in Newest(View(t), tx[t].count - tx[t].want) :
               Step(t, [tx[t] EXCEPT !.at = "trim", !.left = T])
      BY <2>2
    <3>2. T \in SUBSET Dep
      BY LiveCount DEF Newest
    <3>3. [tx[t] EXCEPT !.at = "trim", !.left = T] \in Tx /\ UNCHANGED written
      BY <1>2, <1>9, <3>2 DEF StartTrim
    <3> QED BY <3>1, <3>3, ReadType
  <2> QED BY <1>9, <2>1, <2>2 DEF StartTrim
<1> QED BY <1>3, <1>4, <1>5, <1>6, <1>7, <1>8, <1>9

\* Statements on rows of deployments.
LEMMA RowStatementType ==
    ASSUME TypeOK, NEW t \in Session,
           Unassign(t) \/ Assign(t) \/ Insert(t) \/ Trim(t)
    PROVE  TypeOK'
<1>1. tx[t] \in Tx /\ tx[t].left \in SUBSET Dep
      /\ tx[t].pick \in Node \cup {NoNode} /\ tx[t].count \in Nat /\ tx[t].born \in Nat
  BY DEF TypeOK, Tx
<1>2. \A d \in Dep : [tx[t] EXCEPT !.left = tx[t].left \ {d}] \in Tx
  BY <1>1, TxType
<1>3. \A d \in Dep, n \in Node \cup {NoNode} :
        /\ [View(t)[d] EXCEPT !.status = "pending", !.node = NoNode] \in Row
        /\ [View(t)[d] EXCEPT !.status = "delete"] \in Row
        /\ [View(t)[d] EXCEPT !.node = n] \in Row
  <2> TAKE d \in Dep, n \in Node \cup {NoNode}
  <2>1. View(t)[d] \in Row
    BY ViewType
  <2> QED BY <2>1 DEF Row, LiveStatus
<1>4. CASE Unassign(t)
  <2>1. PICK d \in tx[t].left :
          /\ IF d \in Live(View(t)) /\ View(t)[d].node \in tx[t].down
             THEN Write(t, d, [View(t)[d] EXCEPT !.status = "pending", !.node = NoNode])
             ELSE UNCHANGED <<newRows, owner>>
          /\ Step(t, [tx[t] EXCEPT !.left = tx[t].left \ {d}])
    BY <1>4 DEF Unassign
  <2>2. d \in Dep /\ UNCHANGED <<newHealth, nodeOwner>>
    BY <1>1, <1>4 DEF Unassign
  <2>3. CASE UNCHANGED <<newRows, owner>>
    <3>1. UNCHANGED written
      BY <2>2, <2>3 DEF written
    <3> QED BY <1>2, <2>1, <2>2, <3>1, ReadType
  <2>4. CASE Write(t, d, [View(t)[d] EXCEPT !.status = "pending", !.node = NoNode])
    BY <1>2, <1>3, <2>1, <2>2, <2>4, WriteType
  <2> QED BY <2>1, <2>3, <2>4
<1>5. CASE Assign(t)
  <2>1. PICK d \in tx[t].left :
          /\ Write(t, d, [View(t)[d] EXCEPT !.node = tx[t].pick])
          /\ Step(t, [tx[t] EXCEPT !.left = tx[t].left \ {d}, !.pick = NoNode])
    BY <1>5 DEF Assign
  <2>2. d \in Dep /\ UNCHANGED <<newHealth, nodeOwner>>
    BY <1>1, <1>5 DEF Assign
  <2>3. [tx[t] EXCEPT !.left = tx[t].left \ {d}] \in Tx
    BY <1>2, <2>2
  <2>4. [tx[t] EXCEPT !.left = tx[t].left \ {d}, !.pick = NoNode] \in Tx
    BY <2>3, TxType
  <2> QED BY <1>1, <1>3, <2>1, <2>2, <2>4, WriteType
<1>6. CASE Insert(t)
  <2> DEFINE r == [status |-> "pending", node |-> tx[t].pick, born |-> tx[t].born]
             c == [tx[t] EXCEPT !.count = tx[t].count + 1, !.pick = NoNode]
  <2>1. PICK d \in Unused : Write(t, d, r)
    BY <1>6 DEF Insert
  <2>2. d \in Dep /\ Step(t, c) /\ UNCHANGED <<newHealth, nodeOwner>>
    BY <1>6 DEF Insert, Unused
  <2>3. r \in Row
    BY <1>1 DEF Row, LiveStatus
  <2>4. tx[t].count + 1 \in Nat
    BY <1>1
  <2>5. c \in Tx
    <3>1. [tx[t] EXCEPT !.count = tx[t].count + 1] \in Tx
      BY <1>1, <2>4, TxType
    <3> QED BY <3>1, TxType
  <2> HIDE DEF r, c
  <2> QED BY <2>1, <2>2, <2>3, <2>5, WriteType
<1>7. CASE Trim(t)
  <2>1. UNCHANGED <<newHealth, nodeOwner>>
    BY <1>7 DEF Trim
  <2>2. CASE \E d \in tx[t].left :
               /\ Write(t, d, [View(t)[d] EXCEPT !.status = "delete"])
               /\ Step(t, [tx[t] EXCEPT !.left = tx[t].left \ {d}])
    <3>1. PICK d \in tx[t].left :
               /\ Write(t, d, [View(t)[d] EXCEPT !.status = "delete"])
               /\ Step(t, [tx[t] EXCEPT !.left = tx[t].left \ {d}])
      BY <2>2
    <3>2. d \in Dep
      BY <1>1
    <3> QED BY <1>2, <1>3, <2>1, <3>1, <3>2, WriteType
  <2>3. CASE UNCHANGED <<newRows, owner>> /\ Step(t, [tx[t] EXCEPT !.at = "commit"])
    <3>1. [tx[t] EXCEPT !.at = "commit"] \in Tx
      BY <1>1, TxType DEF Stage
    <3>2. UNCHANGED written
      BY <2>1, <2>3 DEF written
    <3> QED BY <2>3, <3>1, <3>2, ReadType
  <2> QED BY <1>7, <2>2, <2>3 DEF Trim
<1> QED BY <1>4, <1>5, <1>6, <1>7

\* The end of a transaction, and what happens between them.
LEMMA EndType ==
    ASSUME TypeOK, NEW t \in Session, Commit(t) \/ Rollback(t) PROVE TypeOK'
<1>1. Release(t)
  BY DEF Commit, Rollback
<1>2. /\ owner' \in [Dep -> Session \cup {NoSession}]
      /\ nodeOwner' \in [Node -> Session \cup {NoSession}]
  BY <1>1 DEF Release, TypeOK
<1>3. CASE Commit(t)
  <2>1. \A u \in Session : [tx[u] EXCEPT !.old = @ \ {t}] \in Tx
    <3> TAKE u \in Session
    <3>1. tx[u] \in Tx /\ tx[u].old \ {t} \in SUBSET Node
      BY DEF TypeOK, Tx
    <3> QED BY <3>1, TxType
  <2>2. Ended(t) \in [Session -> Tx]
    BY <2>1, NoTxType DEF Ended
  <2>3. rows' \in [Dep -> Row] /\ tx' \in [Session -> Tx]
    BY <1>3, <2>2, ViewType DEF Commit
  <2>4. health' \in [Node -> {"healthy", "unhealthy"}] /\ stale' \subseteq Node
    BY <1>3 DEF Commit, TypeOK
  <2>5. inst' \in [Node -> SUBSET Dep]
    <3>1. \A n \in Node : Executed(n, View(t)) \subseteq Dep
      BY DEF Executed, TypeOK
    <3> QED BY <1>3, <3>1 DEF Commit, TypeOK
  <2> QED BY <1>2, <1>3, <2>3, <2>4, <2>5 DEF Commit, TypeOK, budgets
<1>4. CASE Rollback(t)
  <2>1. newRows' \in [Dep -> Row]
    BY <1>4 DEF Rollback, TypeOK
  <2>2. newHealth' \in [Node -> {"healthy", "unhealthy"}]
    BY <1>4 DEF Rollback, TypeOK
  <2>3. tx' \in [Session -> Tx]
    BY <1>4, NoTxType DEF Rollback, TypeOK
  <2> QED BY <1>2, <1>4, <2>1, <2>2, <2>3 DEF Rollback, TypeOK, committed, budgets
<1> QED BY <1>3, <1>4

LEMMA OtherType ==
    ASSUME TypeOK,
           \/ \E n \in Node : Late(n)
           \/ \E k \in Replicas : Scale(k)
           \/ Finished
    PROVE  TypeOK'
<1>1. CASE \E n \in Node : Late(n)
  BY <1>1 DEF Late, TypeOK, written
<1>2. CASE \E k \in Replicas : Scale(k)
  BY <1>2, BoundsAssumption DEF Scale, TypeOK, committed, written, Replicas
<1>3. CASE Finished
  BY <1>3 DEF Finished, TypeOK, vars, committed, written, budgets
<1> QED BY <1>1, <1>2, <1>3

LEMMA TypeNext == TypeOK /\ [Next]_vars => TypeOK'
<1> SUFFICES ASSUME TypeOK, [Next]_vars PROVE TypeOK'
  OBVIOUS
<1>1. ASSUME NEW t \in Session, Begin(t) PROVE TypeOK'
  BY <1>1, BeginType
<1>2. ASSUME NEW t \in Session, Statement(t) PROVE TypeOK'
  BY <1>2, ReadStatementType, RowStatementType, EndType DEF Statement
<1>3. ASSUME NEW n \in Node, Touch(n) \/ Report(n) PROVE TypeOK'
  BY <1>3, HeartbeatType
<1>4. CASE \/ \E n \in Node : Late(n)
           \/ \E k \in Replicas : Scale(k)
           \/ Finished
  BY <1>4, OtherType
<1>5. CASE UNCHANGED vars
  BY <1>5 DEF TypeOK, vars, committed, written, budgets
<1> QED BY <1>1, <1>2, <1>3, <1>4, <1>5 DEF Next

\* Tables, locks, locals and agents keep their types, whatever overlaps
\* (heartbeat, deployApp, reconcile).
THEOREM TransactionsTypeCorrect == Spec => []TypeOK
BY InitType, TypeNext, PTL DEF Spec

----------------------------------------------------------------------------
(* Why a node that was heard is not marked unhealthy. *)

\* A heartbeat past its first statement holds the lock on its node's row.
Seen == \A n \in Node : tx[n].at \notin {"idle", "touch"} => nodeOwner[n] = n

\* Whoever a transaction takes for unseen, is.
OldUnseen == \A t \in Session : tx[t].old \subseteq stale

\* Whoever is being marked unhealthy is unseen, up to the commit.
MarkedUnseen ==
    \A m \in Node : nodeOwner[m] \in Session /\ newHealth[m] = "unhealthy" => m \in stale

HeardInv == Seen /\ OldUnseen /\ MarkedUnseen

----------------------------------------------------------------------------
(* Why a reconcile that overlaps none is exact. *)

\* While a transaction is alone nobody else has one.
OthersIdle == \A t, s \in Session : tx[t].alone /\ s # t => tx[s].at = "idle"

\* Rows are locked by transactions that are open, and as committed otherwise.
Locks ==
    \A d \in Dep : /\ owner[d] \in Session => tx[owner[d]].at # "idle"
                   /\ owner[d] = NoSession => newRows[d] = rows[d]

\* The loops of reconcile: what count and left say of the live rows.
Counted ==
    \A t \in Session : tx[t].alone =>
        LET live == Cardinality(Live(newRows))
        IN /\ tx[t].at = "insert" => tx[t].count = live
           /\ tx[t].at = "trim" => /\ tx[t].left \subseteq Live(newRows)
                                   /\ live = tx[t].want + Cardinality(tx[t].left)
           /\ tx[t].at = "commit" => /\ live <= tx[t].want
                                     /\ Up(t) # {} => live = tx[t].want

AloneInv == OthersIdle /\ Locks /\ Counted

\* What every statement between the first and the commit does and leaves alone.
Working(t) ==
    \/ t \in Node /\ (Touch(t) \/ Report(t))
    \/ MarkUnhealthy(t) \/ StartUnassign(t) \/ Unassign(t)
    \/ ReadApps(t) \/ ReadPending(t)
    \/ Choose(t) \/ Assign(t) \/ Count(t) \/ Insert(t)
    \/ StartTrim(t) \/ Trim(t)

LEMMA StepEffect ==
    ASSUME TypeOK, NEW t \in Session, NEW c, Step(t, c)
    PROVE  /\ tx'[t] = c
           /\ \A u \in Session : u # t => tx'[u] = tx[u]
           /\ UNCHANGED committed
BY DEF Step, TypeOK

\* The locals a statement leaves behind.
LEMMA WorkingEffect ==
    ASSUME TypeOK, NEW t \in Session, Working(t)
    PROVE  /\ tx'[t].old \subseteq tx[t].old /\ tx'[t].alone = tx[t].alone
           /\ tx[t].at # "idle" /\ tx'[t].at \notin {"idle", "touch"}
           /\ tx[t].at = "touch" => Touch(t) /\ t \in Node
           /\ \A u \in Session : u # t => tx'[u] = tx[u]
           /\ UNCHANGED committed
<1>1. tx \in [Session -> Tx] /\ tx[t] \in Tx
  BY DEF TypeOK
<1> USE <1>1 DEF Step, Tx
<1>2. CASE t \in Node /\ Touch(t)
  BY <1>2 DEF Touch, AfterReports
<1>3. CASE t \in Node /\ Report(t)
  BY <1>3 DEF Report, AfterReports
<1>4. CASE MarkUnhealthy(t)
  BY <1>4 DEF MarkUnhealthy
<1>5. CASE StartUnassign(t)
  BY <1>5 DEF StartUnassign
<1>6. CASE Unassign(t)
  BY <1>6 DEF Unassign
<1>7. CASE ReadApps(t)
  BY <1>7 DEF ReadApps
<1>8. CASE ReadPending(t)
  BY <1>8 DEF ReadPending
<1>9. CASE Choose(t)
  BY <1>9 DEF Choose, Placing
<1>10. CASE Assign(t)
  BY <1>10 DEF Assign
<1>11. CASE Count(t)
  BY <1>11 DEF Count
<1>12. CASE Insert(t)
  BY <1>12 DEF Insert
<1>13. CASE StartTrim(t)
  <2>1. tx[t].at = "insert"
    BY <1>13 DEF StartTrim
  <2>2. CASE Step(t, [tx[t] EXCEPT !.at = "commit"])
    BY <2>1, <2>2
  <2>3. CASE \E T \in Newest(View(t), tx[t].count - tx[t].want) :
               Step(t, [tx[t] EXCEPT !.at = "trim", !.left = T])
    BY <2>1, <2>3
  <2> QED BY <1>13, <2>2, <2>3 DEF StartTrim
<1>14. CASE Trim(t)
  <2>1. tx[t].at = "trim"
    BY <1>14 DEF Trim
  <2>2. CASE Step(t, [tx[t] EXCEPT !.at = "commit"])
    BY <2>1, <2>2
  <2>3. CASE \E d \in tx[t].left : Step(t, [tx[t] EXCEPT !.left = tx[t].left \ {d}])
    BY <2>1, <2>3
  <2> QED BY <1>14, <2>2, <2>3 DEF Trim
<1> QED BY <1>2, <1>3, <1>4, <1>5, <1>6, <1>7, <1>8, <1>9, <1>10, <1>11, <1>12, <1>13, <1>14 DEF Working

\* What a statement does to the locks and the new versions of nodes.
LEMMA NodeEffect ==
    ASSUME TypeOK, NEW t \in Session, Working(t), NEW m \in Node
    PROVE  \/ nodeOwner'[m] = nodeOwner[m] /\ newHealth'[m] = newHealth[m]
           \/ nodeOwner[m] = NoSession /\ m = t /\ nodeOwner'[m] = t
                /\ newHealth'[m] = "healthy"
           \/ nodeOwner[m] = NoSession /\ m \in tx[t].old /\ nodeOwner'[m] = t
<1>1. CASE t \in Node /\ Touch(t)
  BY <1>1 DEF Touch, TypeOK
<1>2. CASE MarkUnhealthy(t)
  BY <1>2 DEF MarkUnhealthy, Overdue, TypeOK
<1>3. CASE UNCHANGED <<newHealth, nodeOwner>>
  BY <1>3
<1>4. ASSUME ~(t \in Node /\ Touch(t)), ~MarkUnhealthy(t) PROVE UNCHANGED <<newHealth, nodeOwner>>
  <2>1. CASE t \in Node /\ Report(t)
    BY <2>1 DEF Report, written
  <2>2. CASE StartUnassign(t) \/ ReadApps(t) \/ ReadPending(t) \/ Choose(t)
             \/ Count(t) \/ StartTrim(t)
    BY <2>2 DEF StartUnassign, ReadApps, ReadPending, Choose, Count, StartTrim, written
  <2>3. CASE Unassign(t) \/ Assign(t) \/ Insert(t) \/ Trim(t)
    BY <2>3 DEF Unassign, Assign, Insert, Trim
  <2> QED BY <1>4, <2>1, <2>2, <2>3 DEF Working
<1> QED BY <1>1, <1>2, <1>3, <1>4

LEMMA NoSessionFact == NoSession \notin Session
BY SessionAssumption

LEMMA HeardInit == Init => HeardInv
BY NoSessionFact DEF Init, HeardInv, Seen, OldUnseen, MarkedUnseen, NoTx, Session

\* Statements.
LEMMA HeardWorking ==
    ASSUME TypeOK, HeardInv, NEW t \in Session, Working(t) PROVE HeardInv'
<1>1. stale' = stale /\ stale \subseteq Node
  BY WorkingEffect DEF committed, TypeOK
<1>2. Seen'
  <2> SUFFICES ASSUME NEW n \in Node, tx'[n].at \notin {"idle", "touch"}
               PROVE  nodeOwner'[n] = n
    BY DEF Seen
  <2>1. n \in Session
    BY DEF Session
  <2>2. CASE n # t
    <3>1. nodeOwner[n] = n
      BY <2>1, <2>2, WorkingEffect DEF HeardInv, Seen
    <3> QED BY <2>1, <3>1, NodeEffect, NoSessionFact
  <2>3. CASE n = t /\ tx[t].at = "touch"
    <3>1. Touch(t)
      BY <2>3, WorkingEffect
    <3> QED BY <2>3, <3>1 DEF Touch, TypeOK
  <2>4. CASE n = t /\ tx[t].at # "touch"
    <3>1. nodeOwner[n] = n
      BY <2>4, WorkingEffect DEF HeardInv, Seen
    <3> QED BY <2>1, <3>1, NodeEffect, NoSessionFact
  <2> QED BY <2>2, <2>3, <2>4
<1>3. OldUnseen'
  BY <1>1, WorkingEffect DEF HeardInv, OldUnseen
<1>4. MarkedUnseen'
  <2> SUFFICES ASSUME NEW m \in Node, nodeOwner'[m] \in Session, newHealth'[m] = "unhealthy"
               PROVE  m \in stale
    BY <1>1 DEF MarkedUnseen
  <2>1. CASE nodeOwner'[m] = nodeOwner[m] /\ newHealth'[m] = newHealth[m]
    BY <2>1 DEF HeardInv, MarkedUnseen
  <2>2. CASE m \in tx[t].old
    BY <2>2 DEF HeardInv, OldUnseen
  <2> QED BY <2>1, <2>2, NodeEffect
<1> QED BY <1>2, <1>3, <1>4 DEF HeardInv

\* The start and the end of a transaction.
LEMMA HeardBegin ==
    ASSUME TypeOK, HeardInv, NEW t \in Session, Begin(t) PROVE HeardInv'
<1>1. /\ nodeOwner' = nodeOwner /\ newHealth' = newHealth /\ stale' = stale
      /\ tx'[t].old \subseteq stale
      /\ t \in Node => tx'[t].at = "touch"
      /\ \A u \in Session : u # t => tx'[u].old = tx[u].old /\ tx'[u].at = tx[u].at
  <2>1. /\ nodeOwner' = nodeOwner /\ newHealth' = newHealth /\ stale' = stale
    BY DEF Begin, committed, written
  <2>2. tx'[t].old = stale \ {t} /\ (t \in Node => tx'[t].at = "touch")
    BY DEF Begin, NoTx
  <2>3. ASSUME NEW u \in Session, u # t PROVE tx'[u].old = tx[u].old /\ tx'[u].at = tx[u].at
    <3>1. tx'[u] = [tx[u] EXCEPT !.alone = FALSE] /\ tx[u] \in Tx
      BY <2>3 DEF Begin, TypeOK
    <3> QED BY <3>1 DEF Tx
  <2> QED BY <2>1, <2>2, <2>3
<1>2. Seen'
  BY <1>1 DEF HeardInv, Seen, Session
<1>3. OldUnseen'
  BY <1>1 DEF HeardInv, OldUnseen
<1>4. MarkedUnseen'
  BY <1>1 DEF HeardInv, MarkedUnseen
<1> QED BY <1>2, <1>3, <1>4 DEF HeardInv

LEMMA HeardCommit ==
    ASSUME TypeOK, HeardInv, NEW t \in Session, Commit(t) PROVE HeardInv'
<1>1. tx[t].at = "commit" /\ stale' = stale \ {t} /\ newHealth' = newHealth /\ Release(t)
  BY DEF Commit
<1>2. /\ tx'[t].at = "idle" /\ tx'[t].old = {}
      /\ \A u \in Session : u # t => tx'[u].old = tx[u].old \ {t} /\ tx'[u].at = tx[u].at
  <2>1. tx' = Ended(t)
    BY DEF Commit
  <2>2. \A u \in Session : tx[u] \in Tx
    BY DEF TypeOK
  <2> QED BY <2>1, <2>2 DEF Ended, NoTx, Tx
<1>3. \A m \in Node : nodeOwner'[m] = IF nodeOwner[m] = t THEN NoSession ELSE nodeOwner[m]
  BY <1>1 DEF Release
<1>4. Seen'
  BY <1>2, <1>3 DEF HeardInv, Seen, Session
<1>5. OldUnseen'
  BY <1>1, <1>2 DEF HeardInv, OldUnseen
<1>6. MarkedUnseen'
  <2> SUFFICES ASSUME NEW m \in Node, nodeOwner'[m] \in Session, newHealth'[m] = "unhealthy"
               PROVE  m \in stale'
    BY DEF MarkedUnseen
  <2>1. nodeOwner[m] # t /\ nodeOwner[m] \in Session
    BY <1>3, NoSessionFact
  <2>2. m \in stale
    BY <1>1, <2>1 DEF HeardInv, MarkedUnseen
  <2>3. m # t
    BY <1>1, <2>1 DEF HeardInv, Seen
  <2> QED BY <1>1, <2>2, <2>3
<1> QED BY <1>4, <1>5, <1>6 DEF HeardInv

LEMMA HeardRollback ==
    ASSUME TypeOK, HeardInv, NEW t \in Session, Rollback(t) PROVE HeardInv'
<1>1. /\ stale' = stale /\ tx'[t].at = "idle" /\ tx'[t].old = {}
      /\ \A u \in Session : u # t => tx'[u] = tx[u]
  BY DEF Rollback, committed, TypeOK, NoTx
<1>2. \A m \in Node : nodeOwner'[m] = IF nodeOwner[m] = t THEN NoSession ELSE nodeOwner[m]
  BY DEF Rollback, Release
<1>3. \A m \in Node : nodeOwner[m] # t => newHealth'[m] = newHealth[m]
  BY DEF Rollback
<1>4. Seen'
  BY <1>1, <1>2 DEF HeardInv, Seen, Session
<1>5. OldUnseen'
  BY <1>1 DEF HeardInv, OldUnseen
<1>6. MarkedUnseen'
  BY <1>1, <1>2, <1>3, NoSessionFact DEF HeardInv, MarkedUnseen
<1> QED BY <1>4, <1>5, <1>6 DEF HeardInv

LEMMA HeardNext == TypeOK /\ HeardInv /\ [Next]_vars => HeardInv'
<1> SUFFICES ASSUME TypeOK, HeardInv, [Next]_vars PROVE HeardInv'
  OBVIOUS
<1>1. ASSUME NEW t \in Session, Begin(t) PROVE HeardInv'
  BY <1>1, HeardBegin
<1>2. ASSUME NEW t \in Session, Statement(t) PROVE HeardInv'
  BY <1>2, HeardWorking, HeardCommit, HeardRollback DEF Statement, Working
<1>3. ASSUME NEW n \in Node, Touch(n) \/ Report(n) PROVE HeardInv'
  BY <1>3, HeardWorking DEF Working, Session
<1>4. CASE \E n \in Node : Late(n)
  BY <1>4 DEF Late, HeardInv, Seen, OldUnseen, MarkedUnseen, written
<1>5. CASE (\E k \in Replicas : Scale(k)) \/ Finished \/ UNCHANGED vars
  BY <1>5 DEF Scale, Finished, vars, committed, written, HeardInv, Seen, OldUnseen, MarkedUnseen
<1> QED BY <1>1, <1>2, <1>3, <1>4, <1>5 DEF Next

\* Only a commit changes what is known of a node, and it installs what was marked.
LEMMA HeardStep ==
    ASSUME TypeOK, HeardInv, [Next]_vars, NEW n \in Node,
           health[n] = "healthy", health'[n] # "healthy"
    PROVE  n \in stale
<1>1. ASSUME NEW t \in Session, Commit(t) PROVE n \in stale
  <2>1. nodeOwner[n] = t /\ newHealth[n] # "healthy"
    BY <1>1 DEF Commit, TypeOK
  <2> QED BY <2>1 DEF HeardInv, MarkedUnseen, TypeOK
<1>2. ASSUME health' = health PROVE FALSE
  BY <1>2
<1>3. ASSUME NEW t \in Session, Begin(t) \/ Rollback(t) PROVE health' = health
  BY <1>3 DEF Begin, Rollback, committed
<1>4. ASSUME NEW t \in Session, Working(t) PROVE health' = health
  BY <1>4, WorkingEffect DEF committed
<1>5. CASE \/ \E m \in Node : Late(m)
           \/ \E k \in Replicas : Scale(k)
           \/ Finished \/ UNCHANGED vars
  BY <1>5 DEF Late, Scale, Finished, vars, committed
<1> QED BY <1>1, <1>2, <1>3, <1>4, <1>5 DEF Next, Statement, Working, Session

\* A node is not marked unhealthy once a heartbeat of it was committed, however
\* many heartbeats and deploys overlap (heartbeat, reconcile).
THEOREM HeardStaysUpCorrect == Spec => HeardStaysUp
<1>1. TypeOK /\ HeardInv /\ [Next]_vars =>
        [\A n \in Node : health[n] = "healthy" /\ health'[n] # "healthy" => n \in stale]_vars
  BY HeardStep
<1> QED BY <1>1, InitType, TypeNext, HeardInit, HeardNext, PTL DEF Spec, HeardStaysUp

----------------------------------------------------------------------------
(* A reconcile that overlaps none is exact. *)

LEMMA AloneInit == Init => AloneInv
BY NoSessionFact DEF Init, AloneInv, OthersIdle, Locks, Counted, NoTx

\* Alone, a transaction sees the latest versions.
LEMMA AloneView ==
    ASSUME TypeOK, AloneInv, NEW t \in Session, tx[t].alone
    PROVE  View(t) = newRows
<1>1. ASSUME NEW d \in Dep PROVE View(t)[d] = newRows[d]
  <2>1. owner[d] \in {t, NoSession}
    BY DEF TypeOK, AloneInv, OthersIdle, Locks
  <2> QED BY <2>1 DEF View, AloneInv, Locks
<1>2. newRows \in [Dep -> Row] /\ View(t) \in [Dep -> Row]
  BY ViewType DEF TypeOK
<1> QED BY <1>1, <1>2

\* What a statement does to the locks and the new versions of deployments.
LEMMA RowEffect ==
    ASSUME TypeOK, NEW t \in Session, Working(t), NEW d \in Dep
    PROVE  owner'[d] = t \/ (owner'[d] = owner[d] /\ newRows'[d] = newRows[d])
<1> USE DEF TypeOK
<1>1. CASE \E e \in Dep : \E r : Write(t, e, r)
  BY <1>1 DEF Write
<1>2. CASE UNCHANGED <<newRows, owner>>
  BY <1>2
<1>3. tx[t].left \subseteq Dep
  BY DEF Tx
<1>4. (\E e \in Dep : \E r : Write(t, e, r)) \/ UNCHANGED <<newRows, owner>>
  <2>1. CASE t \in Node /\ Touch(t)
    BY <2>1 DEF Touch
  <2>2. CASE t \in Node /\ Report(t)
    BY <1>3, <2>2 DEF Report, written
  <2>3. CASE MarkUnhealthy(t) \/ StartUnassign(t) \/ ReadApps(t) \/ ReadPending(t)
             \/ Choose(t) \/ Count(t) \/ StartTrim(t)
    BY <2>3 DEF MarkUnhealthy, StartUnassign, ReadApps, ReadPending, Choose, Count,
                StartTrim, written
  <2>4. CASE Unassign(t)
    BY <1>3, <2>4 DEF Unassign
  <2>5. CASE Assign(t)
    BY <1>3, <2>5 DEF Assign
  <2>6. CASE Insert(t)
    BY <2>6 DEF Insert, Unused
  <2>7. CASE Trim(t)
    BY <1>3, <2>7 DEF Trim
  <2> QED BY <2>1, <2>2, <2>3, <2>4, <2>5, <2>6, <2>7 DEF Working
<1> QED BY <1>1, <1>2, <1>4

\* What Counted asks of one transaction.
CountedBy(t) ==
    LET live == Cardinality(Live(newRows))
    IN /\ tx[t].at = "insert" => tx[t].count = live
       /\ tx[t].at = "trim" => /\ tx[t].left \subseteq Live(newRows)
                               /\ live = tx[t].want + Cardinality(tx[t].left)
       /\ tx[t].at = "commit" => /\ live <= tx[t].want
                                 /\ Up(t) # {} => live = tx[t].want

\* The count is of the rows that are live.
LEMMA CountCounts ==
    ASSUME TypeOK, AloneInv, NEW t \in Session, tx[t].alone, Count(t) PROVE CountedBy(t)'
<1>1. tx'[t].at = "insert" /\ tx'[t].count = Cardinality(Live(View(t)))
  BY DEF Count, Step, TypeOK, Tx
<1>2. newRows' = newRows
  BY DEF Count, written
<1> QED BY <1>1, <1>2, AloneView DEF CountedBy

\* A new row is one more.
LEMMA InsertCounts ==
    ASSUME TypeOK, NEW t \in Session, CountedBy(t), tx[t].at = "insert", Insert(t)
    PROVE  CountedBy(t)'
<1>1. PICK d \in Unused :
        Write(t, d, [status |-> "pending", node |-> tx[t].pick, born |-> tx[t].born])
  BY DEF Insert
<1>2. d \in Dep /\ d \notin Live(newRows)
  BY DEF Unused, Live, LiveStatus, AbsentRow
<1>3. Live(newRows') = Live(newRows) \cup {d}
  BY <1>1, <1>2 DEF Write, Live, LiveStatus, TypeOK
<1>4. Cardinality(Live(newRows')) = Cardinality(Live(newRows)) + 1
  BY <1>2, <1>3, LiveCount, FS_AddElement
<1>5. tx'[t].at = "insert" /\ tx'[t].count = tx[t].count + 1
  BY DEF Insert, Step, TypeOK, Tx
<1> QED BY <1>4, <1>5 DEF CountedBy

\* The surplus is as many live rows as there are too many.
LEMMA StartTrimCounts ==
    ASSUME TypeOK, AloneInv, NEW t \in Session, tx[t].alone, CountedBy(t), StartTrim(t)
    PROVE  CountedBy(t)'
<1> DEFINE live == Cardinality(Live(newRows))
<1>1. /\ tx[t].at = "insert" /\ tx[t].count = live /\ newRows' = newRows
      /\ Up(t)' = Up(t)
      /\ tx[t].count >= tx[t].want \/ Up(t) = {}
  BY AloneView DEF StartTrim, written, CountedBy, Up, Step, committed
<1>2. live \in Nat /\ tx[t].want \in Nat /\ tx[t].count \in Nat
  BY LiveCount DEF TypeOK, Tx
<1>3. CASE tx[t].count > tx[t].want
  <2>1. PICK T \in Newest(newRows, tx[t].count - tx[t].want) :
          Step(t, [tx[t] EXCEPT !.at = "trim", !.left = T])
    BY <1>3, AloneView DEF StartTrim
  <2>2. T \subseteq Live(newRows)
        /\ Cardinality(T) = IF tx[t].count - tx[t].want < live
                            THEN tx[t].count - tx[t].want ELSE live
    BY DEF Newest
  <2>3. tx'[t].at = "trim" /\ tx'[t].left = T /\ tx'[t].want = tx[t].want
    BY <2>1 DEF Step, TypeOK, Tx
  <2>4. live = tx[t].want + Cardinality(T)
    <3> HIDE DEF live
    <3> QED BY <1>1, <1>2, <1>3, <2>2
  <2> QED BY <1>1, <2>2, <2>3, <2>4 DEF CountedBy
<1>4. CASE ~(tx[t].count > tx[t].want)
  <2>1. tx'[t].at = "commit" /\ tx'[t].want = tx[t].want
    BY <1>4 DEF StartTrim, Step, TypeOK, Tx
  <2>2. live <= tx[t].want /\ (Up(t) # {} => live = tx[t].want)
    <3> HIDE DEF live
    <3> QED BY <1>1, <1>2, <1>4
  <2> QED BY <1>1, <2>1, <2>2 DEF CountedBy
<1> QED BY <1>3, <1>4

\* Trimming a row is one less, of the surplus and of the live rows.
LEMMA TrimCounts ==
    ASSUME TypeOK, AloneInv, NEW t \in Session, tx[t].alone, CountedBy(t), Trim(t)
    PROVE  CountedBy(t)'
<1>1. /\ tx[t].at = "trim" /\ tx[t].left \subseteq Live(newRows)
      /\ Cardinality(Live(newRows)) = tx[t].want + Cardinality(tx[t].left)
  BY DEF Trim, CountedBy
<1>2. IsFiniteSet(tx[t].left)
  BY <1>1, LiveCount, FS_Subset
<1>3. Cardinality(tx[t].left) \in Nat /\ tx[t].want \in Nat
  BY <1>2, FS_CardinalityType DEF TypeOK, Tx
<1>4. CASE tx[t].left = {} /\ UNCHANGED <<newRows, owner>>
           /\ Step(t, [tx[t] EXCEPT !.at = "commit"])
  <2>1. tx'[t].at = "commit" /\ tx'[t].want = tx[t].want
    BY <1>4 DEF Step, TypeOK, Tx
  <2>2. Cardinality(Live(newRows)) = tx[t].want
    BY <1>1, <1>3, <1>4, FS_EmptySet
  <2> QED BY <1>3, <1>4, <2>1, <2>2 DEF CountedBy
<1>5. CASE \E d \in tx[t].left :
             /\ Write(t, d, [View(t)[d] EXCEPT !.status = "delete"])
             /\ Step(t, [tx[t] EXCEPT !.left = tx[t].left \ {d}])
  <2>1. PICK d \in tx[t].left :
             /\ Write(t, d, [newRows[d] EXCEPT !.status = "delete"])
             /\ Step(t, [tx[t] EXCEPT !.left = tx[t].left \ {d}])
    BY <1>5, AloneView
  <2>2. d \in Live(newRows) /\ d \in Dep
    BY <1>1 DEF Live
  <2>3. Live(newRows') = Live(newRows) \ {d}
    <3>1. newRows[d] \in Row /\ newRows' = [newRows EXCEPT ![d] = [newRows[d] EXCEPT !.status = "delete"]]
      BY <2>1, <2>2 DEF Write, TypeOK
    <3>2. newRows'[d].status = "delete"
      BY <2>2, <3>1 DEF Row, TypeOK
    <3>3. \A e \in Dep : e # d => newRows'[e] = newRows[e]
      BY <3>1 DEF TypeOK
    <3> QED BY <2>2, <3>2, <3>3 DEF Live, LiveStatus
  <2>4. Cardinality(Live(newRows')) = Cardinality(Live(newRows)) - 1
    BY <2>2, <2>3, LiveCount, FS_RemoveElement
  <2>5. Cardinality(tx[t].left \ {d}) = Cardinality(tx[t].left) - 1
    BY <1>2, <2>1, FS_RemoveElement
  <2>6. tx'[t].at = "trim" /\ tx'[t].left = tx[t].left \ {d} /\ tx'[t].want = tx[t].want
    BY <1>1, <2>1 DEF Step, TypeOK, Tx
  <2>7. tx[t].left \ {d} \subseteq Live(newRows')
    BY <1>1, <2>3
  <2>8. Cardinality(Live(newRows')) = tx[t].want + Cardinality(tx[t].left \ {d})
    BY <1>1, <1>3, <2>4, <2>5
  <2> QED BY <2>6, <2>7, <2>8 DEF CountedBy
<1> QED BY <1>4, <1>5 DEF Trim

\* Choosing a node counts nothing, and the other statements come before the count.
LEMMA OtherCounts ==
    ASSUME TypeOK, NEW t \in Session, CountedBy(t), Working(t),
           ~Count(t), ~Insert(t), ~StartTrim(t), ~Trim(t)
    PROVE  CountedBy(t)'
<1>1. tx \in [Session -> Tx] /\ tx[t] \in Tx
  BY DEF TypeOK
<1>2. CASE Choose(t)
  <2>1. tx'[t].at = tx[t].at /\ tx'[t].count = tx[t].count /\ newRows' = newRows
        /\ tx[t].at \in {"assign", "insert"}
    BY <1>1, <1>2 DEF Choose, Placing, Step, Tx, written
  <2> QED BY <2>1 DEF CountedBy
<1>3. ASSUME ~Choose(t) PROVE tx'[t].at \notin {"insert", "trim", "commit"}
  <2> USE <1>1 DEF Step, Tx
  <2>1. CASE t \in Node /\ Touch(t)
    BY <2>1 DEF Touch, AfterReports
  <2>2. CASE t \in Node /\ Report(t)
    BY <2>2 DEF Report, AfterReports
  <2>3. CASE MarkUnhealthy(t)
    BY <2>3 DEF MarkUnhealthy
  <2>4. CASE StartUnassign(t)
    BY <2>4 DEF StartUnassign
  <2>5. CASE Unassign(t)
    BY <2>5 DEF Unassign
  <2>6. CASE ReadApps(t)
    BY <2>6 DEF ReadApps
  <2>7. CASE ReadPending(t)
    BY <2>7 DEF ReadPending
  <2>8. CASE Assign(t)
    BY <2>8 DEF Assign
  <2> QED BY <1>3, <2>1, <2>2, <2>3, <2>4, <2>5, <2>6, <2>7, <2>8 DEF Working
<1> QED BY <1>2, <1>3 DEF CountedBy

LEMMA AloneWorking ==
    ASSUME TypeOK, AloneInv, NEW t \in Session, Working(t) PROVE AloneInv'
<1>1. /\ tx[t].at # "idle" /\ tx'[t].at # "idle" /\ tx'[t].alone = tx[t].alone
      /\ \A u \in Session : u # t => tx'[u] = tx[u]
      /\ rows' = rows
  BY WorkingEffect DEF committed
<1>2. \A u \in Session : u # t => ~tx[u].alone
  BY <1>1 DEF AloneInv, OthersIdle, TypeOK, Tx
<1>3. OthersIdle'
  BY <1>1, <1>2 DEF AloneInv, OthersIdle
<1>4. Locks'
  <2> SUFFICES ASSUME NEW d \in Dep
               PROVE  /\ owner'[d] \in Session => tx'[owner'[d]].at # "idle"
                      /\ owner'[d] = NoSession => newRows'[d] = rows'[d]
    BY DEF Locks
  <2>1. CASE owner'[d] = t
    BY <1>1, <2>1, NoSessionFact
  <2>2. CASE owner'[d] = owner[d] /\ newRows'[d] = newRows[d]
    BY <1>1, <2>2 DEF AloneInv, Locks
  <2> QED BY <2>1, <2>2, RowEffect
<1>5. Counted'
  <2>1. ASSUME tx[t].alone PROVE CountedBy(t)'
    <3>1. CountedBy(t)
      BY <2>1 DEF AloneInv, Counted, CountedBy
    <3>2. Insert(t) => tx[t].at = "insert"
      BY DEF Insert
    <3> QED BY <2>1, <3>1, <3>2, CountCounts, InsertCounts, StartTrimCounts, TrimCounts,
               OtherCounts
  <2> QED BY <1>1, <1>2, <2>1 DEF Counted, CountedBy
<1> QED BY <1>3, <1>4, <1>5 DEF AloneInv

LEMMA AloneBegin ==
    ASSUME TypeOK, AloneInv, NEW t \in Session, Begin(t) PROVE AloneInv'
<1>1. /\ tx'[t].at \in {"touch", "mark"}
      /\ tx'[t].alone => \A s \in Session : tx[s].at = "idle"
      /\ UNCHANGED <<newRows, owner, rows>>
  BY DEF Begin, NoTx, written, committed
<1>2. ASSUME NEW u \in Session, u # t PROVE tx'[u].alone = FALSE /\ tx'[u].at = tx[u].at
  <2>1. tx'[u] = [tx[u] EXCEPT !.alone = FALSE] /\ tx[u] \in Tx
    BY <1>2 DEF Begin, TypeOK
  <2> QED BY <2>1 DEF Tx
<1>3. OthersIdle'
  BY <1>1, <1>2 DEF OthersIdle
<1>4. Locks'
  BY <1>1, <1>2 DEF AloneInv, Locks
<1>5. Counted'
  BY <1>1, <1>2 DEF Counted
<1> QED BY <1>3, <1>4, <1>5 DEF AloneInv

LEMMA AloneEnd ==
    ASSUME TypeOK, AloneInv, NEW t \in Session, Commit(t) \/ Rollback(t) PROVE AloneInv'
<1>1. /\ tx[t].at # "idle" /\ tx'[t].alone = FALSE /\ tx'[t].at = "idle"
      /\ \A u \in Session : u # t => tx'[u].at = tx[u].at /\ tx'[u].alone = tx[u].alone
  <2>1. \A u \in Session : tx[u] \in Tx
    BY DEF TypeOK
  <2>2. CASE Commit(t)
    BY <2>1, <2>2 DEF Commit, Ended, NoTx, Tx
  <2>3. CASE Rollback(t)
    BY <2>1, <2>3 DEF Rollback, NoTx, TypeOK
  <2> QED BY <2>2, <2>3
<1>2. \A u \in Session : u # t => ~tx[u].alone
  BY <1>1 DEF AloneInv, OthersIdle, TypeOK, Tx
<1>3. \A d \in Dep : owner'[d] = IF owner[d] = t THEN NoSession ELSE owner[d]
  BY DEF Commit, Rollback, Release
<1>4. \A d \in Dep : owner'[d] = NoSession => newRows'[d] = rows'[d]
  <2> SUFFICES ASSUME NEW d \in Dep, owner'[d] = NoSession PROVE newRows'[d] = rows'[d]
    OBVIOUS
  <2>1. owner[d] = t \/ (owner[d] = NoSession /\ newRows[d] = rows[d])
    BY <1>3 DEF AloneInv, Locks
  <2>2. t # NoSession
    BY NoSessionFact
  <2>3. CASE Commit(t)
    BY <2>1, <2>2, <2>3 DEF Commit, View
  <2>4. CASE Rollback(t)
    BY <2>1, <2>2, <2>4 DEF Rollback, committed
  <2> QED BY <2>3, <2>4
<1>5. OthersIdle'
  BY <1>1, <1>2 DEF OthersIdle
<1>6. Locks'
  BY <1>1, <1>3, <1>4, NoSessionFact DEF AloneInv, Locks
<1>7. Counted'
  BY <1>1, <1>2 DEF Counted
<1> QED BY <1>5, <1>6, <1>7 DEF AloneInv

LEMMA AloneNext == TypeOK /\ AloneInv /\ [Next]_vars => AloneInv'
<1> SUFFICES ASSUME TypeOK, AloneInv, [Next]_vars PROVE AloneInv'
  OBVIOUS
<1>1. ASSUME NEW t \in Session, Begin(t) PROVE AloneInv'
  BY <1>1, AloneBegin
<1>2. ASSUME NEW t \in Session, Statement(t) PROVE AloneInv'
  BY <1>2, AloneWorking, AloneEnd DEF Statement, Working
<1>3. ASSUME NEW n \in Node, Touch(n) \/ Report(n) PROVE AloneInv'
  BY <1>3, AloneWorking DEF Working, Session
<1>4. CASE \/ \E n \in Node : Late(n)
           \/ \E k \in Replicas : Scale(k)
           \/ Finished \/ UNCHANGED vars
  <2>1. UNCHANGED <<tx, rows, newRows, owner, nodeOwner, newHealth, health>>
    BY <1>4 DEF Late, Scale, Finished, vars, committed, written
  <2>2. \A t \in Session : Up(t)' = Up(t)
    BY <2>1 DEF Up
  <2> QED BY <2>1, <2>2 DEF AloneInv, OthersIdle, Locks, Counted
<1> QED BY <1>1, <1>2, <1>3, <1>4 DEF Next

\* A reconcile that overlaps no other transaction leaves as many live rows as it
\* found the app to want, whatever overlapping ones left before it (reconcile).
THEOREM AloneExactCorrect == Spec => []AloneExact
<1>1. TypeOK /\ AloneInv => AloneExact
  BY AloneView DEF AloneExact, AloneInv, Counted
<1> QED BY <1>1, InitType, TypeNext, AloneInit, AloneNext, PTL DEF Spec

----------------------------------------------------------------------------
(* Why a reconcile that overlaps no other takes rows from unseen nodes only. *)

\* Who is unhealthy is unseen; a heartbeat holds its own node for healthy.
DownUnseen == \A m \in Node : health[m] = "unhealthy" => m \in stale
OwnHealthy == \A n \in Node : /\ n \notin tx[n].old
                              /\ nodeOwner[n] = n => newHealth[n] = "healthy"

\* What a transaction that is alone has done with the homes of the rows: those it
\* has taken away, and is about to take, are unseen; those it is about to give go
\* to rows that have none.
MovedBy(t) ==
    /\ \A d \in Dep : rows[d].node # NoNode /\ newRows[d].node # rows[d].node
                        => rows[d].node \in stale
    /\ tx[t].at = "unassign" => tx[t].down \subseteq stale
    /\ tx[t].at = "assign" => \A d \in tx[t].left : newRows[d].node = NoNode

MovedInv == \A t \in Session : tx[t].alone => MovedBy(t)

KeptInv == DownUnseen /\ OwnHealthy /\ MovedInv

LEMMA KeptInit == Init => KeptInv
BY NoSessionFact DEF Init, KeptInv, DownUnseen, OwnHealthy, MovedInv, NoTx, Session

----------------------------------------------------------------------------
(* What is known of nodes. *)

LEMMA NodesWorking ==
    ASSUME TypeOK, KeptInv, NEW t \in Session, Working(t)
    PROVE  DownUnseen' /\ OwnHealthy'
<1>1. /\ UNCHANGED committed /\ tx'[t].old \subseteq tx[t].old
      /\ \A u \in Session : u # t => tx'[u] = tx[u]
  BY WorkingEffect
<1>2. ASSUME NEW n \in Node
      PROVE  n \notin tx'[n].old /\ (nodeOwner'[n] = n => newHealth'[n] = "healthy")
  <2>1. n \in Session /\ n \notin tx[n].old /\ (nodeOwner[n] = n => newHealth[n] = "healthy")
    BY DEF KeptInv, OwnHealthy, Session
  <2>2. n \notin tx'[n].old
    BY <1>1, <2>1
  <2> QED BY <2>1, <2>2, NodeEffect
<1> QED BY <1>1, <1>2 DEF KeptInv, DownUnseen, OwnHealthy, committed

LEMMA NodesEnd ==
    ASSUME TypeOK, HeardInv, KeptInv, NEW t \in Session, Commit(t) \/ Rollback(t)
    PROVE  DownUnseen' /\ OwnHealthy'
<1>1. \A m \in Node : nodeOwner'[m] = IF nodeOwner[m] = t THEN NoSession ELSE nodeOwner[m]
  BY DEF Commit, Rollback, Release
<1>2. \A m \in Node : nodeOwner[m] # t => newHealth'[m] = newHealth[m]
  BY DEF Commit, Rollback
<1>3. \A u \in Session : tx'[u].old \subseteq tx[u].old
  <2>1. \A u \in Session : tx[u] \in Tx
    BY DEF TypeOK
  <2>2. CASE Commit(t)
    BY <2>1, <2>2 DEF Commit, Ended, NoTx, Tx
  <2>3. CASE Rollback(t)
    BY <2>3 DEF Rollback, NoTx, TypeOK
  <2> QED BY <2>2, <2>3
<1>4. OwnHealthy'
  <2> SUFFICES ASSUME NEW n \in Node
               PROVE  n \notin tx'[n].old /\ (nodeOwner'[n] = n => newHealth'[n] = "healthy")
    BY DEF OwnHealthy
  <2>1. n \in Session /\ n \notin tx[n].old /\ (nodeOwner[n] = n => newHealth[n] = "healthy")
    BY DEF KeptInv, OwnHealthy, Session
  <2> QED BY <1>1, <1>2, <1>3, <2>1, NoSessionFact
<1>5. DownUnseen'
  <2> SUFFICES ASSUME NEW m \in Node, health'[m] = "unhealthy" PROVE m \in stale'
    BY DEF DownUnseen
  <2>1. CASE Commit(t)
    <3>1. stale' = stale \ {t} /\ tx[t].at = "commit"
          /\ health'[m] = IF nodeOwner[m] = t THEN newHealth[m] ELSE health[m]
      BY <2>1 DEF Commit
    <3>2. m \in stale
      BY <3>1 DEF HeardInv, MarkedUnseen, KeptInv, DownUnseen
    <3>3. m # t
      BY <3>1 DEF HeardInv, Seen, KeptInv, OwnHealthy
    <3> QED BY <3>1, <3>2, <3>3
  <2>2. CASE Rollback(t)
    BY <2>2 DEF Rollback, committed, KeptInv, DownUnseen
  <2> QED BY <2>1, <2>2
<1> QED BY <1>4, <1>5

----------------------------------------------------------------------------
(* What a transaction that is alone does with the homes of rows. *)

\* Rows that change their home are unseen nodes' or have none, and the loops stay
\* about such rows.
Moves(t) ==
    /\ \A d \in Dep : \/ newRows'[d].node = newRows[d].node
                      \/ newRows[d].node \in stale \cup {NoNode}
    /\ tx'[t].at = "unassign" => tx'[t].down \subseteq stale
    /\ tx'[t].at = "assign" => \A d \in tx'[t].left : newRows'[d].node = NoNode

LEMMA MovesStart ==
    ASSUME TypeOK, HeardInv, KeptInv, AloneInv, NEW t \in Session, tx[t].alone,
           \/ StartUnassign(t) \/ ReadApps(t) \/ ReadPending(t) \/ Choose(t)
           \/ Count(t) \/ StartTrim(t)
    PROVE  Moves(t)
<1>1. tx \in [Session -> Tx] /\ tx[t] \in Tx
  BY DEF TypeOK
<1>2. newRows' = newRows
  BY DEF StartUnassign, ReadApps, ReadPending, Choose, Count, StartTrim, written
<1>3. CASE StartUnassign(t)
  <2>1. tx'[t].at = "unassign" /\ tx'[t].down = Node \ Up(t)
    BY <1>1, <1>3 DEF StartUnassign, Step, Tx
  <2>2. ASSUME NEW m \in Node, m \notin Up(t) PROVE m \in stale
    <3>1. CASE nodeOwner[m] = t
      BY <2>2, <3>1 DEF Up, HeardInv, MarkedUnseen, TypeOK
    <3>2. CASE nodeOwner[m] # t
      BY <2>2, <3>2 DEF Up, KeptInv, DownUnseen, TypeOK
    <3> QED BY <3>1, <3>2
  <2> QED BY <1>2, <2>1, <2>2 DEF Moves
<1>4. CASE ReadPending(t)
  <2>1. tx'[t].at = "assign"
        /\ tx'[t].left = {d \in Dep : View(t)[d].status = "pending" /\ View(t)[d].node = NoNode}
    BY <1>1, <1>4 DEF ReadPending, Step, Tx
  <2>2. View(t) = newRows
    BY AloneView
  <2> QED BY <1>2, <2>1, <2>2 DEF Moves
<1>5. CASE Choose(t)
  <2>1. tx'[t].at = tx[t].at /\ tx'[t].left = tx[t].left /\ tx[t].at \in {"assign", "insert"}
    BY <1>1, <1>5 DEF Choose, Placing, Step, Tx
  <2> QED BY <1>2, <2>1 DEF Moves, KeptInv, MovedInv, MovedBy
<1>6. CASE ReadApps(t) \/ Count(t)
  <2>1. ReadApps(t) => tx'[t].at = "pending"
    BY <1>1 DEF ReadApps, Step, Tx
  <2>2. Count(t) => tx'[t].at = "insert"
    BY <1>1 DEF Count, Step, Tx
  <2> QED BY <1>2, <1>6, <2>1, <2>2 DEF Moves
<1>7. CASE StartTrim(t)
  <2>1. CASE Step(t, [tx[t] EXCEPT !.at = "commit"])
    BY <1>1, <1>2, <2>1 DEF Step, Tx, Moves
  <2>2. CASE \E T \in Newest(View(t), tx[t].count - tx[t].want) :
               Step(t, [tx[t] EXCEPT !.at = "trim", !.left = T])
    BY <1>1, <1>2, <2>2 DEF Step, Tx, Moves
  <2> QED BY <1>7, <2>1, <2>2 DEF StartTrim
<1> QED BY <1>3, <1>4, <1>5, <1>6, <1>7

LEMMA MovesHeartbeat ==
    ASSUME TypeOK, AloneInv, NEW t \in Session, tx[t].alone,
           \/ t \in Node /\ (Touch(t) \/ Report(t))
           \/ MarkUnhealthy(t)
    PROVE  Moves(t)
<1>1. tx \in [Session -> Tx] /\ tx[t] \in Tx
  BY DEF TypeOK
<1>2. CASE Touch(t)
  BY <1>1, <1>2 DEF Touch, AfterReports, Step, Tx, Moves
<1>3. CASE MarkUnhealthy(t)
  BY <1>1, <1>3 DEF MarkUnhealthy, Step, Tx, Moves
<1>4. CASE Report(t)
  <2>1. tx'[t].at \in {"report", "mark"}
    <3>1. PICK left : tx' = [tx EXCEPT ![t] = [tx[t] EXCEPT !.at = AfterReports(left), !.left = left]]
      BY <1>4 DEF Report, Step
    <3> QED BY <1>1, <3>1 DEF AfterReports, Tx
  <2>2. ASSUME NEW d \in Dep PROVE newRows'[d].node = newRows[d].node
    <3>1. CASE newRows' = newRows
      BY <3>1
    <3>2. CASE \E e \in tx[t].left : /\ owner[e] = NoSession
                                     /\ Write(t, e, [rows[e] EXCEPT !.status = "running"])
      <4>1. PICK e \in Dep : /\ owner[e] = NoSession
                             /\ newRows' = [newRows EXCEPT ![e] = [rows[e] EXCEPT !.status = "running"]]
        BY <1>1, <3>2 DEF Write, Tx
      <4>2. rows[e] = newRows[e] /\ rows[e] \in Row /\ newRows \in [Dep -> Row]
        BY <4>1 DEF AloneInv, Locks, TypeOK
      <4> QED BY <4>1, <4>2 DEF Row
    <3> QED BY <1>4, <3>1, <3>2 DEF Report, written
  <2> QED BY <2>1, <2>2 DEF Moves
<1> QED BY <1>2, <1>3, <1>4

LEMMA MovesRow ==
    ASSUME TypeOK, KeptInv, AloneInv, NEW t \in Session, tx[t].alone,
           Unassign(t) \/ Assign(t) \/ Insert(t) \/ Trim(t)
    PROVE  Moves(t)
<1>1. tx \in [Session -> Tx] /\ tx[t] \in Tx /\ newRows \in [Dep -> Row]
      /\ \A d \in Dep : newRows[d] \in Row
  BY DEF TypeOK
<1>2. View(t) = newRows /\ MovedBy(t)
  BY AloneView DEF KeptInv, MovedInv
<1>3. CASE Unassign(t)
  <2>1. tx'[t].at = "unassign" /\ tx'[t].down = tx[t].down /\ tx[t].at = "unassign"
    <3>1. PICK left : tx' = [tx EXCEPT ![t] = [tx[t] EXCEPT !.left = left]]
      BY <1>3 DEF Unassign, Step
    <3>2. tx[t].at = "unassign"
      BY <1>3 DEF Unassign
    <3> QED BY <1>1, <3>1, <3>2 DEF Tx
  <2>2. ASSUME NEW d \in Dep
        PROVE  newRows'[d].node = newRows[d].node \/ newRows[d].node \in tx[t].down
    <3>1. PICK e \in Dep : \/ newRows' = newRows
                           \/ /\ newRows[e].node \in tx[t].down
                              /\ newRows' = [newRows EXCEPT ![e] =
                                   [newRows[e] EXCEPT !.status = "pending", !.node = NoNode]]
      BY <1>1, <1>2, <1>3 DEF Unassign, Write, Tx
    <3> QED BY <1>1, <3>1
  <2> QED BY <1>2, <2>1, <2>2 DEF Moves, MovedBy
<1>4. CASE Assign(t)
  <2>1. PICK e \in tx[t].left :
          /\ tx' = [tx EXCEPT ![t] = [tx[t] EXCEPT !.left = tx[t].left \ {e}, !.pick = NoNode]]
          /\ newRows' = [newRows EXCEPT ![e] = [newRows[e] EXCEPT !.node = tx[t].pick]]
    BY <1>2, <1>4 DEF Assign, Write, Step
  <2>2. tx[t].at = "assign" /\ tx[t].left \subseteq Dep
    BY <1>1, <1>4 DEF Assign, Tx
  <2>3. tx'[t].at = "assign" /\ tx'[t].left = tx[t].left \ {e}
    BY <1>1, <2>1, <2>2 DEF Tx
  <2>4. \A d \in Dep : d # e => newRows'[d] = newRows[d]
    BY <1>1, <2>1, <2>2
  <2>5. \A d \in tx[t].left : newRows[d].node = NoNode
    BY <1>2, <2>2 DEF MovedBy
  <2> QED BY <2>2, <2>3, <2>4, <2>5 DEF Moves
<1>5. CASE Insert(t)
  <2>1. tx'[t].at = "insert"
    BY <1>1, <1>5 DEF Insert, Step, Tx
  <2>2. PICK e \in Dep : \E r : newRows[e] = AbsentRow /\ newRows' = [newRows EXCEPT ![e] = r]
    BY <1>5 DEF Insert, Unused, Write
  <2>3. \A d \in Dep : newRows'[d] = newRows[d] \/ newRows[d].node = NoNode
    BY <1>1, <2>2 DEF AbsentRow
  <2> QED BY <2>1, <2>3 DEF Moves
<1>6. CASE Trim(t)
  <2>1. tx'[t].at \in {"trim", "commit"}
    <3>1. CASE Step(t, [tx[t] EXCEPT !.at = "commit"])
      BY <1>1, <3>1 DEF Step, Tx
    <3>2. CASE \E d \in tx[t].left : Step(t, [tx[t] EXCEPT !.left = tx[t].left \ {d}])
      BY <1>1, <1>6, <3>2 DEF Trim, Step, Tx
    <3> QED BY <1>6, <3>1, <3>2 DEF Trim
  <2>2. \/ newRows' = newRows
        \/ \E e \in Dep : newRows' = [newRows EXCEPT ![e] = [newRows[e] EXCEPT !.status = "delete"]]
    BY <1>1, <1>2, <1>6 DEF Trim, Write, Tx
  <2>3. \A d \in Dep : newRows'[d].node = newRows[d].node
    BY <1>1, <2>2 DEF Row
  <2> QED BY <2>1, <2>3 DEF Moves
<1> QED BY <1>3, <1>4, <1>5, <1>6

LEMMA MovedWorking ==
    ASSUME TypeOK, HeardInv, AloneInv, KeptInv, NEW t \in Session, Working(t)
    PROVE  MovedInv'
<1>1. /\ tx[t].at # "idle" /\ tx'[t].alone = tx[t].alone
      /\ \A u \in Session : u # t => tx'[u] = tx[u]
      /\ rows' = rows /\ stale' = stale
  BY WorkingEffect DEF committed
<1>2. \A u \in Session : u # t => ~tx[u].alone
  BY <1>1 DEF AloneInv, OthersIdle, TypeOK, Tx
<1>3. ASSUME tx[t].alone PROVE MovedBy(t)'
  <2>1. Moves(t)
    BY <1>3, MovesStart, MovesHeartbeat, MovesRow DEF Working
  <2>2. MovedBy(t)
    BY <1>3 DEF KeptInv, MovedInv
  <2> QED BY <1>1, <2>1, <2>2 DEF Moves, MovedBy
<1> QED BY <1>1, <1>2, <1>3 DEF MovedInv

----------------------------------------------------------------------------
LEMMA KeptBegin ==
    ASSUME TypeOK, AloneInv, KeptInv, NEW t \in Session, Begin(t)
    PROVE  KeptInv'
<1>1. UNCHANGED <<newHealth, nodeOwner, newRows, owner, rows, health, stale>>
  BY DEF Begin, written, committed
<1>2. /\ tx'[t].old = stale \ {t} /\ tx'[t].at \notin {"unassign", "assign"}
      /\ tx'[t].alone => \A s \in Session : tx[s].at = "idle"
  BY DEF Begin, NoTx
<1>3. ASSUME NEW u \in Session, u # t PROVE tx'[u].alone = FALSE /\ tx'[u].old = tx[u].old
  <2>1. tx'[u] = [tx[u] EXCEPT !.alone = FALSE] /\ tx[u] \in Tx
    BY <1>3 DEF Begin, TypeOK
  <2> QED BY <2>1 DEF Tx
<1>4. DownUnseen' /\ OwnHealthy'
  BY <1>1, <1>2, <1>3 DEF KeptInv, DownUnseen, OwnHealthy, Session
<1>5. ASSUME tx'[t].alone PROVE MovedBy(t)'
  \* nobody has written anything
  <2>1. \A d \in Dep : newRows[d] = rows[d]
    BY <1>2, <1>5 DEF AloneInv, Locks, TypeOK
  <2> QED BY <1>1, <1>2, <2>1 DEF MovedBy
<1> QED BY <1>3, <1>4, <1>5 DEF KeptInv, MovedInv

LEMMA KeptEnd ==
    ASSUME TypeOK, HeardInv, AloneInv, KeptInv, NEW t \in Session, Commit(t) \/ Rollback(t)
    PROVE  KeptInv'
<1>1. /\ tx[t].at # "idle" /\ tx'[t].alone = FALSE
      /\ \A u \in Session : u # t => tx'[u].alone = tx[u].alone
  <2>1. \A u \in Session : tx[u] \in Tx
    BY DEF TypeOK
  <2>2. CASE Commit(t)
    BY <2>1, <2>2 DEF Commit, Ended, NoTx, Tx
  <2>3. CASE Rollback(t)
    BY <2>1, <2>3 DEF Rollback, NoTx, TypeOK
  <2> QED BY <2>2, <2>3
<1>2. \A u \in Session : u # t => ~tx[u].alone
  BY <1>1 DEF AloneInv, OthersIdle, TypeOK, Tx
<1> QED BY <1>1, <1>2, NodesEnd DEF KeptInv, MovedInv

LEMMA KeptNext == TypeOK /\ HeardInv /\ AloneInv /\ KeptInv /\ [Next]_vars => KeptInv'
<1> SUFFICES ASSUME TypeOK, HeardInv, AloneInv, KeptInv, [Next]_vars PROVE KeptInv'
  OBVIOUS
<1>1. ASSUME NEW t \in Session, Begin(t) PROVE KeptInv'
  BY <1>1, KeptBegin
<1>2. ASSUME NEW t \in Session, Statement(t) PROVE KeptInv'
  BY <1>2, NodesWorking, MovedWorking, KeptEnd DEF Statement, Working, KeptInv
<1>3. ASSUME NEW n \in Node, Touch(n) \/ Report(n) PROVE KeptInv'
  BY <1>3, NodesWorking, MovedWorking DEF Working, KeptInv, Session
<1>4. CASE \/ \E n \in Node : Late(n)
           \/ \E k \in Replicas : Scale(k)
           \/ Finished \/ UNCHANGED vars
  <2>1. UNCHANGED <<tx, rows, health, newRows, owner, nodeOwner, newHealth>> /\ stale \subseteq stale'
    BY <1>4 DEF Late, Scale, Finished, vars, committed, written
  <2> QED BY <2>1 DEF KeptInv, DownUnseen, OwnHealthy, MovedInv, MovedBy
<1> QED BY <1>1, <1>2, <1>3, <1>4 DEF Next

\* A commit installs what its transaction wrote, and nothing else changes rows.
LEMMA KeptStep ==
    ASSUME TypeOK, AloneInv, KeptInv, [Next]_vars,
           NEW t \in Session, tx[t].at = "commit", tx[t].alone,
           NEW d \in Dep, rows[d].node # NoNode, rows'[d].node # rows[d].node
    PROVE  rows[d].node \in stale
<1>1. ASSUME NEW u \in Session, Commit(u) PROVE rows[d].node \in stale
  <2>1. u = t
    BY <1>1 DEF Commit, AloneInv, OthersIdle
  <2>2. rows' = newRows
    BY <1>1, <2>1, AloneView DEF Commit
  <2> QED BY <2>2 DEF KeptInv, MovedInv, MovedBy
<1>2. ASSUME rows' = rows PROVE FALSE
  BY <1>2
<1>3. ASSUME NEW u \in Session, Begin(u) \/ Rollback(u) PROVE rows' = rows
  BY <1>3 DEF Begin, Rollback, committed
<1>4. ASSUME NEW u \in Session, Working(u) PROVE rows' = rows
  BY <1>4, WorkingEffect DEF committed
<1>5. CASE \/ \E m \in Node : Late(m)
           \/ \E k \in Replicas : Scale(k)
           \/ Finished \/ UNCHANGED vars
  BY <1>5 DEF Late, Scale, Finished, vars, committed
<1> QED BY <1>1, <1>2, <1>3, <1>4, <1>5 DEF Next, Statement, Working, Session

\* A reconcile that overlaps no other transaction takes a row only from a node that
\* is unseen still, whatever overlapping ones did before it (reconcile).
THEOREM KeptAloneCorrect == Spec => KeptAlone
<1>1. TypeOK /\ AloneInv /\ KeptInv /\ [Next]_vars =>
        [\A t \in Session :
           tx[t].at = "commit" /\ tx[t].alone /\ tx'[t].at = "idle" =>
             \A d \in Dep : rows[d].node # NoNode /\ rows'[d].node # rows[d].node
                             => rows[d].node \in stale]_vars
  BY KeptStep
<1> QED BY <1>1, InitType, TypeNext, HeardInit, HeardNext, AloneInit, AloneNext,
           KeptInit, KeptNext, PTL DEF Spec, KeptAlone
=============================================================================
