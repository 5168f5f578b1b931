-------------------------- MODULE ReconcileProofs --------------------------
(* What a reconcile promises when it commits, and that a deployment has one *)
(* home, for every number of nodes, apps, rows and faults.                  *)
EXTENDS ClusterProofs, WellFoundedInduction

Up(h) == \E n \in Node : h[n] = "healthy"

\* last_seen_at orders the nodes that have joined.
Ordered(l, h) ==
    /\ \A m, n \in Node : <<m, n>> \in l => h[m] # "absent" /\ h[n] # "absent"
    /\ \A n \in Node : <<n, n>> \notin l
    /\ \A k, m, n \in Node : <<k, m>> \in l /\ <<m, n>> \in l => <<k, n>> \in l

\* An app the loop of reconcile is done with, and the rows it has placed.
Fulfilled(a) ==
    /\ Cardinality(Live(tx.work, a)) <= tx.want[a]
    /\ Up(tx.health) => /\ Cardinality(Live(tx.work, a)) = tx.want[a]
                        /\ Unassigned(tx.work, a) = {}
Homed(t, h) ==
    \A d \in Dep : t[d].status \in {"pending", "running"} /\ t[d].node # NoNode =>
                      h[t[d].node] = "healthy"

\* The strengthening of ReconcilePromise: it holds of the apps that the loop has
\* left behind, and placement finds a node as long as one is healthy.
PromiseInv ==
    /\ Ordered(later, health)
    /\ tx.kind = "none" => tx.left = {} /\ tx.app = NoApp
    /\ tx.kind # "none" =>
         /\ Ordered(tx.later, tx.health) /\ Homed(tx.work, tx.health)
         /\ \A a \in apps \ tx.left : a # tx.app => Fulfilled(a)

----------------------------------------------------------------------------
(* Placement. *)

LEMMA LeastNat ==
    ASSUME NEW S \in SUBSET Nat, S # {}
    PROVE  \E x \in S : \A y \in S : x <= y
<1> DEFINE R == {ss \in Nat \X Nat : ss[1] < ss[2]}
<1>1. IsWellFoundedOn(R, Nat)
  BY NatLessThanWellFounded DEF OpToRel
<1>2. PICK x \in S : \A y \in S : <<y, x>> \notin R
  <2> HIDE DEF R
  <2> QED BY <1>1, WFMin
<1>3. ASSUME NEW y \in S PROVE x <= y
  <2>1. x \in Nat /\ y \in Nat /\ <<y, x>> \notin R
    BY <1>2
  <2> QED BY <2>1
<1> QED BY <1>3

\* Sets of rows are finite.
LEMMA RowsFinite ==
    ASSUME NEW D \in SUBSET Dep
    PROVE  IsFiniteSet(D) /\ Cardinality(D) \in Nat
<1>1. IsFiniteSet(Dep)
  BY FS_Interval, BoundsAssumption DEF Dep
<1> QED BY <1>1, FS_Subset, FS_CardinalityType

\* Of some nodes, one was seen last.
LEMMA LastSeen ==
    ASSUME NEW S \in SUBSET Node, S # {}, NEW l \in SUBSET (Node \X Node), NEW h,
           Ordered(l, h)
    PROVE  \E n \in S : \A m \in S : <<m, n>> \notin l
<1> DEFINE Before(n) == {m \in Node : <<m, n>> \in l}
           T == {Before(n) : n \in S}
<1>1. IsWellFoundedOn(StrictSubsetOrdering(Node), SUBSET Node)
  BY NodeAssumption, FS_StrictSubsetOrderingWellFounded, FS_FiniteSubsetsOfFinite
<1>2. T \subseteq SUBSET Node /\ T # {}
  OBVIOUS
<1>3. \E X \in T : \A Y \in T : <<Y, X>> \notin StrictSubsetOrdering(Node)
  <2> HIDE DEF T
  <2> QED BY <1>1, <1>2, WFMin
<1>4. PICK n \in S : \A m \in S : <<Before(m), Before(n)>> \notin StrictSubsetOrdering(Node)
  BY <1>3
<1>5. ASSUME NEW m \in S, <<m, n>> \in l PROVE FALSE
  <2>1. Before(m) \subseteq Before(n)
    BY <1>5 DEF Ordered
  <2>2. m \in Before(n) /\ m \notin Before(m)
    BY <1>5 DEF Ordered
  <2>3. Before(m) \in SUBSET Node /\ Before(n) \in SUBSET Node
    OBVIOUS
  <2>4. <<Before(m), Before(n)>> \in StrictSubsetOrdering(Node)
    <3> HIDE DEF Before
    <3> QED BY <2>1, <2>2, <2>3 DEF StrictSubsetOrdering
  <2> QED BY <1>4, <2>4
<1> QED BY <1>5

\* The query for a node finds one exactly if one is healthy.
LEMMA Placement ==
    ASSUME NEW t \in Table, NEW h \in Health, NEW l \in SUBSET (Node \X Node),
           Ordered(l, h)
    PROVE  LeastLoaded(t, h, l) # {} <=> Up(h)
<1> DEFINE loads == {Load(t, n) : n \in {m \in Node : h[m] = "healthy"}}
<1>1. \A n \in Node : Load(t, n) \in Nat
  BY RowsFinite DEF Load
<1>2. ASSUME Up(h) PROVE LeastLoaded(t, h, l) # {}
  <2>1. loads \in SUBSET Nat /\ loads # {}
    BY <1>1, <1>2 DEF Up
  <2>2. PICK x \in loads : \A y \in loads : x <= y
    <3> HIDE DEF loads
    <3> QED BY <2>1, LeastNat
  <2> DEFINE S == {n \in Node : h[n] = "healthy" /\ Load(t, n) = x}
  <2>3. S # {} /\ S \in SUBSET Node
    OBVIOUS
  <2>4. PICK n \in S : \A m \in S : <<m, n>> \notin l
    <3> HIDE DEF S
    <3> QED BY <2>3, LastSeen
  <2>5. ASSUME NEW m \in Node, h[m] = "healthy"
        PROVE  \/ Load(t, n) < Load(t, m)
               \/ Load(t, n) = Load(t, m) /\ <<m, n>> \notin l
    <3>1. Load(t, m) \in loads
      BY <2>5
    <3>2. x <= Load(t, m) /\ Load(t, m) \in Nat /\ x \in Nat
      BY <3>1, <2>2, <2>1
    <3>3. CASE Load(t, m) = x
      BY <3>3, <2>4, <2>5
    <3>4. CASE Load(t, m) # x
      BY <3>2, <3>4
    <3> QED BY <3>3, <3>4
  <2>6. n \in LeastLoaded(t, h, l)
    BY <2>5 DEF LeastLoaded
  <2> QED BY <2>6
<1>3. LeastLoaded(t, h, l) # {} => Up(h)
  BY DEF LeastLoaded, Up
<1> QED BY <1>2, <1>3

----------------------------------------------------------------------------
(* The order of the heartbeats. *)

\* Who is seen becomes the last one seen.
LEMMA TouchOrdered ==
    ASSUME NEW n \in Node, NEW h, Ordered(later, health),
           \A m \in Node : m # n => h[m] = health[m], h[n] # "absent"
    PROVE  Ordered(Touch(n), h)
<1>1. \A k, m \in Node : <<k, m>> \in Touch(n) <=>
          \/ <<k, m>> \in later /\ k # n /\ m # n
          \/ k = n /\ m # n /\ health[m] # "absent"
  BY DEF Touch
<1>2. \A k, m \in Node : <<k, m>> \in Touch(n) => h[k] # "absent" /\ h[m] # "absent"
  BY <1>1 DEF Ordered
<1>3. \A m \in Node : <<m, m>> \notin Touch(n)
  BY <1>1 DEF Ordered
<1>4. \A i, k, m \in Node : <<i, k>> \in Touch(n) /\ <<k, m>> \in Touch(n) => <<i, m>> \in Touch(n)
  BY <1>1 DEF Ordered
<1> QED BY <1>2, <1>3, <1>4 DEF Ordered

\* Marking nodes unhealthy keeps the order, and no row stays on one of them.
LEMMA BeginPromise ==
    ASSUME TypeOK, NEW kind \in {"heartbeat", "deploy"}, NEW n, NEW t \in Table,
           NEW h \in Health, NEW l, NEW s \in SUBSET Node, Ordered(l, h),
           tx' = Begin(kind, n, t, h, l, s), UNCHANGED <<apps, later, health>>,
           Ordered(later, health)
    PROVE  PromiseInv'
<1> DEFINE marked == MarkUnhealthy(h, s)
<1>1. marked \in Health /\ \A m \in Node : marked[m] = "absent" <=> h[m] = "absent"
  BY DEF MarkUnhealthy, Health
<1>2. Ordered(l, marked)
  <2> HIDE DEF marked
  <2> QED BY <1>1 DEF Ordered
<1>3. Homed(Unassign(t, marked), marked)
  <2> SUFFICES ASSUME NEW d \in Dep, Unassign(t, marked)[d].status \in {"pending", "running"},
                      Unassign(t, marked)[d].node # NoNode
               PROVE  marked[Unassign(t, marked)[d].node] = "healthy"
    BY DEF Homed
  <2>1. t[d] \in Row
    BY DEF Table
  <2> HIDE DEF marked
  <2>2. CASE /\ t[d].status \in {"running", "pending"} /\ t[d].node # NoNode
             /\ marked[t[d].node] # "healthy"
    <3>1. Unassign(t, marked)[d] = [t[d] EXCEPT !.status = "pending", !.node = NoNode]
      BY <2>2 DEF Unassign
    <3> QED BY <2>1, <3>1 DEF Row
  <2>3. CASE ~ (/\ t[d].status \in {"running", "pending"} /\ t[d].node # NoNode
                /\ marked[t[d].node] # "healthy")
    <3>1. Unassign(t, marked)[d] = t[d]
      BY <2>3 DEF Unassign
    <3> QED BY <2>3, <3>1
  <2> QED BY <2>2, <2>3
<1>4. /\ tx'.work = Unassign(t, marked) /\ tx'.health = marked /\ tx'.later = l
      /\ tx'.left = apps /\ apps' = apps /\ tx'.kind # "none"
  BY DEF Begin
<1> HIDE DEF marked
<1> QED BY <1>2, <1>3, <1>4 DEF PromiseInv, Ordered, Homed

LEMMA BeginsPromise ==
    ASSUME TypeOK, PromiseInv
    PROVE  /\ \A n \in Node : BeginHeartbeat(n) => PromiseInv'
           /\ \A a \in App : BeginDeploy(a) => PromiseInv'
<1>1. ASSUME NEW n \in Node, BeginHeartbeat(n) PROVE PromiseInv'
  <2> DEFINE h == [health EXCEPT ![n] = "healthy"]
  <2>1. Reported(n) \in Table
    <3>1. /\ \A d \in Dep : rows[d] \in Row
          /\ \A d \in Dep : inst[n][d] \in {"none", "running", "failed"}
      BY DEF TypeOK, Table
    <3>2. \A r \in Row, c \in {"running", "failed"} : [r EXCEPT !.status = c] \in Row
      BY DEF Row, LiveStatus
    <3>3. \A d \in Dep : (IF rows[d].node = n /\ inst[n][d] # "none"
                           THEN [rows[d] EXCEPT !.status = inst[n][d]] ELSE rows[d]) \in Row
      BY <3>1, <3>2
    <3> QED BY <3>3 DEF Reported, Table
  <2>2. h \in Health /\ h[n] = "healthy" /\ \A m \in Node : m # n => h[m] = health[m]
    BY DEF TypeOK, Health
  <2>3. Ordered(Touch(n), h)
    <3> HIDE DEF h
    <3> QED BY <2>2, TouchOrdered DEF PromiseInv
  <2>4. stale \ {n} \in SUBSET Node
    BY DEF TypeOK
  <2>5. tx' = Begin("heartbeat", n, Reported(n), h, Touch(n), stale \ {n})
        /\ UNCHANGED <<apps, later, health>>
    BY <1>1 DEF BeginHeartbeat, tables
  <2> HIDE DEF h
  <2> QED BY <2>1, <2>2, <2>3, <2>4, <2>5, BeginPromise DEF PromiseInv
<1>2. ASSUME NEW a \in App, BeginDeploy(a) PROVE PromiseInv'
  <2>1. tx' = Begin("deploy", NoNode, rows, health, later, stale)
        /\ UNCHANGED <<apps, later, health>>
    BY <1>2 DEF BeginDeploy, tables
  <2>2. rows \in Table /\ health \in Health /\ stale \in SUBSET Node
    BY DEF TypeOK
  <2> QED BY <2>1, <2>2, BeginPromise DEF PromiseInv
<1> QED BY <1>1, <1>2

----------------------------------------------------------------------------
(* The loops of reconcile. *)

\* A statement that leaves the rows of other apps alone keeps the promise to them.
LEMMA OthersKept ==
    ASSUME PromiseInv, tx.kind # "none", tx'.kind # "none",
           UNCHANGED <<apps, later, health>>,
           tx'.health = tx.health, tx'.later = tx.later, tx'.want = tx.want,
           tx'.left = tx.left, tx'.app = tx.app,
           Homed(tx'.work, tx.health),
           \A a \in App \ {tx.app} : /\ Live(tx'.work, a) = Live(tx.work, a)
                                     /\ Unassigned(tx'.work, a) = Unassigned(tx.work, a),
           apps \subseteq App
    PROVE  PromiseInv'
<1>1. ASSUME NEW a \in apps \ tx.left, a # tx.app PROVE Fulfilled(a)'
  <2>1. Fulfilled(a) /\ a \in App
    BY <1>1 DEF PromiseInv
  <2>2. Live(tx'.work, a) = Live(tx.work, a) /\ Unassigned(tx'.work, a) = Unassigned(tx.work, a)
    BY <1>1, <2>1
  <2>3. Fulfilled(a)' <=> /\ Cardinality(Live(tx'.work, a)) <= tx'.want[a]
                          /\ Up(tx'.health) => /\ Cardinality(Live(tx'.work, a)) = tx'.want[a]
                                               /\ Unassigned(tx'.work, a) = {}
    BY DEF Fulfilled, Up, Live, Unassigned
  <2> QED BY <2>1, <2>2, <2>3 DEF Fulfilled
<1>2. Homed(tx.work, tx.health)'
  BY DEF Homed
<1>3. Ordered(later, health)' /\ Ordered(tx.later, tx.health)'
  BY DEF PromiseInv, Ordered
<1> QED BY <1>1, <1>2, <1>3 DEF PromiseInv

\* The node of one row of the app at hand changes.
LEMMA AssignPromise == ASSUME TypeOK, PromiseInv, AssignRow, ~Quiet PROVE PromiseInv'
<1>1. PICK d \in Unassigned(tx.work, tx.app), n \in LeastLoaded(tx.work, tx.health, tx.later) :
        tx' = [tx EXCEPT !.work[d].node = n]
  BY DEF AssignRow, Oldest
<1>2. tx \in Tx /\ tx.work \in Table /\ tx.health \in Health /\ n \in Node /\ tx.health[n] = "healthy"
  BY DEF TypeOK, Tx, LeastLoaded
<1>3. d \in Dep /\ tx.work[d] \in Row /\ tx.work[d].app = tx.app
  BY <1>2 DEF Unassigned, Table
<1>4. /\ tx'.health = tx.health /\ tx'.later = tx.later /\ tx'.want = tx.want
      /\ tx'.left = tx.left /\ tx'.app = tx.app /\ tx'.kind = tx.kind
      /\ tx'.work = [tx.work EXCEPT ![d].node = n]
  BY <1>1, <1>2 DEF Tx
<1>5. /\ \A e \in Dep : e # d => tx'.work[e] = tx.work[e]
      /\ tx'.work[d].app = tx.app /\ tx'.work[d].status = tx.work[d].status
      /\ tx'.work[d].node = n
  BY <1>2, <1>3, <1>4 DEF Table, Row
<1>6. Homed(tx'.work, tx.health)
  <2>1. Homed(tx.work, tx.health)
    BY DEF PromiseInv, Quiet
  <2> QED BY <2>1, <1>2, <1>5 DEF Homed
<1>7. \A a \in App \ {tx.app} : /\ Live(tx'.work, a) = Live(tx.work, a)
                                /\ Unassigned(tx'.work, a) = Unassigned(tx.work, a)
  BY <1>3, <1>5 DEF Live, Unassigned
<1>8. UNCHANGED <<apps, later, health>> /\ apps \subseteq App
  BY DEF AssignRow, tables, TypeOK
<1> QED BY <1>4, <1>6, <1>7, <1>8, OthersKept DEF Quiet

\* A row is inserted for the app at hand, where there was none.
LEMMA InsertPromise == ASSUME TypeOK, PromiseInv, InsertRow, ~Quiet PROVE PromiseInv'
<1>1. PICK n \in LeastLoaded(tx.work, tx.health, tx.later), d \in NextId(tx.work) :
        tx' = [tx EXCEPT !.work[d] = [status |-> "pending", app |-> tx.app,
                                      node |-> n, born |-> tx.now]]
  BY DEF InsertRow
<1>2. tx \in Tx /\ tx.work \in Table /\ tx.health \in Health /\ n \in Node /\ tx.health[n] = "healthy"
  BY DEF TypeOK, Tx, LeastLoaded
<1>3. d \in Dep /\ tx.work[d].status = "absent"
  BY <1>2 DEF NextId, Free
<1>4. /\ tx'.health = tx.health /\ tx'.later = tx.later /\ tx'.want = tx.want
      /\ tx'.left = tx.left /\ tx'.app = tx.app /\ tx'.kind = tx.kind
      /\ tx'.work = [tx.work EXCEPT ![d] = [status |-> "pending", app |-> tx.app,
                                            node |-> n, born |-> tx.now]]
  BY <1>1, <1>2 DEF Tx
<1>5. /\ \A e \in Dep : e # d => tx'.work[e] = tx.work[e]
      /\ tx'.work[d].app = tx.app /\ tx'.work[d].node = n
  BY <1>2, <1>3, <1>4 DEF Table
<1>6. Homed(tx'.work, tx.health)
  <2>1. Homed(tx.work, tx.health)
    BY DEF PromiseInv, Quiet
  <2> QED BY <2>1, <1>2, <1>5 DEF Homed
<1>7. \A a \in App \ {tx.app} : /\ Live(tx'.work, a) = Live(tx.work, a)
                                /\ Unassigned(tx'.work, a) = Unassigned(tx.work, a)
  BY <1>3, <1>5 DEF Live, Unassigned, LiveStatus
<1>8. UNCHANGED <<apps, later, health>> /\ apps \subseteq App
  BY DEF InsertRow, tables, TypeOK
<1> QED BY <1>4, <1>6, <1>7, <1>8, OthersKept DEF Quiet

LEMMA NextPromise ==
    ASSUME TypeOK, PromiseInv, NEW b \in App, NextApp(b), ~Quiet PROVE PromiseInv'
<1>1. tx' = [tx EXCEPT !.app = b, !.left = tx.left \ {b}] /\ tx.app = NoApp
      /\ UNCHANGED <<apps, later, health>>
  BY DEF NextApp, tables
<1>2. tx \in Tx /\ apps \subseteq App
  BY DEF TypeOK
<1>3. /\ tx'.health = tx.health /\ tx'.later = tx.later /\ tx'.want = tx.want
      /\ tx'.left = tx.left \ {b} /\ tx'.app = b /\ tx'.work = tx.work
  BY <1>1, <1>2 DEF Tx
<1>4. ASSUME NEW a \in apps \ tx'.left, a # tx'.app PROVE Fulfilled(a)'
  <2>1. a \in apps \ tx.left /\ a # tx.app
    BY <1>1, <1>2, <1>3, <1>4, AppAssumption
  <2>2. Fulfilled(a)
    BY <2>1 DEF PromiseInv, Quiet
  <2>3. Live(tx'.work, a) = Live(tx.work, a) /\ Unassigned(tx'.work, a) = Unassigned(tx.work, a)
    BY <1>3
  <2>4. Fulfilled(a)' <=> /\ Cardinality(Live(tx'.work, a)) <= tx'.want[a]
                          /\ Up(tx'.health) => /\ Cardinality(Live(tx'.work, a)) = tx'.want[a]
                                               /\ Unassigned(tx'.work, a) = {}
    BY DEF Fulfilled, Up, Live, Unassigned
  <2> QED BY <2>2, <2>3, <2>4, <1>3 DEF Fulfilled
<1> QED BY <1>1, <1>3, <1>4 DEF PromiseInv, Quiet, Ordered, Homed

\* Once there is nothing left to place, or nowhere, trimming leaves the number of
\* rows that is wanted, or no more than that.
LEMMA TrimFulfils ==
    ASSUME TypeOK, PromiseInv, ~Quiet, tx.app \in App, Placed,
           ~Missing \/ LeastLoaded(tx.work, tx.health, tx.later) = {},
           NEW T \in Surplus(tx.work, tx.app, tx.want[tx.app]),
           NEW w \in Table, \A d \in Dep : w[d] = IF d \in T THEN [tx.work[d] EXCEPT !.status = "delete"]
                                                             ELSE tx.work[d]
    PROVE  /\ T \subseteq Live(tx.work, tx.app)
           /\ Cardinality(Live(w, tx.app)) <= tx.want[tx.app]
           /\ Up(tx.health) => /\ Cardinality(Live(w, tx.app)) = tx.want[tx.app]
                               /\ Unassigned(w, tx.app) = {}
<1> DEFINE L == Live(tx.work, tx.app)
           k == tx.want[tx.app]
<1>1. /\ tx.work \in Table /\ tx.health \in Health /\ tx.later \in SUBSET (Node \X Node)
      /\ k \in Nat /\ \A d \in Dep : tx.work[d] \in Row
  BY DEF TypeOK, Tx, Table
<1>2. L \in SUBSET Dep /\ Cardinality(L) \in Nat
  BY RowsFinite DEF Live
<1>3. T \subseteq L /\ Cardinality(T) = IF Cardinality(L) > k THEN Cardinality(L) - k ELSE 0
  <2>1. CASE Cardinality(L) - k > 0
    BY <2>1, <1>1, <1>2 DEF Surplus, Newest
  <2>2. CASE ~ (Cardinality(L) - k > 0)
    <3>1. Surplus(tx.work, tx.app, k) = {{}}
      BY <2>2 DEF Surplus
    <3>2. T = {} /\ Cardinality(T) = 0
      BY <3>1, FS_EmptySet
    <3>3. ~ (Cardinality(L) > k)
      <4> HIDE DEF L, k
      <4> QED BY <2>2, <1>1, <1>2
    <3> QED BY <3>2, <3>3
  <2> QED BY <2>1, <2>2, <1>1, <1>2
<1>4. Live(w, tx.app) = L \ T
  <2>1. \A d \in T : w[d].status = "delete"
    BY <1>1, <1>2, <1>3 DEF Row
  <2>2. \A d \in Dep \ T : w[d] = tx.work[d]
    OBVIOUS
  <2>3. \A d \in T : d \notin Live(w, tx.app)
    BY <2>1 DEF Live, LiveStatus
  <2>4. \A d \in Dep \ T : d \in Live(w, tx.app) <=> d \in L
    BY <2>2 DEF Live
  <2>5. Live(w, tx.app) \subseteq Dep
    BY DEF Live
  <2> HIDE DEF L
  <2> QED BY <1>2, <2>3, <2>4, <2>5
<1>5. Cardinality(L \ T) = Cardinality(L) - Cardinality(T)
  <2>1. IsFiniteSet(L) /\ IsFiniteSet(T) /\ L \cap T = T
    BY <1>2, <1>3, RowsFinite
  <2> HIDE DEF L
  <2> QED BY <2>1, FS_Difference
<1>6. Cardinality(L \ T) <= k
  <2> HIDE DEF L, k
  <2> QED BY <1>1, <1>2, <1>3, <1>5
<1>7. ASSUME Up(tx.health) PROVE Cardinality(L \ T) = k /\ Unassigned(w, tx.app) = {}
  <2>1. LeastLoaded(tx.work, tx.health, tx.later) # {}
    BY <1>1, <1>7, Placement DEF PromiseInv, Quiet
  <2>2. Unassigned(tx.work, tx.app) = {} /\ Cardinality(L) >= k
    BY <2>1, <1>1, <1>2 DEF Placed, Missing
  <2>3. Unassigned(w, tx.app) \subseteq Unassigned(tx.work, tx.app)
    <3>1. \A d \in T : w[d].status = "delete"
      BY <1>1, <1>2, <1>3 DEF Row
    <3> QED BY <3>1 DEF Unassigned
  <2>4. Cardinality(L \ T) = k
    <3> HIDE DEF L, k
    <3> QED BY <2>2, <1>1, <1>2, <1>3, <1>5
  <2> QED BY <2>2, <2>3, <2>4
<1> QED BY <1>3, <1>4, <1>6, <1>7

LEMMA TrimPromise == ASSUME TypeOK, PromiseInv, TrimRows, ~Quiet PROVE PromiseInv'
<1>1. PICK T \in Surplus(tx.work, tx.app, tx.want[tx.app]) :
        tx' = [tx EXCEPT !.work = [d \in Dep |-> IF d \in T
                                     THEN [tx.work[d] EXCEPT !.status = "delete"]
                                     ELSE tx.work[d]],
                         !.app = NoApp]
  BY DEF TrimRows
<1> DEFINE w == [d \in Dep |-> IF d \in T THEN [tx.work[d] EXCEPT !.status = "delete"]
                                          ELSE tx.work[d]]
<1>2. tx \in Tx /\ tx.work \in Table /\ tx.health \in Health /\ tx.app \in App /\ apps \subseteq App
  BY DEF TypeOK, Tx, TrimRows
<1>3. w \in Table /\ \A d \in Dep : w[d] = IF d \in T THEN [tx.work[d] EXCEPT !.status = "delete"]
                                                     ELSE tx.work[d]
  BY <1>2, RowType DEF Table
<1>4. /\ tx'.health = tx.health /\ tx'.later = tx.later /\ tx'.want = tx.want
      /\ tx'.left = tx.left /\ tx'.app = NoApp /\ tx'.kind = tx.kind /\ tx'.work = w
  BY <1>1, <1>2 DEF Tx
<1> HIDE DEF w
<1>5. /\ T \subseteq Live(tx.work, tx.app)
      /\ Cardinality(Live(w, tx.app)) <= tx.want[tx.app]
      /\ Up(tx.health) => /\ Cardinality(Live(w, tx.app)) = tx.want[tx.app]
                          /\ Unassigned(w, tx.app) = {}
  BY <1>2, <1>3, TrimFulfils DEF TrimRows
<1>6. \A a \in App \ {tx.app} : /\ Live(w, a) = Live(tx.work, a)
                                /\ Unassigned(w, a) = Unassigned(tx.work, a)
  <2>1. \A d \in T : d \in Dep /\ tx.work[d].app = tx.app /\ tx.work[d] \in Row
    BY <1>2, <1>5 DEF Live, Table
  <2>2. \A d \in T : w[d].app = tx.app
    BY <1>3, <2>1 DEF Row
  <2>3. ASSUME NEW a \in App \ {tx.app}, NEW d \in Dep
        PROVE  w[d] = tx.work[d] \/ (w[d].app # a /\ tx.work[d].app # a)
    BY <1>3, <2>1, <2>2
  <2>4. ASSUME NEW a \in App \ {tx.app}, NEW d \in Dep
        PROVE  (d \in Live(w, a) <=> d \in Live(tx.work, a))
               /\ (d \in Unassigned(w, a) <=> d \in Unassigned(tx.work, a))
    BY <2>3 DEF Live, Unassigned
  <2> QED BY <2>4 DEF Live, Unassigned
<1>7. ASSUME NEW a \in apps \ tx'.left PROVE Fulfilled(a)'
  <2>1. Fulfilled(a)' <=> /\ Cardinality(Live(tx'.work, a)) <= tx'.want[a]
                          /\ Up(tx'.health) => /\ Cardinality(Live(tx'.work, a)) = tx'.want[a]
                                               /\ Unassigned(tx'.work, a) = {}
    BY DEF Fulfilled, Up, Live, Unassigned
  <2>2. CASE a = tx.app
    BY <2>1, <2>2, <1>4, <1>5
  <2>3. CASE a # tx.app
    <3>1. Fulfilled(a) /\ a \in App \ {tx.app}
      BY <2>3, <1>2, <1>4, <1>7 DEF PromiseInv, Quiet
    <3>2. Live(w, a) = Live(tx.work, a) /\ Unassigned(w, a) = Unassigned(tx.work, a)
      BY <3>1, <1>6
    <3> QED BY <2>1, <3>1, <3>2, <1>4 DEF Fulfilled
  <2> QED BY <2>2, <2>3
<1>8. Homed(tx'.work, tx'.health)
  <2>1. Homed(tx.work, tx.health) /\ \A d \in Dep : tx.work[d] \in Row
    BY <1>2 DEF PromiseInv, Quiet, Table
  <2>2. \A d \in Dep : w[d].node = tx.work[d].node
                       /\ (w[d].status = tx.work[d].status \/ w[d].status = "delete")
    BY <1>3, <2>1 DEF Row
  <2> QED BY <2>1, <2>2, <1>4 DEF Homed
<1>9. UNCHANGED <<apps, later, health>>
  BY DEF TrimRows, tables
<1> QED BY <1>4, <1>7, <1>8, <1>9 DEF PromiseInv, Quiet, Ordered, Homed

----------------------------------------------------------------------------
(* Everything else. *)

\* Steps outside transactions leave the order of the heartbeats alone.
LEMMA QuietPromise ==
    ASSUME PromiseInv, tx' = tx, tx.kind = "none", UNCHANGED <<later, health>> PROVE PromiseInv'
BY DEF PromiseInv, Ordered

LEMMA JoinPromise == ASSUME TypeOK, PromiseInv, NEW n \in Node, Join(n) PROVE PromiseInv'
<1>1. /\ tx.kind = "none" /\ tx' = tx /\ later' = Touch(n)
      /\ health' = [health EXCEPT ![n] = "healthy"]
  BY DEF Join, Quiet
<1>2. health'[n] = "healthy" /\ \A m \in Node : m # n => health'[m] = health[m]
  BY <1>1 DEF TypeOK, Health
<1>3. Ordered(Touch(n), health')
  BY <1>2, TouchOrdered DEF PromiseInv
<1> QED BY <1>1, <1>3 DEF PromiseInv, Ordered

LEMMA EndPromise ==
    ASSUME TypeOK, PromiseInv, ~Quiet,
           Rollback \/ CommitDeploy \/ \E n \in Node : CommitHeartbeat(n)
    PROVE  PromiseInv'
<1>1. tx' = NoTx
  BY DEF Rollback, CommitDeploy, CommitHeartbeat, Install
<1>2. \/ later' = tx.later /\ health' = tx.health
      \/ later' = later /\ health' = health
  BY DEF Rollback, CommitDeploy, CommitHeartbeat, Install, tables
<1>3. Ordered(later', health')
  BY <1>2 DEF PromiseInv, Quiet
<1> QED BY <1>1, <1>3 DEF PromiseInv, NoTx, Ordered

LEMMA PromiseInit == Init => PromiseInv
BY DEF Init, PromiseInv, Ordered, NoTx

LEMMA PromiseNext == TypeOK /\ PromiseInv /\ [Next]_vars => PromiseInv'
<1> SUFFICES ASSUME TypeOK, PromiseInv, [Next]_vars PROVE PromiseInv'
  OBVIOUS
<1>1. CASE Transaction
  <2>1. ~Quiet
    BY <1>1, AppAssumption DEF Transaction, NextApp, AssignRow, InsertRow, TrimRows, CommitHeartbeat,
       CommitDeploy, Reconciled, Quiet, PromiseInv
  <2> QED BY <1>1, <2>1, NextPromise, AssignPromise, InsertPromise, TrimPromise, EndPromise
          DEF Transaction
<1>2. CASE Users
  BY <1>2, QuietPromise DEF Users, UserCall, Quiet, CreateApp, ScaleApp, DeployApp, DeleteApp, tables
<1>3. CASE Environment
  <2>1. CASE Rollback
    BY <2>1, EndPromise DEF Rollback
  <2>2. CASE \E c \in calls : AbandonCall(c)
    BY <2>2, QuietPromise DEF AbandonCall, Quiet, tables
  <2>3. CASE \E n \in Node : Crash(n) \/ Expire(n)
    BY <2>3, QuietPromise DEF Crash, Expire, Quiet, tables
  <2>4. CASE \E n \in Node, d \in Dep : ContainerStops(n, d)
    BY <2>4, QuietPromise DEF ContainerStops, Quiet, tables
  <2> QED BY <1>3, <2>1, <2>2, <2>3, <2>4 DEF Environment
<1>4. ASSUME NEW n \in Node, Agent(n) \/ Start(n) PROVE PromiseInv'
  <2>1. CASE Join(n)
    BY <2>1, JoinPromise
  <2>2. CASE BeginHeartbeat(n)
    BY <2>2, BeginsPromise
  <2>3. CASE Refresh(n) \/ Start(n)
    BY <2>3, QuietPromise DEF Refresh, Start, Quiet, tables
  <2>4. CASE \E d \in Dep : Run(n, d) \/ RunFails(n, d) \/ Remove(n, d) \/ RemoveFails(n, d)
    BY <2>4, QuietPromise DEF Run, RunFails, Remove, RemoveFails, Current, Quiet, tables
  <2> QED BY <1>4, <2>1, <2>2, <2>3, <2>4 DEF Agent
<1>5. ASSUME NEW a \in App, Call(a) PROVE PromiseInv'
  <2>1. CASE BeginDeploy(a)
    BY <2>1, BeginsPromise
  <2>2. CASE DeleteAppZero(a)
    BY <2>2, QuietPromise DEF DeleteAppZero, Quiet
  <2> QED BY <1>5, <2>1, <2>2 DEF Call
<1>6. CASE UNCHANGED vars
  <2>1. UNCHANGED <<apps, later, health, tx>>
    BY <1>6 DEF vars, tables
  <2> QED BY <2>1 DEF PromiseInv, Ordered, Homed, Fulfilled, Up, Live, Unassigned
<1> QED BY <1>1, <1>2, <1>3, <1>4, <1>5, <1>6 DEF Next

\* When a reconcile commits, every app has exactly the live rows it asked for,
\* placed on healthy nodes; at most as many when no node is healthy (reconcile).
THEOREM ReconcilePromiseCorrect == Spec => []ReconcilePromise
<1>1. TypeOK /\ PromiseInv => ReconcilePromise
  <2> SUFFICES ASSUME TypeOK, PromiseInv, Reconciled PROVE ReconcilePromise
    BY DEF ReconcilePromise
  <2>1. tx.kind # "none" /\ \A a \in apps : a # tx.app /\ a \notin tx.left
    BY AppAssumption DEF Reconciled, Quiet, TypeOK
  <2>2. \A a \in apps : Fulfilled(a)
    BY <2>1 DEF PromiseInv
  <2>3. Homed(tx.work, tx.health)
    BY <2>1 DEF PromiseInv
  <2> QED BY <2>2, <2>3 DEF ReconcilePromise, Fulfilled, Homed, Up
<1> QED BY <1>1, PromiseInit, PromiseNext, TypeCorrect, PTL DEF Spec

----------------------------------------------------------------------------
(* One home. *)

\* A table whose rows are placed on healthy nodes, if at all.
Settles(t, h) ==
    /\ \A d \in Dep : t[d].status = "absent" => t[d].node = NoNode
    /\ \A d \in Dep : t[d].node # NoNode => h[t[d].node] = "healthy"
    /\ \A n \in Node : h[n] # "unhealthy"

\* The strengthening of OneHome: orders to run go to the home of a row as well, and
\* no transaction is about to move a row that has one.
HomeInv ==
    /\ \A n \in Node, d \in Dep : docker[n][d] # "none" \/ todo[n][d] = "run" => rows[d].node = n
    /\ Settles(rows, health)
    /\ tx.kind # "none" =>
         /\ Settles(tx.work, tx.health)
         /\ \A d \in Dep : rows[d].node # NoNode => tx.work[d].node = rows[d].node

LEMMA HomeBegin ==
    ASSUME TypeOK, HomeInv, NEW kind, NEW n, NEW t \in Table, NEW h \in Health, NEW l,
           Settles(t, h), \A d \in Dep : t[d].node = rows[d].node,
           tx' = Begin(kind, n, t, h, l, {}), UNCHANGED <<rows, health, docker, todo>>
    PROVE  HomeInv'
<1>1. MarkUnhealthy(h, {}) = h
  BY DEF MarkUnhealthy, Health
<1>2. Unassign(t, h) = t
  BY DEF Unassign, Settles, Table
<1>3. tx'.work = t /\ tx'.health = h
  BY <1>1, <1>2 DEF Begin
<1> QED BY <1>3 DEF HomeInv, Settles

LEMMA HomeBegins ==
    ASSUME TypeOK, HomeInv, stale = {}
    PROVE  /\ \A n \in Node : BeginHeartbeat(n) => HomeInv'
           /\ \A a \in App : BeginDeploy(a) => HomeInv'
<1>1. ASSUME NEW n \in Node, BeginHeartbeat(n) PROVE HomeInv'
  <2> DEFINE h == [health EXCEPT ![n] = "healthy"]
  <2>1. /\ rows \in Table /\ \A d \in Dep : rows[d] \in Row
        /\ \A d \in Dep : inst[n][d] \in {"none", "running", "failed"}
    BY DEF TypeOK, Table
  <2>2. \A r \in Row, c \in {"running", "failed"} :
           LET q == [r EXCEPT !.status = c] IN q \in Row /\ q.node = r.node /\ q.status = c
    BY DEF Row, LiveStatus
  <2>3. \A d \in Dep : /\ Reported(n)[d] \in Row /\ Reported(n)[d].node = rows[d].node
                       /\ \/ Reported(n)[d].status = rows[d].status
                          \/ Reported(n)[d].status # "absent"
    BY <2>1, <2>2 DEF Reported
  <2>4. Reported(n) \in Table
    BY <2>3 DEF Reported, Table
  <2>5. h \in Health /\ h[n] = "healthy" /\ \A m \in Node : m # n => h[m] = health[m]
    BY DEF TypeOK, Health
  <2>6. \A d \in Dep : rows[d].node # NoNode => rows[d].node \in Node
    BY <2>1 DEF Row
  <2>7. Settles(Reported(n), h)
    <3> HIDE DEF h
    <3>1. \A d \in Dep : Reported(n)[d].status = "absent" => Reported(n)[d].node = NoNode
      BY <2>3 DEF HomeInv, Settles
    <3>2. \A d \in Dep : Reported(n)[d].node # NoNode => h[Reported(n)[d].node] = "healthy"
      BY <2>3, <2>5, <2>6 DEF HomeInv, Settles
    <3>3. \A m \in Node : h[m] # "unhealthy"
      BY <2>5 DEF HomeInv, Settles
    <3> QED BY <3>1, <3>2, <3>3 DEF Settles
  <2>8. tx' = Begin("heartbeat", n, Reported(n), h, Touch(n), {})
        /\ UNCHANGED <<rows, health, docker, todo>>
    BY <1>1 DEF BeginHeartbeat, tables, agents
  <2> HIDE DEF h
  <2> QED BY <2>3, <2>4, <2>5, <2>7, <2>8, HomeBegin
<1>2. ASSUME NEW a \in App, BeginDeploy(a) PROVE HomeInv'
  <2>1. tx' = Begin("deploy", NoNode, rows, health, later, {})
        /\ UNCHANGED <<rows, health, docker, todo>>
    BY <1>2 DEF BeginDeploy, tables, agents
  <2>2. rows \in Table /\ health \in Health /\ Settles(rows, health)
    BY DEF TypeOK, HomeInv
  <2> QED BY <2>1, <2>2, HomeBegin
<1> QED BY <1>1, <1>2

\* Placing a row that has no home, or trimming.
LEMMA HomeLoop ==
    ASSUME TypeOK, HomeInv, ~Quiet,
           (\E a \in App : NextApp(a)) \/ AssignRow \/ InsertRow \/ TrimRows
    PROVE  HomeInv'
<1>1. UNCHANGED <<rows, health, docker, todo>>
  BY DEF NextApp, AssignRow, InsertRow, TrimRows, tables, agents
<1>2. tx \in Tx /\ tx.work \in Table /\ \A d \in Dep : tx.work[d] \in Row
  BY DEF TypeOK, Tx, Table
<1>3. Settles(tx.work, tx.health)
      /\ \A d \in Dep : rows[d].node # NoNode => tx.work[d].node = rows[d].node
  BY DEF HomeInv, Quiet
<1>4. tx'.health = tx.health
  BY <1>2 DEF NextApp, AssignRow, InsertRow, TrimRows, Tx
<1> DEFINE Stays(d) ==
      /\ \/ tx'.work[d].node = tx.work[d].node
         \/ tx.work[d].node = NoNode /\ tx.health[tx'.work[d].node] = "healthy"
      /\ tx'.work[d].status = "absent" => tx'.work[d].node = tx.work[d].node
                                          /\ tx.work[d].status = "absent"
<1> SUFFICES ASSUME NEW d \in Dep PROVE Stays(d)
  <2>1. (\A d \in Dep : Stays(d)) => HomeInv'
    <3> SUFFICES ASSUME \A d \in Dep : Stays(d) PROVE HomeInv'
      OBVIOUS
    <3>1. Settles(tx.work, tx.health)'
      BY <1>3, <1>4 DEF Settles
    <3>2. \A d \in Dep : rows[d].node # NoNode => tx'.work[d].node = rows[d].node
      BY <1>3
    <3> HIDE DEF Stays
    <3> QED BY <1>1, <3>1, <3>2 DEF HomeInv, Settles
  <2> QED BY <2>1
<1>5. CASE \E a \in App : NextApp(a)
  <2>1. tx'.health = tx.health /\ tx'.work = tx.work
    BY <1>2, <1>5 DEF NextApp, Tx
  <2> QED BY <2>1
<1>6. CASE AssignRow
  <2>1. PICK e \in Dep, n \in Node :
          /\ tx' = [tx EXCEPT !.work[e].node = n]
          /\ e \in Unassigned(tx.work, tx.app) /\ tx.health[n] = "healthy"
    BY <1>6 DEF AssignRow, Oldest, Unassigned, LeastLoaded
  <2>2. tx'.health = tx.health /\ tx'.work = [tx.work EXCEPT ![e].node = n]
    BY <1>2, <2>1 DEF Tx
  <2>3. tx.work[e].node = NoNode /\ tx.work[e].status = "pending"
    BY <2>1 DEF Unassigned
  <2>4. CASE d = e
    BY <1>2, <2>1, <2>2, <2>3, <2>4 DEF Table, Row
  <2>5. CASE d # e
    BY <1>2, <2>2, <2>5 DEF Table
  <2> QED BY <2>4, <2>5
<1>7. CASE InsertRow
  <2>1. PICK e \in Dep, n \in Node :
          /\ tx' = [tx EXCEPT !.work[e] = [status |-> "pending", app |-> tx.app,
                                           node |-> n, born |-> tx.now]]
          /\ tx.work[e].status = "absent" /\ tx.health[n] = "healthy"
    BY <1>7 DEF InsertRow, NextId, Free, LeastLoaded
  <2>2. tx'.health = tx.health
        /\ tx'.work = [tx.work EXCEPT ![e] = [status |-> "pending", app |-> tx.app,
                                              node |-> n, born |-> tx.now]]
    BY <1>2, <2>1 DEF Tx
  <2>3. tx.work[e].node = NoNode
    BY <1>3, <2>1 DEF Settles
  <2>4. CASE d = e
    BY <1>2, <2>1, <2>2, <2>3, <2>4 DEF Table
  <2>5. CASE d # e
    BY <1>2, <2>2, <2>5 DEF Table
  <2> QED BY <2>4, <2>5
<1>8. CASE TrimRows
  <2>1. PICK T \in Surplus(tx.work, tx.app, tx.want[tx.app]) :
          tx' = [tx EXCEPT !.work = [e \in Dep |-> IF e \in T
                                       THEN [tx.work[e] EXCEPT !.status = "delete"]
                                       ELSE tx.work[e]],
                           !.app = NoApp]
    BY <1>8 DEF TrimRows
  <2>2. tx'.health = tx.health
        /\ tx'.work = [e \in Dep |-> IF e \in T THEN [tx.work[e] EXCEPT !.status = "delete"]
                                                ELSE tx.work[e]]
    BY <1>2, <2>1 DEF Tx
  <2> QED BY <1>2, <2>2 DEF Row
<1> QED BY <1>5, <1>6, <1>7, <1>8

LEMMA HomeEnd ==
    ASSUME TypeOK, HomeInv, ~Quiet,
           Rollback \/ CommitDeploy \/ \E n \in Node : CommitHeartbeat(n)
    PROVE  HomeInv'
<1>1. tx'.kind = "none" /\ UNCHANGED docker
  BY DEF Rollback, CommitDeploy, CommitHeartbeat, Install, NoTx, agents
<1>2. CASE Rollback
  BY <1>1, <1>2 DEF Rollback, HomeInv, Settles, tables
<1>3. CASE CommitDeploy
  <2>1. rows' = tx.work /\ health' = tx.health /\ UNCHANGED todo
    BY <1>3 DEF CommitDeploy, Install, agents
  <2> QED BY <1>1, <2>1, NodeAssumption DEF HomeInv, Settles, Quiet
<1>4. CASE \E n \in Node : CommitHeartbeat(n)
  <2>1. PICK n \in Node : CommitHeartbeat(n)
    BY <1>4
  <2>2. rows' = tx.work /\ health' = tx.health
    BY <2>1 DEF CommitHeartbeat, Install
  <2>3. \A m \in Node, d \in Dep :
           todo'[m][d] = "run" => todo[m][d] = "run" \/ (m = n /\ tx.work[d].node = n)
    BY <2>1 DEF CommitHeartbeat, Receive, Actions, Nothing, TypeOK
  <2>4. \A m \in Node, d \in Dep : docker[m][d] # "none" \/ todo[m][d] = "run" => tx.work[d].node = m
    BY NodeAssumption DEF HomeInv, Quiet
  <2> QED BY <1>1, <2>2, <2>3, <2>4 DEF HomeInv, Settles, Quiet
<1> QED BY <1>2, <1>3, <1>4

\* An agent creates the containers it was told to run, and no others.
LEMMA HomeAct ==
    ASSUME TypeOK, HomeInv, NEW n \in Node, NEW d \in Dep,
           Run(n, d) \/ RunFails(n, d) \/ Remove(n, d) \/ RemoveFails(n, d)
    PROVE  HomeInv'
<1>1. UNCHANGED <<rows, health, tx>>
  BY DEF Run, RunFails, Remove, RemoveFails, tables
<1>2. \A m \in Node, e \in Dep :
        docker'[m][e] # "none" => docker[m][e] # "none" \/ todo[m][e] = "run"
  BY DEF Run, RunFails, Remove, RemoveFails, TypeOK
<1>3. \A m \in Node, e \in Dep : todo'[m][e] = "run" => todo[m][e] = "run"
  <2>1. todo' = [todo EXCEPT ![n] = [todo[n] EXCEPT ![d] = "none"]]
    BY DEF Run, RunFails, Remove, RemoveFails, Done, Receive
  <2>2. \A m \in Node : todo[m] \in [Dep -> {"none", "run", "delete"}]
    BY DEF TypeOK
  <2> QED BY <2>1, <2>2
<1> QED BY <1>1, <1>2, <1>3 DEF HomeInv, Settles

LEMMA HomeInit == Init => HomeInv
<1> SUFFICES ASSUME Init PROVE HomeInv
  OBVIOUS
<1>1. \A d \in Dep : rows[d] = AbsentRow
  BY DEF Init, NoTx
<1>2. \A n \in Node : health[n] = "absent" /\ \A d \in Dep : docker[n][d] = "none" /\ todo[n][d] = "none"
  BY DEF Init, NoTx, Nothing
<1>3. tx.kind = "none"
  BY DEF Init, NoTx
<1> QED BY <1>1, <1>2, <1>3 DEF HomeInv, Settles, AbsentRow

\* What keeps the orders, the containers and the rows' nodes.
LEMMA HomeQuiet ==
    ASSUME HomeInv, UNCHANGED <<health, tx>>, Quiet,
           \A d \in Dep : rows'[d].node = rows[d].node
                          /\ (rows'[d].status = "absent" => rows[d].status = "absent"),
           \A n \in Node, d \in Dep : /\ docker'[n][d] # "none" => docker[n][d] # "none"
                                      /\ todo'[n][d] = "run" => todo[n][d] = "run"
    PROVE  HomeInv'
BY DEF HomeInv, Settles, Quiet

LEMMA HomeNext == TypeOK /\ PromiseInv /\ HomeInv /\ stale = {} /\ [Next]_vars => HomeInv'
<1> SUFFICES ASSUME TypeOK, PromiseInv, HomeInv, stale = {}, [Next]_vars PROVE HomeInv'
  OBVIOUS
<1>1. CASE Transaction
  <2>1. ~Quiet
    BY <1>1, AppAssumption DEF Transaction, NextApp, AssignRow, InsertRow, TrimRows, CommitHeartbeat,
       CommitDeploy, Reconciled, Quiet, PromiseInv
  <2> QED BY <1>1, <2>1, HomeLoop, HomeEnd DEF Transaction
<1>2. CASE Users
  <2>1. PICK a \in App : \/ \E k \in Replicas : CreateApp(a, k) \/ ScaleApp(a, k)
                         \/ DeployApp(a) \/ DeleteApp(a)
    BY <1>2 DEF Users
  <2>2. CASE (\E k \in Replicas : CreateApp(a, k) \/ ScaleApp(a, k)) \/ DeployApp(a)
    BY <2>2, HomeQuiet DEF UserCall, CreateApp, ScaleApp, DeployApp, tables, agents
  <2>3. CASE DeleteApp(a)
    <3>1. \A d \in Dep : rows[d] \in Row
      BY DEF TypeOK, Table
    <3>2. \A d \in Dep : rows'[d].node = rows[d].node
                         /\ (rows'[d].status = "absent" => rows[d].status = "absent")
      BY <3>1, <2>3 DEF DeleteApp, Row
    <3> QED BY <2>3, <3>2, HomeQuiet DEF DeleteApp, UserCall, agents
  <2> QED BY <2>1, <2>2, <2>3
<1>3. CASE Environment
  <2>1. CASE Rollback
    BY <2>1, HomeEnd DEF Rollback
  <2>2. CASE \E c \in calls : AbandonCall(c)
    BY <2>2, HomeQuiet DEF AbandonCall, tables, agents
  <2>3. CASE \E n \in Node : Crash(n) \/ Expire(n)
    <3>1. PICK n \in Node : Crash(n) \/ Expire(n)
      BY <2>3
    <3>2. CASE Crash(n)
      <4>1. \A m \in Node, d \in Dep : todo'[m][d] = "run" => todo[m][d] = "run"
        BY <3>2 DEF Crash, TypeOK, Nothing
      <4> QED BY <3>2, <4>1, HomeQuiet DEF Crash, tables
    <3>3. CASE Expire(n)
      BY <3>3, HomeQuiet DEF Expire, agents
    <3> QED BY <3>1, <3>2, <3>3
  <2>4. CASE \E n \in Node, d \in Dep : ContainerStops(n, d)
    <3>1. PICK n \in Node, d \in Dep : ContainerStops(n, d)
      BY <2>4
    <3>2. \A m \in Node, e \in Dep : docker'[m][e] # "none" => docker[m][e] # "none"
      BY <3>1 DEF ContainerStops, TypeOK
    <3> QED BY <3>1, <3>2, HomeQuiet DEF ContainerStops, tables
  <2> QED BY <1>3, <2>1, <2>2, <2>3, <2>4 DEF Environment
<1>4. ASSUME NEW n \in Node, Agent(n) \/ Start(n) PROVE HomeInv'
  <2>1. CASE Join(n)
    <3>1. /\ UNCHANGED <<rows, tx, docker, todo>> /\ tx.kind = "none"
          /\ \A m \in Node : health'[m] = IF m = n THEN "healthy" ELSE health[m]
      BY <2>1 DEF Join, Quiet, TypeOK, Health
    <3>2. \A d \in Dep : rows[d].node # NoNode => rows[d].node \in Node
      BY DEF TypeOK, Table, Row
    <3> QED BY <3>1, <3>2 DEF HomeInv, Settles
  <2>2. CASE BeginHeartbeat(n)
    BY <2>2, HomeBegins
  <2>3. CASE Start(n)
    BY <2>3, HomeQuiet DEF Start, tables
  <2>4. CASE Refresh(n)
    <3>1. \A m \in Node, e \in Dep : docker'[m][e] # "none" => docker[m][e] # "none"
      BY <2>4 DEF Refresh, TypeOK
    <3> QED BY <2>4, <3>1, HomeQuiet DEF Refresh, tables
  <2>5. CASE \E d \in Dep : Run(n, d) \/ RunFails(n, d) \/ Remove(n, d) \/ RemoveFails(n, d)
    BY <2>5, HomeAct
  <2> QED BY <1>4, <2>1, <2>2, <2>3, <2>4, <2>5 DEF Agent
<1>5. ASSUME NEW a \in App, Call(a) PROVE HomeInv'
  <2>1. CASE BeginDeploy(a)
    BY <2>1, HomeBegins
  <2>2. CASE DeleteAppZero(a)
    BY <2>2, HomeQuiet DEF DeleteAppZero, agents
  <2> QED BY <1>5, <2>1, <2>2 DEF Call
<1>6. CASE UNCHANGED vars
  BY <1>6 DEF vars, tables, agents, HomeInv, Settles
<1> QED BY <1>1, <1>2, <1>3, <1>4, <1>5, <1>6 DEF Next

\* As long as no node is taken for dead, a deployment has containers on its own
\* node only, whatever else fails (reconcile, run).
THEOREM OneHomeCorrect == Spec /\ [](stale = {}) => []OneHome
<1>1. HomeInv => OneHome
  BY DEF HomeInv, OneHome
<1> QED BY <1>1, HomeInit, HomeNext, PromiseInit, PromiseNext, TypeCorrect, PTL DEF Spec

----------------------------------------------------------------------------
(* When nothing is forgotten. *)

\* Every container has its row on its own node, and its agent remembers it: so it is
\* reported with every heartbeat, and removed when its row is marked 'delete'.
Remembered == \A n \in Node, d \in Dep : docker[n][d] # "none" => inst[n][d] # "none"
NoOrphan ==
    \A n \in Node, d \in Dep : docker[n][d] # "none" => rows[d].node = n /\ inst[n][d] # "none"

LEMMA RememberedNext ==
    ASSUME TypeOK, Remembered, [Next]_vars, "crash" \notin Faults, "docker" \notin Faults
    PROVE  Remembered'
<1>1. /\ inst \in [Node -> [Dep -> {"none", "running", "failed"}]]
      /\ docker \in [Node -> [Dep -> {"none", "stopped", "running"}]]
  BY DEF TypeOK
<1>2. CASE UNCHANGED <<inst, docker>>
  BY <1>2 DEF Remembered
<1>3. CASE \E n \in Node : Refresh(n)
  <2>1. PICK n \in Node : Refresh(n)
    BY <1>3
  <2>2. \A m \in Node, d \in Dep : /\ docker[m][d] = "none" => docker'[m][d] = "none"
                                   /\ inst[m][d] # "none" => inst'[m][d] # "none"
    BY <1>1, <2>1 DEF Refresh
  <2> QED BY <2>2 DEF Remembered
<1>4. CASE \E n \in Node, d \in Dep : Run(n, d)
  <2>1. PICK n \in Node, d \in Dep : Run(n, d)
    BY <1>4
  <2>2. \A m \in Node, e \in Dep : /\ inst[m][e] # "none" => inst'[m][e] # "none"
                                   /\ \/ docker'[m][e] = docker[m][e]
                                      \/ inst'[m][e] = "running"
    BY <1>1, <2>1 DEF Run
  <2> QED BY <2>2 DEF Remembered
<1>5. CASE \E n \in Node, d \in Dep : Remove(n, d)
  <2>1. PICK n \in Node, d \in Dep : Remove(n, d)
    BY <1>5
  <2>2. \A m \in Node, e \in Dep : \/ docker'[m][e] = docker[m][e] /\ inst'[m][e] = inst[m][e]
                                   \/ docker'[m][e] = "none"
    BY <1>1, <2>1 DEF Remove
  <2> QED BY <2>2 DEF Remembered
<1>6. CASE \E n \in Node, d \in Dep : ContainerStops(n, d)
  <2>1. PICK n \in Node, d \in Dep : ContainerStops(n, d)
    BY <1>6
  <2>2. UNCHANGED inst /\ \A m \in Node, e \in Dep : docker[m][e] = "none" => docker'[m][e] = "none"
    BY <1>1, <2>1 DEF ContainerStops
  <2> QED BY <2>2 DEF Remembered
<1>7. \/ UNCHANGED <<inst, docker>>
      \/ \E n \in Node : Refresh(n)
      \/ \E n \in Node, d \in Dep : Run(n, d) \/ Remove(n, d) \/ ContainerStops(n, d)
  <2>1. CASE Transaction
    BY <2>1 DEF Transaction, NextApp, AssignRow, InsertRow, TrimRows, CommitHeartbeat, CommitDeploy, agents
  <2>2. CASE Users
    BY <2>2 DEF Users, CreateApp, ScaleApp, DeployApp, DeleteApp, agents
  <2>3. CASE Environment
    BY <2>3 DEF Environment, Rollback, AbandonCall, Crash, Expire, Fault, agents
  <2>4. CASE \E n \in Node : Agent(n) \/ Start(n)
    BY <2>4 DEF Agent, Start, Join, BeginHeartbeat, RunFails, RemoveFails, Fault, agents
  <2>5. CASE \E a \in App : Call(a)
    BY <2>5 DEF Call, BeginDeploy, DeleteAppZero, agents
  <2>6. CASE UNCHANGED vars
    BY <2>6 DEF vars, agents
  <2> QED BY <2>1, <2>2, <2>3, <2>4, <2>5, <2>6 DEF Next
<1> QED BY <1>2, <1>3, <1>4, <1>5, <1>6, <1>7

\* What leaves containers behind for good (run, remove: a restarted agent takes a
\* delete action for done; reconcile: a row moved from a node that comes back) is a
\* restart, a failed Docker call or a late heartbeat, and nothing else: not a lost
\* answer, a rollback, an abandoned call nor a container that stopped.
THEOREM NoOrphanCorrect ==
    ASSUME "crash" \notin Faults, "docker" \notin Faults
    PROVE  Spec /\ [](stale = {}) => []NoOrphan
<1>1. Init => Remembered
  BY DEF Init, Remembered, Nothing
<1>2. TypeOK /\ Remembered /\ [Next]_vars => Remembered'
  BY RememberedNext
<1>3. Spec => []Remembered
  BY <1>1, <1>2, TypeCorrect, PTL DEF Spec
<1>4. HomeInv /\ Remembered => NoOrphan
  BY DEF HomeInv, Remembered, NoOrphan
<1>5. Spec /\ [](stale = {}) => []HomeInv
  BY HomeInit, HomeNext, PromiseInit, PromiseNext, TypeCorrect, PTL DEF Spec
<1> QED BY <1>3, <1>4, <1>5, PTL
=============================================================================
