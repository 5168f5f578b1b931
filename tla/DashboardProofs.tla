-------------------------- MODULE DashboardProofs --------------------------
(* Connections are counted exactly, a client has one source, and no picture  *)
(* goes back in time, for any number of clients, streams, changes and faults. *)
EXTENDS Dashboard, FiniteSetTheorems, SequenceTheorems, TLAPS

\* At most one poll is under way, and none when pollInProgress is FALSE.
Tidy(c) == /\ ~c.polling => c.polls = {}
           /\ \A r, q \in c.polls : r = q

\* What a stream has sent and is about to send is in the order of the tables.
Rising(c) ==
    /\ \A k \in 1..Len(c.sent), i \in 1..Parts : c.sent[k][i] <= version
    /\ \A k, l \in 1..Len(c.sent), i \in 1..Parts : k <= l => c.sent[k][i] <= c.sent[l][i]
    /\ \A r \in c.polls : \A i \in 1..Len(r) :
          r[i] <= version /\ \A k \in 1..Len(c.sent) : c.sent[k][i] <= r[i]

\* And is no older than the picture p.
After(c, p) ==
    /\ \A k \in 1..Len(c.sent), i \in 1..Parts : p[i] <= c.sent[k][i]
    /\ \A r \in c.polls : \A i \in 1..Len(r) : p[i] <= r[i]

Streams == \A s \in Stream : hub[s] # None => Tidy(hub[s]) /\ Rising(hub[s])

\* A client's source is a stream of its own, which will show it nothing older.
Sources ==
    /\ \A v \in Viewer : client[v].source \in Stream =>
          hub[client[v].source] # None /\ After(hub[client[v].source], view[v])
    /\ \A u, v \in Viewer : client[u].source = client[v].source /\ client[u].source \in Stream
                              => u = v

Shown(p) == \A i \in 1..Parts : p[i] <= version
Views == \A v \in Viewer \cup Watcher : Shown(view[v])

Terminals == \A w \in Watcher : watch[w] # None =>
                \A i \in 1..Len(watch[w]) : view[w][i] <= watch[w][i] /\ watch[w][i] <= version

DashboardInv ==
    /\ TypeOK /\ ActiveExact /\ OneSource
    /\ Streams /\ Sources /\ Views /\ Terminals

----------------------------------------------------------------------------
(* Requests that read part by part. *)

LEMMA Reads == Read = {r \in Seq(0..MaxChanges) : Len(r) <= Parts}
<1>1. ASSUME NEW r \in Read PROVE r \in Seq(0..MaxChanges) /\ Len(r) <= Parts
  <2>1. PICK n \in 0..Parts : r \in [1..n -> 0..MaxChanges]
    BY DEF Read
  <2>2. n \in Nat /\ n <= Parts
    BY DEF Parts
  <2>3. r \in Seq(0..MaxChanges)
    BY <2>1, <2>2, SeqDef
  <2> QED BY <2>1, <2>2, <2>3
<1>2. ASSUME NEW r \in Seq(0..MaxChanges), Len(r) <= Parts PROVE r \in Read
  <2>1. Len(r) \in 0..Parts /\ r \in [1..Len(r) -> 0..MaxChanges]
    <3>1. Len(r) \in Nat /\ r \in [1..Len(r) -> 0..MaxChanges]
      BY LenProperties
    <3> QED BY <1>2, <3>1 DEF Parts
  <2>2. \A n \in 0..Parts : r \in [1..n -> 0..MaxChanges] => r \in Read
    BY DEF Read
  <2> QED BY <2>1, <2>2
<1> QED BY <1>1, <1>2

LEMMA NextRead ==
    ASSUME NEW r \in Read, ~Whole(r), version \in 0..MaxChanges
    PROVE  /\ NextPart(r) \in Read /\ Len(NextPart(r)) = Len(r) + 1 /\ Len(r) \in Nat
           /\ \A i \in 1..Len(r) : NextPart(r)[i] = r[i]
           /\ NextPart(r)[Len(r) + 1] = version
<1>1. r \in Seq(0..MaxChanges) /\ Len(r) <= Parts /\ Len(r) # Parts /\ Len(r) \in Nat
  BY Reads, LenProperties DEF Whole
<1>2. /\ NextPart(r) \in Seq(0..MaxChanges) /\ Len(NextPart(r)) = Len(r) + 1
      /\ \A i \in 1..Len(r) : NextPart(r)[i] = r[i]
      /\ NextPart(r)[Len(r) + 1] = version
  BY <1>1, AppendProperties DEF NextPart
<1>3. Len(NextPart(r)) <= Parts
  <2>1. \A n \in Nat : n <= 3 /\ n # 3 => n + 1 <= 3
    OBVIOUS
  <2> QED BY <1>1, <1>2, <2>1 DEF Parts
<1> QED BY <1>1, <1>2, <1>3, Reads

LEMMA WholeRead ==
    ASSUME NEW r \in Read, Whole(r)
    PROVE  r \in Picture /\ Len(r) = Parts
<1>1. r \in Seq(0..MaxChanges) /\ Len(r) = Parts
  BY Reads DEF Whole
<1>2. r \in [1..Len(r) -> 0..MaxChanges]
  BY <1>1, LenProperties
<1> QED BY <1>1, <1>2 DEF Picture

LEMMA ReadParts ==
    ASSUME NEW r \in Read
    PROVE  Len(r) \in Nat /\ Len(r) <= Parts /\ \A i \in 1..Len(r) : r[i] \in 0..MaxChanges
<1>1. r \in Seq(0..MaxChanges) /\ Len(r) <= Parts
  BY Reads
<1> QED BY <1>1, LenProperties, ElementOfSeq

LEMMA PictureParts ==
    ASSUME NEW p \in Picture, NEW i \in 1..Parts
    PROVE  p[i] \in 0..MaxChanges /\ p[i] \in Nat
BY DEF Picture

LEMMA SentParts ==
    ASSUME NEW c \in Connection, NEW k \in 1..Len(c.sent)
    PROVE  c.sent[k] \in Picture
<1>1. c.sent \in Seq(Picture)
  BY DEF Connection
<1> QED BY <1>1, ElementOfSeq

----------------------------------------------------------------------------
LEMMA DashboardInit == Init => DashboardInv
<1> SUFFICES ASSUME Init PROVE DashboardInv
  OBVIOUS
<1>a. DashboardAssumption
  BY DashboardAssumption
<1>1. PICK on \in Audience :
        /\ client = [v \in Viewer |-> [source |-> None, timer |-> v \in on, stopped |-> v \notin on]]
        /\ watch = [w \in Watcher |-> IF w \in on THEN <<>> ELSE None]
  BY DEF Init
<1>2. <<>> \in Read /\ Len(<<>>) = 0
  BY Reads, EmptySeq DEF Parts
<1>3. /\ version = 0 /\ hub = [s \in Stream |-> None] /\ active = 0 /\ faults = 0
      /\ view = [v \in Viewer \cup Watcher |-> [i \in 1..Parts |-> 0]]
  BY DEF Init
<1>4. TypeOK
  <2>1. [i \in 1..Parts |-> 0] \in Picture
    BY DashboardAssumption DEF Picture
  <2>2. client \in [Viewer -> [source : Stream \cup {None, Refused}, timer : BOOLEAN, stopped : BOOLEAN]]
    BY <1>1
  <2>3. watch \in [Watcher -> Read \cup {None}]
    BY <1>1, <1>2
  <2>4. version \in 0..MaxChanges /\ active \in 0..MaxConnections /\ faults \in 0..MaxFaults
    BY <1>3, DashboardAssumption
  <2>5. hub \in [Stream -> Connection \cup {None}]
    BY <1>3
  <2>6. view \in [Viewer \cup Watcher -> Picture]
    BY <1>3, <2>1
  <2> QED BY <2>2, <2>3, <2>4, <2>5, <2>6 DEF TypeOK
<1>5. ActiveExact
  <2>1. {s \in Stream : Live(s)} = {}
    BY <1>3 DEF Live
  <2>2. Cardinality({s \in Stream : Live(s)}) = 0
    BY <2>1, FS_EmptySet
  <2>3. active = 0 /\ active <= MaxConnections
    BY <1>3, DashboardAssumption
  <2> QED BY <2>2, <2>3 DEF ActiveExact
<1>6. OneSource /\ Streams /\ Sources
  BY <1>1, <1>3, DashboardAssumption DEF OneSource, Streams, Sources, Live
<1>7. Views
  BY <1>3 DEF Views, Shown, Parts
<1>8. Terminals
  BY <1>1, <1>2, DashboardAssumption DEF Terminals
<1> QED BY <1>4, <1>5, <1>6, <1>7, <1>8 DEF DashboardInv

\* What is in the order of the tables stays so when they change.
LEMMA ChangeInv == ASSUME DashboardInv, Change PROVE DashboardInv'
<1>1. /\ TypeOK /\ version \in 0..MaxChanges /\ version' = version + 1 /\ version' \in 0..MaxChanges
      /\ UNCHANGED <<hub, active, client, watch, view, faults>>
  BY DashboardAssumption DEF DashboardInv, TypeOK, Change
<1>2. TypeOK'
  BY <1>1 DEF TypeOK
<1>3. ActiveExact' /\ OneSource'
  BY <1>1 DEF DashboardInv, ActiveExact, OneSource, Live
<1>4. Streams'
  <2> SUFFICES ASSUME NEW s \in Stream, hub[s] # None
               PROVE  Tidy(hub[s]) /\ Rising(hub[s])'
    BY <1>1 DEF Streams, Tidy
  <2>1. Tidy(hub[s]) /\ Rising(hub[s]) /\ hub[s] \in Connection
    BY <1>1 DEF DashboardInv, Streams, TypeOK
  <2>2. \A k \in 1..Len(hub[s].sent), i \in 1..Parts : hub[s].sent[k][i] \in 0..MaxChanges
    BY <2>1, SentParts, PictureParts
  <2>3. \A r \in hub[s].polls : \A i \in 1..Len(r) : r[i] \in 0..MaxChanges
    BY <2>1, ReadParts DEF Connection
  <2>4. \A n \in 0..MaxChanges : n <= version => n <= version'
    BY <1>1
  <2>5. \A k \in 1..Len(hub[s].sent), i \in 1..Parts : hub[s].sent[k][i] <= version'
    BY <2>1, <2>2, <2>4 DEF Rising
  <2>6. \A r \in hub[s].polls : \A i \in 1..Len(r) : r[i] <= version'
    BY <2>1, <2>3, <2>4 DEF Rising
  <2> QED BY <1>1, <2>1, <2>5, <2>6 DEF Rising
<1>5. Sources'
  BY <1>1 DEF DashboardInv, Sources, After
<1>6. Views'
  <2> SUFFICES ASSUME NEW v \in Viewer \cup Watcher, NEW i \in 1..Parts PROVE view[v][i] <= version'
    BY <1>1 DEF Views, Shown
  <2>1. view[v][i] \in 0..MaxChanges /\ view[v][i] <= version
    BY <1>1 DEF DashboardInv, Views, Shown, TypeOK, Picture
  <2> QED BY <1>1, <2>1
<1>7. Terminals'
  <2> SUFFICES ASSUME NEW w \in Watcher, watch[w] # None, NEW i \in 1..Len(watch[w])
               PROVE  view[w][i] <= watch[w][i] /\ watch[w][i] <= version'
    BY <1>1 DEF Terminals
  <2>1. watch[w] \in Read
    BY <1>1 DEF TypeOK
  <2>2. watch[w][i] \in 0..MaxChanges /\ view[w][i] <= watch[w][i] /\ watch[w][i] <= version
    BY <2>1, ReadParts DEF DashboardInv, Terminals
  <2> QED BY <1>1, <2>2
<1> QED BY <1>2, <1>3, <1>4, <1>5, <1>6, <1>7 DEF DashboardInv

----------------------------------------------------------------------------
(* Terminals. *)

LEMMA TerminalInv ==
    ASSUME DashboardInv, NEW w \in Watcher, WatchReads(w) \/ WatchShows(w) \/ WatchEnds(w)
    PROVE  DashboardInv'
<1>1. /\ TypeOK /\ watch[w] \in Read /\ watch[w] # None /\ Terminals /\ Views
      /\ UNCHANGED <<version, hub, active, client>>
  BY DEF DashboardInv, TypeOK, WatchReads, WatchShows, WatchEnds
<1>2. faults' \in 0..MaxFaults
  BY <1>1, DashboardAssumption DEF TypeOK, WatchReads, WatchShows, WatchEnds, Fault
<1>3. ActiveExact' /\ OneSource' /\ Streams'
  <2>1. ActiveExact' /\ OneSource'
    BY <1>1 DEF DashboardInv, ActiveExact, OneSource, Live
  <2>2. Streams'
    BY <1>1 DEF DashboardInv, Streams, Tidy, Rising
  <2> QED BY <2>1, <2>2
<1>4. CASE WatchReads(w)
  <2>1. /\ ~Whole(watch[w]) /\ watch' = [watch EXCEPT ![w] = NextPart(watch[w])]
        /\ UNCHANGED view
    BY <1>4 DEF WatchReads
  <2>2. /\ NextPart(watch[w]) \in Read /\ Len(NextPart(watch[w])) = Len(watch[w]) + 1
        /\ Len(watch[w]) \in Nat
        /\ \A i \in 1..Len(watch[w]) : NextPart(watch[w])[i] = watch[w][i]
        /\ NextPart(watch[w])[Len(watch[w]) + 1] = version
    BY <1>1, <2>1, NextRead DEF TypeOK
  <2>3. TypeOK'
    BY <1>1, <1>2, <2>1, <2>2 DEF TypeOK
  <2>4. Sources' /\ Views'
    BY <1>1, <2>1 DEF DashboardInv, Sources, After, Views, Shown
  <2>5. Terminals'
    <3> SUFFICES ASSUME NEW x \in Watcher, watch'[x] # None, NEW i \in 1..Len(watch'[x])
                 PROVE  view[x][i] <= watch'[x][i] /\ watch'[x][i] <= version
      BY <1>1, <2>1 DEF Terminals
    <3>1. CASE x # w
      BY <1>1, <2>1, <3>1 DEF TypeOK, Terminals
    <3>2. CASE x = w
      <4>1. watch'[x] = NextPart(watch[w])
        BY <1>1, <2>1, <3>2 DEF TypeOK
      <4>2. CASE i \in 1..Len(watch[w])
        BY <1>1, <2>2, <3>2, <4>1, <4>2 DEF Terminals
      <4>3. CASE i = Len(watch[w]) + 1
        <5>1. i \in 1..Parts
          BY <2>2, <4>3, ReadParts DEF Parts
        <5>2. view[w][i] <= version /\ version \in Nat
          BY <1>1, <5>1 DEF Views, Shown, TypeOK
        <5> QED BY <2>2, <3>2, <4>1, <4>3, <5>2
      <4> QED BY <2>2, <4>1, <4>2, <4>3
    <3> QED BY <3>1, <3>2
  <2> QED BY <1>3, <2>3, <2>4, <2>5 DEF DashboardInv
<1>5. CASE WatchShows(w)
  <2>1. /\ Whole(watch[w]) /\ view' = [view EXCEPT ![w] = watch[w]]
        /\ watch' = [watch EXCEPT ![w] = <<>>]
    BY <1>5 DEF WatchShows
  <2>2. watch[w] \in Picture /\ Len(watch[w]) = Parts
    BY <1>1, <2>1, WholeRead
  <2>3. <<>> \in Read /\ Len(<<>>) = 0
    BY Reads, EmptySeq DEF Parts
  <2>4. TypeOK'
    BY <1>1, <1>2, <2>1, <2>2, <2>3 DEF TypeOK
  <2>5. Views'
    BY <1>1, <2>1, <2>2 DEF Views, Shown, Terminals, TypeOK
  <2>6. \A v \in Viewer : view'[v] = view[v]
    BY <1>1, <2>1, DashboardAssumption DEF TypeOK
  <2>7. Sources'
    BY <1>1, <2>6 DEF DashboardInv, Sources, After
  <2>8. Terminals'
    BY <1>1, <2>1, <2>3 DEF Terminals, TypeOK
  <2> QED BY <1>3, <2>4, <2>5, <2>7, <2>8 DEF DashboardInv
<1>6. CASE WatchEnds(w)
  <2>1. watch' = [watch EXCEPT ![w] = None] /\ UNCHANGED view
    BY <1>6 DEF WatchEnds
  <2>2. TypeOK'
    BY <1>1, <1>2, <2>1 DEF TypeOK
  <2>3. Sources' /\ Views' /\ Terminals'
    BY <1>1, <2>1 DEF DashboardInv, Sources, After, Views, Shown, Terminals, TypeOK
  <2> QED BY <1>3, <2>2, <2>3 DEF DashboardInv
<1> QED BY <1>4, <1>5, <1>6

----------------------------------------------------------------------------
(* Streams. *)

\* A stream that goes on: c is what becomes of it.
LEMMA StreamGoes ==
    ASSUME DashboardInv, NEW s \in Stream, hub[s] # None, NEW c \in Connection,
           hub' = [hub EXCEPT ![s] = c],
           UNCHANGED <<version, active, client, watch, view>>, faults' \in 0..MaxFaults,
           c.closed = hub[s].closed, hub[s].gone => c.gone,
           Tidy(c), Rising(c),
           \A p \in Picture : Shown(p) /\ After(hub[s], p) => After(c, p)
    PROVE  DashboardInv'
<1>1. TypeOK /\ Sources /\ Views /\ c # None
  BY DashboardAssumption DEF DashboardInv
<1>2. hub'[s] = c /\ \A r \in Stream : r # s => hub'[r] = hub[r]
  BY <1>1 DEF TypeOK
<1>3. TypeOK'
  BY <1>1 DEF TypeOK
<1>4. \A r \in Stream : Live(r)' <=> Live(r)
  BY <1>1, <1>2 DEF Live
<1>5. ActiveExact'
  <2>1. {r \in Stream : Live(r)}' = {r \in Stream : Live(r)}
    BY <1>4
  <2> QED BY <2>1 DEF DashboardInv, ActiveExact
<1>6. OneSource'
  BY <1>2, <1>4 DEF DashboardInv, OneSource, Live
<1>7. Streams'
  <2> SUFFICES ASSUME NEW r \in Stream, hub'[r] # None PROVE (Tidy(hub[r]) /\ Rising(hub[r]))'
    BY DEF Streams
  <2>1. CASE r = s
    BY <1>2, <2>1 DEF Tidy, Rising
  <2>2. CASE r # s
    BY <1>2, <2>2 DEF DashboardInv, Streams, Tidy, Rising
  <2> QED BY <2>1, <2>2
<1>8. Sources'
  <2>1. ASSUME NEW v \in Viewer, client[v].source \in Stream
        PROVE  hub'[client[v].source] # None /\ After(hub[client[v].source], view[v])'
    <3>1. hub[client[v].source] # None /\ After(hub[client[v].source], view[v])
          /\ view[v] \in Picture /\ Shown(view[v])
      BY <1>1, <2>1 DEF Sources, Views, TypeOK
    <3>2. CASE client[v].source = s
      <4>1. After(c, view[v])
        BY <3>1, <3>2
      <4> QED BY <1>1, <1>2, <3>2, <4>1 DEF After
    <3>3. CASE client[v].source # s
      BY <1>2, <2>1, <3>1, <3>3 DEF After
    <3> QED BY <3>2, <3>3
  <2> QED BY <1>1, <2>1 DEF Sources
<1>9. Views' /\ Terminals'
  BY DEF DashboardInv, Views, Shown, Terminals
<1> QED BY <1>3, <1>5, <1>6, <1>7, <1>8, <1>9 DEF DashboardInv

LEMMA PollInv ==
    ASSUME DashboardInv, NEW s \in Stream,
           PollStart(s) \/ PollReads(s) \/ PollEnds(s) \/ PollFails(s) \/ Break(s)
    PROVE  DashboardInv'
<1>1. /\ hub[s] # None /\ hub[s] \in Connection /\ hub[s].polls \in SUBSET Read
      /\ hub[s].sent \in Seq(Picture) /\ Tidy(hub[s]) /\ Rising(hub[s])
      /\ hub \in [Stream -> Connection \cup {None}] /\ version \in 0..MaxChanges
  BY DEF PollStart, PollReads, PollEnds, PollFails, Break, Live, DashboardInv, TypeOK, Streams, Connection
<1>2. UNCHANGED <<version, active, client, watch, view>> /\ faults' \in 0..MaxFaults
  <2>1. faults \in 0..MaxFaults /\ MaxFaults \in Nat
    BY DashboardAssumption DEF DashboardInv, TypeOK
  <2>2. PollStart(s) \/ PollReads(s) \/ PollEnds(s) => faults' = faults
    BY DEF PollStart, PollReads, PollEnds
  <2>3. PollFails(s) \/ Break(s) => faults < MaxFaults /\ faults' = faults + 1
    BY DEF PollFails, Break, Fault
  <2>4. faults' \in 0..MaxFaults
    BY <2>1, <2>2, <2>3
  <2>5. UNCHANGED <<version, active, client, watch, view>>
    BY DEF PollStart, PollReads, PollEnds, PollFails, Break
  <2> QED BY <2>4, <2>5
<1>3. \A k \in 1..Len(hub[s].sent), i \in 1..Parts : hub[s].sent[k][i] \in Nat /\ hub[s].sent[k] \in Picture
  BY <1>1, SentParts, PictureParts
<1>4. CASE PollStart(s)
  <2> DEFINE c == [hub[s] EXCEPT !.polling = TRUE, !.polls = {<<>>}]
  <2>1. hub[s].polls = {} /\ <<>> \in Read /\ Len(<<>>) = 0
    BY <1>1, <1>4, Reads, EmptySeq DEF PollStart, MayPoll, Tidy, Parts
  <2>2. hub' = [hub EXCEPT ![s] = c]
    BY <1>1, <1>4, <2>1 DEF PollStart
  <2>3. /\ c \in Connection /\ c.closed = hub[s].closed /\ c.gone = hub[s].gone
        /\ c.polling /\ c.polls = {<<>>} /\ c.sent = hub[s].sent
    BY <1>1, <2>1 DEF Connection
  <2> HIDE DEF c
  <2>4. Tidy(c) /\ Rising(c) /\ \A p \in Picture : After(hub[s], p) => After(c, p)
    BY <1>1, <2>1, <2>3 DEF Tidy, Rising, After
  <2> QED BY <1>1, <1>2, <2>2, <2>3, <2>4, StreamGoes
<1>5. CASE PollReads(s)
  <2>1. PICK r \in hub[s].polls :
          /\ ~Whole(r)
          /\ hub' = [hub EXCEPT ![s].polls = (hub[s].polls \ {r}) \cup {NextPart(r)}]
    BY <1>5 DEF PollReads
  <2>2. /\ hub[s].polls = {r} /\ r \in Read
        /\ NextPart(r) \in Read /\ Len(NextPart(r)) = Len(r) + 1 /\ Len(r) \in Nat
        /\ \A i \in 1..Len(r) : NextPart(r)[i] = r[i]
        /\ NextPart(r)[Len(r) + 1] = version
    BY <1>1, <2>1, NextRead DEF Tidy
  <2> DEFINE c == [hub[s] EXCEPT !.polls = {NextPart(r)}]
  <2>3. hub' = [hub EXCEPT ![s] = c]
    BY <1>1, <2>1, <2>2
  <2>4. /\ c \in Connection /\ c.closed = hub[s].closed /\ c.gone = hub[s].gone
        /\ c.polling = hub[s].polling /\ c.polls = {NextPart(r)} /\ c.sent = hub[s].sent
    BY <1>1, <2>2 DEF Connection
  <2> HIDE DEF c
  <2>5. Tidy(c)
    BY <1>1, <2>2, <2>4 DEF Tidy
  <2>6. Len(r) + 1 \in 1..Parts
    BY <2>2, ReadParts DEF Parts
  <2>7. ASSUME NEW i \in 1..Len(NextPart(r))
        PROVE  \/ i \in 1..Len(r) /\ NextPart(r)[i] = r[i]
               \/ i \in 1..Parts /\ NextPart(r)[i] = version
    BY <2>2, <2>6
  <2>8. Rising(c)
    <3>1. ASSUME NEW i \in 1..Len(NextPart(r))
          PROVE  /\ NextPart(r)[i] <= version
                 /\ \A k \in 1..Len(hub[s].sent) : hub[s].sent[k][i] <= NextPart(r)[i]
      <4>1. CASE i \in 1..Len(r) /\ NextPart(r)[i] = r[i]
        BY <1>1, <2>1, <4>1 DEF Rising
      <4>2. CASE i \in 1..Parts /\ NextPart(r)[i] = version
        BY <1>1, <4>2 DEF Rising
      <4> QED BY <2>7, <4>1, <4>2
    <3> QED BY <1>1, <2>4, <3>1 DEF Rising
  <2>9. ASSUME NEW p \in Picture, Shown(p), After(hub[s], p) PROVE After(c, p)
    <3>1. \A i \in 1..Len(NextPart(r)) : p[i] <= NextPart(r)[i]
      BY <2>1, <2>7, <2>9 DEF After, Shown
    <3> QED BY <2>4, <2>9, <3>1 DEF After
  <2> QED BY <1>1, <1>2, <2>3, <2>4, <2>5, <2>8, <2>9, StreamGoes
<1>6. CASE PollEnds(s)
  <2>1. PICK r \in hub[s].polls :
          /\ Whole(r)
          /\ hub' = [hub EXCEPT ![s].polls = hub[s].polls \ {r}, ![s].polling = FALSE,
                        ![s].sent = IF hub[s].closed \/ hub[s].gone THEN hub[s].sent
                                    ELSE Append(hub[s].sent, r)]
    BY <1>6 DEF PollEnds
  <2>2. hub[s].polls = {r} /\ r \in Read /\ r \in Picture /\ Len(r) = Parts
    BY <1>1, <2>1, WholeRead DEF Tidy
  <2>3. PICK q \in Seq(Picture) :
          /\ hub' = [hub EXCEPT ![s].polls = {}, ![s].polling = FALSE, ![s].sent = q]
          /\ q = hub[s].sent \/ q = Append(hub[s].sent, r)
    <3>1. hub[s].polls \ {r} = {} /\ Append(hub[s].sent, r) \in Seq(Picture)
      BY <1>1, <2>2, AppendProperties
    <3> QED BY <1>1, <2>1, <3>1
  <2> DEFINE c == [hub[s] EXCEPT !.polls = {}, !.polling = FALSE, !.sent = q]
  <2>4. hub' = [hub EXCEPT ![s] = c]
    BY <1>1, <2>3
  <2>5. /\ c \in Connection /\ c.closed = hub[s].closed /\ c.gone = hub[s].gone
        /\ ~c.polling /\ c.polls = {} /\ c.sent = q
    BY <1>1, <2>3 DEF Connection
  <2> HIDE DEF c
  <2>6. \A k \in 1..Len(q) : \/ k \in 1..Len(hub[s].sent) /\ q[k] = hub[s].sent[k]
                             \/ k = Len(hub[s].sent) + 1 /\ q[k] = r
    BY <1>1, <2>2, <2>3, AppendProperties, LenProperties
  <2>7. Tidy(c)
    BY <2>5 DEF Tidy
  <2>8. Rising(c)
    <3>1. \A i \in 1..Parts : r[i] <= version /\ r[i] \in Nat
                              /\ \A k \in 1..Len(hub[s].sent) : hub[s].sent[k][i] <= r[i]
      BY <1>1, <2>1, <2>2 DEF Rising, Picture
    <3>2. \A k \in 1..Len(q), i \in 1..Parts : q[k][i] <= version
      BY <1>1, <2>6, <3>1 DEF Rising
    <3>3. Len(hub[s].sent) \in Nat
      BY <1>1, LenProperties
    <3>4. ASSUME NEW k \in 1..Len(q), NEW l \in 1..Len(q), NEW i \in 1..Parts, k <= l
          PROVE  q[k][i] <= q[l][i]
      <4>1. CASE k \in 1..Len(hub[s].sent) /\ l \in 1..Len(hub[s].sent)
                 /\ q[k] = hub[s].sent[k] /\ q[l] = hub[s].sent[l]
        BY <1>1, <3>4, <4>1 DEF Rising
      <4>2. CASE k \in 1..Len(hub[s].sent) /\ q[k] = hub[s].sent[k] /\ q[l] = r
        BY <3>1, <4>2
      <4>3. CASE q[k] = r /\ q[l] = r
        BY <3>1, <4>3
      <4>4. ~(k = Len(hub[s].sent) + 1 /\ l \in 1..Len(hub[s].sent))
        BY <3>3, <3>4
      <4> QED BY <2>6, <4>1, <4>2, <4>3, <4>4
    <3> QED BY <2>5, <3>2, <3>4 DEF Rising
  <2>9. ASSUME NEW p \in Picture, After(hub[s], p) PROVE After(c, p)
    <3>1. \A i \in 1..Parts : p[i] <= r[i]
      BY <2>1, <2>2, <2>9 DEF After
    <3>2. \A k \in 1..Len(q), i \in 1..Parts : p[i] <= q[k][i]
      BY <2>6, <2>9, <3>1 DEF After
    <3> QED BY <2>5, <3>2 DEF After
  <2> QED BY <1>1, <1>2, <2>4, <2>5, <2>7, <2>8, <2>9, StreamGoes
<1>7. CASE PollFails(s)
  <2>1. PICK r \in hub[s].polls :
          hub' = [hub EXCEPT ![s].polls = hub[s].polls \ {r}, ![s].polling = FALSE]
    BY <1>7 DEF PollFails
  <2>2. hub[s].polls \ {r} = {}
    BY <1>1, <2>1 DEF Tidy
  <2> DEFINE c == [hub[s] EXCEPT !.polls = {}, !.polling = FALSE]
  <2>3. hub' = [hub EXCEPT ![s] = c]
    BY <1>1, <2>1, <2>2
  <2>4. /\ c \in Connection /\ c.closed = hub[s].closed /\ c.gone = hub[s].gone
        /\ ~c.polling /\ c.polls = {} /\ c.sent = hub[s].sent
    BY <1>1 DEF Connection
  <2> HIDE DEF c
  <2>5. Tidy(c) /\ Rising(c) /\ \A p \in Picture : After(hub[s], p) => After(c, p)
    BY <1>1, <2>4 DEF Tidy, Rising, After
  <2> QED BY <1>1, <1>2, <2>3, <2>4, <2>5, StreamGoes
<1>8. CASE Break(s)
  <2> DEFINE c == [hub[s] EXCEPT !.gone = TRUE]
  <2>1. hub' = [hub EXCEPT ![s] = c]
    BY <1>1, <1>8 DEF Break
  <2>2. /\ c \in Connection /\ c.closed = hub[s].closed /\ c.gone
        /\ c.polling = hub[s].polling /\ c.polls = hub[s].polls /\ c.sent = hub[s].sent
    BY <1>1 DEF Connection
  <2> HIDE DEF c
  <2>3. Tidy(c) /\ Rising(c) /\ \A p \in Picture : After(hub[s], p) => After(c, p)
    BY <1>1, <2>2 DEF Tidy, Rising, After
  <2> QED BY <1>1, <1>2, <2>1, <2>2, <2>3, StreamGoes
<1> QED BY <1>4, <1>5, <1>6, <1>7, <1>8

\* The live streams are finitely many.
LEMMA LiveFinite == IsFiniteSet({s \in Stream : Live(s)})
BY FS_Subset, DashboardAssumption

LEMMA EndInv == ASSUME DashboardInv, NEW s \in Stream, StreamEnds(s) PROVE DashboardInv'
<1>1. /\ TypeOK /\ hub[s] # None /\ hub[s] \in Connection /\ hub[s].gone /\ Live(s)
      /\ active' = active - 1 /\ UNCHANGED <<version, client, watch, view, faults>>
      /\ hub \in [Stream -> Connection \cup {None}] /\ active \in 0..MaxConnections
  BY DEF DashboardInv, TypeOK, StreamEnds, Ends, Live
<1> DEFINE c == [hub[s] EXCEPT !.closed = TRUE]
<1>2. hub' = [hub EXCEPT ![s] = c]
  BY <1>1 DEF StreamEnds
<1>3. /\ c \in Connection /\ c.closed /\ c.gone /\ c.polling = hub[s].polling
      /\ c.polls = hub[s].polls /\ c.sent = hub[s].sent /\ c # None
  BY <1>1, DashboardAssumption DEF Connection
<1> HIDE DEF c
<1>4. hub'[s] = c /\ \A r \in Stream : r # s => hub'[r] = hub[r]
  BY <1>1, <1>2
<1>5. \A r \in Stream : Live(r)' <=> Live(r) /\ r # s
  BY <1>3, <1>4 DEF Live
<1>6. ActiveExact' /\ active' \in 0..MaxConnections
  <2> DEFINE L == {r \in Stream : Live(r)}
  <2>1. {r \in Stream : Live(r)}' = L \ {s}
    BY <1>5
  <2>2. s \in L /\ IsFiniteSet(L)
    BY <1>1, LiveFinite
  <2>3. Cardinality(L \ {s}) = Cardinality(L) - 1 /\ Cardinality(L) = active
    BY <2>2, FS_RemoveElement DEF DashboardInv, ActiveExact
  <2>4. Cardinality(L \ {s}) \in Nat
    BY <2>2, FS_RemoveElement, FS_CardinalityType
  <2> HIDE DEF L
  <2>5. Cardinality({r \in Stream : Live(r)}') = active - 1
    BY <2>1, <2>3
  <2> QED BY <1>1, <2>3, <2>4, <2>5, DashboardAssumption DEF ActiveExact
<1>7. TypeOK'
  BY <1>1, <1>2, <1>3, <1>6 DEF TypeOK
<1>8. OneSource'
  BY <1>1, <1>4, <1>5 DEF DashboardInv, OneSource
<1>9. Streams'
  <2> SUFFICES ASSUME NEW r \in Stream, hub'[r] # None PROVE (Tidy(hub[r]) /\ Rising(hub[r]))'
    BY DEF Streams
  <2>1. CASE r = s
    <3>1. Tidy(hub[s]) /\ Rising(hub[s]) /\ hub'[r] = c /\ version' = version
      BY <1>1, <1>4, <2>1 DEF DashboardInv, Streams
    <3>2. Tidy(c) /\ Rising(c)
      BY <1>3, <3>1 DEF Tidy, Rising
    <3> QED BY <3>1, <3>2 DEF Tidy, Rising
  <2>2. CASE r # s
    BY <1>1, <1>4, <2>2 DEF DashboardInv, Streams, Tidy, Rising
  <2> QED BY <2>1, <2>2
<1>10. Sources'
  <2>1. ASSUME NEW v \in Viewer, client[v].source \in Stream
        PROVE  hub'[client[v].source] # None /\ After(hub[client[v].source], view[v])'
    <3>1. hub[client[v].source] # None /\ After(hub[client[v].source], view[v])
          /\ UNCHANGED <<client, view>>
      BY <1>1, <2>1 DEF DashboardInv, Sources
    <3>2. CASE client[v].source = s
      <4>1. After(c, view[v]) /\ hub'[client[v].source] = c
        BY <1>3, <1>4, <3>1, <3>2 DEF After
      <4> QED BY <1>3, <3>1, <4>1 DEF After
    <3>3. CASE client[v].source # s
      BY <1>4, <2>1, <3>1, <3>3 DEF After
    <3> QED BY <3>2, <3>3
  <2> QED BY <1>1, <2>1 DEF DashboardInv, Sources
<1>11. Views' /\ Terminals'
  BY <1>1 DEF DashboardInv, Views, Shown, Terminals
<1> QED BY <1>6, <1>7, <1>8, <1>9, <1>10, <1>11 DEF DashboardInv

----------------------------------------------------------------------------
(* Clients of the streams. *)

LEMMA OpenInv == ASSUME DashboardInv, NEW v \in Viewer, Open(v) PROVE DashboardInv'
<1>1. /\ TypeOK /\ client[v].timer /\ client[v].source = None /\ ~client[v].stopped
      /\ UNCHANGED <<version, watch, view, faults>>
      /\ client \in [Viewer -> [source : Stream \cup {None, Refused}, timer : BOOLEAN, stopped : BOOLEAN]]
      /\ hub \in [Stream -> Connection \cup {None}] /\ active \in 0..MaxConnections
  BY DEF DashboardInv, TypeOK, Open, OneSource
<1>2. \A x \in Stream \cup {Refused} : Fired(x) = [source |-> x, timer |-> FALSE, stopped |-> FALSE]
  BY DEF Fired
<1>3. Views' /\ Terminals'
  BY <1>1 DEF DashboardInv, Views, Shown, Terminals
<1>4. CASE ~Room
  <2>1. /\ client' = [client EXCEPT ![v] = [source |-> Refused, timer |-> FALSE, stopped |-> FALSE]]
        /\ UNCHANGED <<hub, active>>
    BY <1>2, <1>4 DEF Open
  <2>2. TypeOK'
    BY <1>1, <2>1 DEF TypeOK
  <2>3. ActiveExact' /\ Streams'
    BY <1>1, <2>1 DEF DashboardInv, ActiveExact, Live, Streams, Tidy, Rising
  <2>4. \A u \in Viewer : client'[u] = IF u = v
                             THEN [source |-> Refused, timer |-> FALSE, stopped |-> FALSE]
                             ELSE client[u]
    BY <1>1, <2>1
  <2>5. OneSource'
    <3>1. ASSUME NEW u \in Viewer
          PROVE  IF client'[u].stopped THEN client'[u].source = None /\ ~client'[u].timer
                 ELSE client'[u].timer = (client'[u].source = None)
      <4>1. CASE u = v
        <5>1. client'[u] = [source |-> Refused, timer |-> FALSE, stopped |-> FALSE] /\ Refused # None
          BY <2>4, <4>1, DashboardAssumption
        <5>2. client'[u].source # None /\ client'[u].timer = FALSE /\ client'[u].stopped = FALSE
          BY <5>1
        <5> QED BY <5>2
      <4>2. CASE u # v
        BY <2>4, <4>2 DEF DashboardInv, OneSource
      <4> QED BY <4>1, <4>2
    <3>2. ASSUME NEW s \in Stream, Live(s), ~hub[s].gone
          PROVE  \E u \in Viewer : client'[u].source = s
      <4>1. PICK u \in Viewer : client[u].source = s
        BY <3>2 DEF DashboardInv, OneSource
      <4>2. u # v
        BY <1>1, <4>1, DashboardAssumption
      <4> QED BY <2>4, <4>1, <4>2
    <3>3. \A s \in Stream : Live(s)' <=> Live(s)
      BY <2>1 DEF Live
    <3> QED BY <2>1, <3>1, <3>2, <3>3 DEF OneSource
  <2>6. Sources'
    BY <1>1, <2>1, <2>4, DashboardAssumption DEF DashboardInv, Sources, After
  <2> QED BY <1>3, <2>2, <2>3, <2>5, <2>6 DEF DashboardInv
<1>5. CASE Room
  <2>1. PICK s \in Stream :
          /\ Forgotten(s) /\ hub' = [hub EXCEPT ![s] = Opened] /\ active' = active + 1
          /\ client' = [client EXCEPT ![v] = [source |-> s, timer |-> FALSE, stopped |-> FALSE]]
    BY <1>2, <1>5 DEF Open
  <2>2. /\ Opened \in Connection /\ Opened # None /\ ~Opened.closed /\ ~Opened.polling
        /\ Opened.polls = {} /\ Opened.sent = <<>> /\ Len(<<>>) = 0
    <3>1. <<>> \in Seq(Picture) /\ Len(<<>>) = 0 /\ {} \in SUBSET Read
      BY EmptySeq
    <3>2. Opened \in Connection
      BY <3>1 DEF Opened, Connection
    <3> QED BY <3>1, <3>2, DashboardAssumption DEF Opened
  <2>3. hub'[s] = Opened /\ \A r \in Stream : r # s => hub'[r] = hub[r]
    BY <1>1, <2>1
  <2>4. \A u \in Viewer : client'[u] = IF u = v
                             THEN [source |-> s, timer |-> FALSE, stopped |-> FALSE]
                             ELSE client[u]
    BY <1>1, <2>1
  <2>5. ~Live(s) /\ \A r \in Stream : Live(r)' <=> Live(r) \/ r = s
    BY <2>1, <2>2, <2>3 DEF Live, Forgotten
  <2>6. ActiveExact' /\ active' \in 0..MaxConnections
    <3> DEFINE L == {r \in Stream : Live(r)}
    <3>1. {r \in Stream : Live(r)}' = L \cup {s}
      BY <2>5
    <3>2. s \notin L /\ IsFiniteSet(L)
      BY <2>5, LiveFinite
    <3>3. Cardinality(L \cup {s}) = Cardinality(L) + 1 /\ Cardinality(L) = active
      BY <3>2, FS_AddElement DEF DashboardInv, ActiveExact
    <3>4. active + 1 <= MaxConnections
      BY <1>1, <1>5, DashboardAssumption DEF Room
    <3> HIDE DEF L
    <3>5. Cardinality({r \in Stream : Live(r)}') = active + 1
      BY <3>1, <3>3
    <3> QED BY <1>1, <2>1, <3>4, <3>5, DashboardAssumption DEF ActiveExact
  <2>7. TypeOK'
    BY <1>1, <2>1, <2>2, <2>6 DEF TypeOK
  <2>8. OneSource'
    <3>1. ASSUME NEW u \in Viewer
          PROVE  IF client'[u].stopped THEN client'[u].source = None /\ ~client'[u].timer
                 ELSE client'[u].timer = (client'[u].source = None)
      <4>1. CASE u = v
        <5>1. client'[u] = [source |-> s, timer |-> FALSE, stopped |-> FALSE] /\ s # None
          BY <2>4, <4>1, DashboardAssumption
        <5>2. client'[u].source # None /\ client'[u].timer = FALSE /\ client'[u].stopped = FALSE
          BY <5>1
        <5> QED BY <5>2
      <4>2. CASE u # v
        BY <2>4, <4>2 DEF DashboardInv, OneSource
      <4> QED BY <4>1, <4>2
    <3>2. ASSUME NEW r \in Stream, Live(r)', ~hub'[r].gone
          PROVE  \E u \in Viewer : client'[u].source = r
      <4>1. CASE r = s
        BY <2>4, <4>1
      <4>2. CASE r # s
        <5>1. PICK u \in Viewer : client[u].source = r
          BY <2>3, <2>5, <3>2, <4>2 DEF DashboardInv, OneSource
        <5>2. u # v
          BY <1>1, <5>1, DashboardAssumption
        <5> QED BY <2>4, <5>1, <5>2
      <4> QED BY <4>1, <4>2
    <3> QED BY <3>1, <3>2 DEF OneSource
  <2>9. Streams'
    <3> SUFFICES ASSUME NEW r \in Stream, hub'[r] # None PROVE (Tidy(hub[r]) /\ Rising(hub[r]))'
      BY DEF Streams
    <3>1. CASE r = s
      BY <2>2, <2>3, <3>1 DEF Tidy, Rising
    <3>2. CASE r # s
      BY <1>1, <2>3, <3>2 DEF DashboardInv, Streams, Tidy, Rising
    <3> QED BY <3>1, <3>2
  <2>10. \A u \in Viewer : client[u].source # s
    BY <2>1 DEF Forgotten
  <2>11. Sources'
    <3>1. ASSUME NEW u \in Viewer, client'[u].source \in Stream
          PROVE  hub'[client'[u].source] # None /\ After(hub[client[u].source], view[u])'
      <4>1. CASE u = v
        BY <2>2, <2>3, <2>4, <4>1 DEF After
      <4>2. CASE u # v
        BY <1>1, <2>3, <2>4, <2>10, <3>1, <4>2 DEF DashboardInv, Sources, After
      <4> QED BY <4>1, <4>2
    <3>2. \A u, w \in Viewer : client'[u].source = client'[w].source /\ client'[u].source \in Stream
                                 => u = w
      BY <2>4, <2>10 DEF DashboardInv, Sources
    <3> QED BY <3>1, <3>2 DEF Sources
  <2> QED BY <1>3, <2>6, <2>7, <2>8, <2>9, <2>11 DEF DashboardInv
<1> QED BY <1>4, <1>5

LEMMA ErrorInv == ASSUME DashboardInv, NEW v \in Viewer, Error(v) PROVE DashboardInv'
<1>1. /\ TypeOK /\ UNCHANGED <<version, hub, active, watch, view, faults>>
      /\ client \in [Viewer -> [source : Stream \cup {None, Refused}, timer : BOOLEAN, stopped : BOOLEAN]]
      /\ Broken(client[v].source)
  BY DEF DashboardInv, TypeOK, Error
<1>2. \A u \in Viewer : /\ u # v => client'[u] = client[u]
                        /\ u = v => /\ client'[u].source = None /\ client'[u].timer = TRUE
                                    /\ client'[u].stopped = client[u].stopped
  BY <1>1 DEF Error
<1>3. TypeOK'
  BY <1>1 DEF Error, TypeOK
<1>4. ActiveExact' /\ Streams' /\ Views' /\ Terminals'
  <2>1. ActiveExact'
    BY <1>1 DEF DashboardInv, ActiveExact, Live
  <2>2. Streams'
    BY <1>1 DEF DashboardInv, Streams, Tidy, Rising
  <2>3. Views' /\ Terminals'
    BY <1>1 DEF DashboardInv, Views, Shown, Terminals
  <2> QED BY <2>1, <2>2, <2>3
<1>5. client[v].source # None /\ ~client[v].stopped
  BY <1>1, DashboardAssumption DEF Broken, DashboardInv, OneSource
<1>6. OneSource'
  <2>1. \A u \in Viewer : IF client'[u].stopped THEN client'[u].source = None /\ ~client'[u].timer
                          ELSE client'[u].timer = (client'[u].source = None)
    <3> SUFFICES ASSUME NEW u \in Viewer
                 PROVE  IF client'[u].stopped THEN client'[u].source = None /\ ~client'[u].timer
                        ELSE client'[u].timer = (client'[u].source = None)
      OBVIOUS
    <3>1. CASE u = v
      <4>1. client'[u].source = None /\ client'[u].timer = TRUE /\ client'[u].stopped = client[v].stopped
        BY <1>2, <3>1
      <4> QED BY <1>5, <4>1
    <3>2. CASE u # v
      BY <1>2, <3>2 DEF DashboardInv, OneSource
    <3> QED BY <3>1, <3>2
  <2>2. ASSUME NEW s \in Stream, Live(s), ~hub[s].gone
        PROVE  \E u \in Viewer : client'[u].source = s
    <3>1. PICK u \in Viewer : client[u].source = s
      BY <2>2 DEF DashboardInv, OneSource
    <3>2. u # v
      BY <1>1, <2>2, <3>1, DashboardAssumption DEF Broken, Live
    <3> QED BY <1>2, <3>1, <3>2
  <2>3. \A s \in Stream : Live(s)' <=> Live(s)
    BY <1>1 DEF Live
  <2> QED BY <1>1, <2>1, <2>2, <2>3 DEF OneSource
<1>7. Sources'
  <2>1. \A u \in Viewer : client'[u].source \in Stream => u # v /\ client'[u] = client[u]
    BY <1>2, DashboardAssumption
  <2> QED BY <1>1, <2>1 DEF DashboardInv, Sources, After
<1> QED BY <1>3, <1>4, <1>6, <1>7 DEF DashboardInv

LEMMA MessageInv == ASSUME DashboardInv, NEW v \in Viewer, Message(v) PROVE DashboardInv'
<1>1. PICK s \in Stream : /\ s = client[v].source /\ hub[s].sent # <<>>
                          /\ view' = [view EXCEPT ![v] = Head(hub[s].sent)]
                          /\ hub' = [hub EXCEPT ![s].sent = Tail(hub[s].sent)]
  BY DEF Message
<1>2. /\ TypeOK /\ hub[s] # None /\ hub[s] \in Connection /\ hub[s].sent \in Seq(Picture)
      /\ Tidy(hub[s]) /\ Rising(hub[s]) /\ After(hub[s], view[v])
      /\ hub \in [Stream -> Connection \cup {None}] /\ version \in 0..MaxChanges
      /\ view \in [Viewer \cup Watcher -> Picture]
      /\ UNCHANGED <<version, active, client, watch, faults>>
  BY <1>1 DEF DashboardInv, TypeOK, Sources, Streams, Connection, Message
<1> DEFINE q == hub[s].sent
           c == [hub[s] EXCEPT !.sent = Tail(q)]
<1>3. /\ Len(q) \in Nat /\ Len(q) # 0 /\ Head(q) = q[1] /\ Head(q) \in Picture
      /\ Tail(q) \in Seq(Picture) /\ Len(Tail(q)) = Len(q) - 1
      /\ \A k \in 1..Len(Tail(q)) : Tail(q)[k] = q[k + 1]
  BY <1>1, <1>2, HeadTailProperties, LenProperties, EmptySeq
<1>4. hub' = [hub EXCEPT ![s] = c]
  BY <1>1
<1>5. /\ c \in Connection /\ c.closed = hub[s].closed /\ c.gone = hub[s].gone /\ c # None
      /\ c.polling = hub[s].polling /\ c.polls = hub[s].polls /\ c.sent = Tail(q)
  BY <1>2, <1>3, DashboardAssumption DEF Connection
<1> HIDE DEF c
<1>6. hub'[s] = c /\ \A r \in Stream : r # s => hub'[r] = hub[r]
  BY <1>2, <1>4
<1>7. view'[v] = q[1] /\ \A u \in Viewer \cup Watcher : u # v => view'[u] = view[u]
  BY <1>1, <1>2, <1>3
<1>8. TypeOK'
  <2>1. hub' \in [Stream -> Connection \cup {None}]
    BY <1>2, <1>4, <1>5
  <2>2. view' \in [Viewer \cup Watcher -> Picture]
    BY <1>1, <1>2, <1>3
  <2> QED BY <1>2, <2>1, <2>2 DEF TypeOK
<1>9. \A r \in Stream : Live(r)' <=> Live(r)
  BY <1>2, <1>5, <1>6 DEF Live
<1>10. ActiveExact'
  <2>1. {r \in Stream : Live(r)}' = {r \in Stream : Live(r)}
    BY <1>9
  <2> QED BY <1>2, <2>1 DEF DashboardInv, ActiveExact
<1>11. OneSource'
  BY <1>2, <1>5, <1>6, <1>9 DEF DashboardInv, OneSource
<1>12. \A k \in 1..Len(Tail(q)) : k + 1 \in 1..Len(q) /\ Tail(q)[k] = q[k + 1]
  BY <1>3
<1>13. 1 \in 1..Len(q)
  BY <1>3
<1>14. Tidy(c) /\ Rising(c)
  <2>1. \A k \in 1..Len(Tail(q)), i \in 1..Parts : Tail(q)[k][i] <= version
    BY <1>2, <1>12 DEF Rising
  <2>2. ASSUME NEW k \in 1..Len(Tail(q)), NEW l \in 1..Len(Tail(q)), NEW i \in 1..Parts, k <= l
        PROVE  Tail(q)[k][i] <= Tail(q)[l][i]
    <3>1. k + 1 <= l + 1
      BY <2>2
    <3> QED BY <1>2, <1>12, <3>1 DEF Rising
  <2>3. \A r \in c.polls : \A i \in 1..Len(r) :
          r[i] <= version /\ \A k \in 1..Len(Tail(q)) : Tail(q)[k][i] <= r[i]
    BY <1>2, <1>5, <1>12 DEF Rising
  <2>4. Tidy(c)
    BY <1>2, <1>5 DEF Tidy
  <2> HIDE DEF q
  <2> QED BY <1>5, <2>1, <2>2, <2>3, <2>4 DEF Rising
<1>15. Streams'
  <2> SUFFICES ASSUME NEW r \in Stream, hub'[r] # None PROVE (Tidy(hub[r]) /\ Rising(hub[r]))'
    BY DEF Streams
  <2>1. CASE r = s
    BY <1>2, <1>6, <1>14, <2>1 DEF Tidy, Rising
  <2>2. CASE r # s
    BY <1>2, <1>6, <2>2 DEF DashboardInv, Streams, Tidy, Rising
  <2> QED BY <2>1, <2>2
<1>16. After(c, q[1])
  <2>1. \A k \in 1..Len(Tail(q)), i \in 1..Parts : q[1][i] <= Tail(q)[k][i]
    <3> SUFFICES ASSUME NEW k \in 1..Len(Tail(q)), NEW i \in 1..Parts
                 PROVE  q[1][i] <= Tail(q)[k][i]
      OBVIOUS
    <3>1. 1 <= k + 1 /\ k + 1 \in 1..Len(q)
      BY <1>12
    <3> QED BY <1>2, <1>12, <1>13, <3>1 DEF Rising
  <2>2. \A r \in c.polls : \A i \in 1..Len(r) : q[1][i] <= r[i]
    BY <1>2, <1>5, <1>13 DEF Rising
  <2> QED BY <1>5, <2>1, <2>2 DEF After
<1>17. Sources'
  <2>1. ASSUME NEW u \in Viewer, client[u].source \in Stream
        PROVE  hub'[client[u].source] # None /\ After(hub[client[u].source], view[u])'
    <3>1. CASE u = v
      <4>1. hub'[client'[u].source] = c /\ view'[u] = q[1] /\ client'[u].source = client[u].source
        BY <1>1, <1>2, <1>6, <1>7, <3>1
      <4> HIDE DEF q
      <4> QED BY <1>5, <1>16, <4>1 DEF After
    <3>2. CASE u # v
      <4>1. client[u].source # s
        BY <1>1, <2>1, <3>2 DEF DashboardInv, Sources
      <4>2. hub'[client'[u].source] = hub[client[u].source] /\ view'[u] = view[u]
            /\ client'[u].source = client[u].source
        BY <1>2, <1>6, <1>7, <2>1, <3>2, <4>1
      <4>3. hub[client[u].source] # None /\ After(hub[client[u].source], view[u])
        BY <2>1 DEF DashboardInv, Sources
      <4> QED BY <4>2, <4>3 DEF After
    <3> QED BY <3>1, <3>2
  <2> QED BY <1>2, <2>1 DEF DashboardInv, Sources
<1>18. Views'
  <2>1. \A i \in 1..Parts : q[1][i] <= version
    BY <1>2, <1>13 DEF Rising
  <2> QED BY <1>2, <1>7, <2>1 DEF DashboardInv, Views, Shown
<1>19. Terminals'
  <2>1. \A w \in Watcher : view'[w] = view[w]
    BY <1>7, DashboardAssumption
  <2> QED BY <1>2, <2>1 DEF DashboardInv, Terminals
<1> QED BY <1>8, <1>10, <1>11, <1>15, <1>17, <1>18, <1>19 DEF DashboardInv

LEMMA DisconnectInv == ASSUME DashboardInv, NEW v \in Viewer, Disconnect(v) PROVE DashboardInv'
<1>1. /\ TypeOK /\ UNCHANGED <<version, active, watch, view, faults>>
      /\ client \in [Viewer -> [source : Stream \cup {None, Refused}, timer : BOOLEAN, stopped : BOOLEAN]]
      /\ hub \in [Stream -> Connection \cup {None}]
      /\ hub' = Left(client[v].source)
  BY DEF DashboardInv, TypeOK, Disconnect
<1>2. \A u \in Viewer : /\ u # v => client'[u] = client[u]
                        /\ u = v => client'[u].source = None /\ ~client'[u].timer /\ client'[u].stopped
  BY <1>1 DEF Disconnect, Quit
<1>3. ASSUME NEW r \in Stream
      PROVE  /\ hub'[r] \in Connection \cup {None} /\ (hub'[r] # None <=> hub[r] # None)
             /\ hub[r] # None =>
                  /\ hub'[r].closed = hub[r].closed /\ hub'[r].polling = hub[r].polling
                  /\ hub'[r].polls = hub[r].polls /\ hub'[r].sent = hub[r].sent
                  /\ hub'[r].gone = (hub[r].gone \/ r = client[v].source)
  <2>1. CASE client[v].source = r
    <3>1. hub[r] # None /\ hub[r] \in Connection
      BY <1>1, <2>1 DEF DashboardInv, Sources
    <3>2. hub'[r] = [hub[r] EXCEPT !.gone = TRUE]
      BY <1>1, <2>1 DEF Left
    <3>3. /\ hub'[r] \in Connection
          /\ hub'[r].closed = hub[r].closed /\ hub'[r].polling = hub[r].polling
          /\ hub'[r].polls = hub[r].polls /\ hub'[r].sent = hub[r].sent /\ hub'[r].gone = TRUE
      BY <3>1, <3>2 DEF Connection
    <3> QED BY <2>1, <3>1, <3>3, DashboardAssumption
  <2>2. CASE client[v].source # r
    <3>1. hub'[r] = hub[r] /\ hub[r] \in Connection \cup {None}
      BY <1>1, <2>2 DEF Left
    <3>2. hub[r] # None => hub[r].gone \in BOOLEAN
      BY <3>1 DEF Connection
    <3> QED BY <2>2, <3>1, <3>2
  <2> QED BY <2>1, <2>2
<1>4. TypeOK'
  <2>1. hub' \in [Stream -> Connection \cup {None}]
    BY <1>1, <1>3 DEF Left
  <2>2. client' \in [Viewer -> [source : Stream \cup {None, Refused}, timer : BOOLEAN, stopped : BOOLEAN]]
    BY <1>1 DEF Disconnect, Quit
  <2> QED BY <1>1, <2>1, <2>2 DEF TypeOK
<1>5. \A r \in Stream : Live(r)' <=> Live(r)
  BY <1>3 DEF Live
<1>6. ActiveExact'
  <2>1. {r \in Stream : Live(r)}' = {r \in Stream : Live(r)}
    BY <1>5
  <2> QED BY <1>1, <2>1 DEF DashboardInv, ActiveExact
<1>7. OneSource'
  <2>1. \A u \in Viewer : IF client'[u].stopped THEN client'[u].source = None /\ ~client'[u].timer
                          ELSE client'[u].timer = (client'[u].source = None)
    BY <1>2 DEF DashboardInv, OneSource
  <2>2. ASSUME NEW s \in Stream, Live(s), ~hub'[s].gone
        PROVE  \E u \in Viewer : client'[u].source = s
    <3>1. hub[s] # None /\ ~hub[s].gone /\ s # client[v].source
      BY <1>3, <2>2 DEF Live
    <3>2. PICK u \in Viewer : client[u].source = s
      BY <2>2, <3>1 DEF DashboardInv, OneSource
    <3> QED BY <1>2, <3>1, <3>2
  <2> QED BY <1>5, <2>1, <2>2 DEF OneSource
<1>8. Streams'
  <2> SUFFICES ASSUME NEW r \in Stream, hub'[r] # None PROVE (Tidy(hub[r]) /\ Rising(hub[r]))'
    BY DEF Streams
  <2>1. /\ hub'[r].polling = hub[r].polling /\ hub'[r].polls = hub[r].polls
        /\ hub'[r].sent = hub[r].sent /\ version' = version
        /\ Tidy(hub[r]) /\ Rising(hub[r])
    BY <1>1, <1>3 DEF DashboardInv, Streams
  <2> QED BY <2>1 DEF Tidy, Rising
<1>9. Sources'
  <2>1. \A u \in Viewer : client'[u].source \in Stream => u # v /\ client'[u] = client[u]
    BY <1>2, DashboardAssumption
  <2>2. ASSUME NEW u \in Viewer, client'[u].source \in Stream
        PROVE  hub'[client'[u].source] # None /\ After(hub[client[u].source], view[u])'
    <3>1. client'[u] = client[u] /\ hub[client[u].source] # None
          /\ After(hub[client[u].source], view[u])
      BY <2>1, <2>2 DEF DashboardInv, Sources
    <3> QED BY <1>1, <1>3, <2>2, <3>1 DEF After
  <2> QED BY <2>1, <2>2 DEF DashboardInv, Sources
<1>10. Views' /\ Terminals'
  BY <1>1 DEF DashboardInv, Views, Shown, Terminals
<1> QED BY <1>4, <1>6, <1>7, <1>8, <1>9, <1>10 DEF DashboardInv

----------------------------------------------------------------------------
LEMMA DashboardNext == DashboardInv /\ [Next]_vars => DashboardInv'
<1> SUFFICES ASSUME DashboardInv, [Next]_vars PROVE DashboardInv'
  OBVIOUS
<1>1. CASE Change
  BY <1>1, ChangeInv
<1>2. CASE \E w \in Watcher : Terminal(w) \/ WatchEnds(w)
  BY <1>2, TerminalInv DEF Terminal
<1>3. CASE \E s \in Stream : Hub(s) \/ PollFails(s) \/ Break(s)
  BY <1>3, PollInv, EndInv DEF Hub
<1>4. CASE \E v \in Viewer : Page(v) \/ Disconnect(v)
  BY <1>4, OpenInv, ErrorInv, MessageInv, DisconnectInv DEF Page
<1>5. CASE UNCHANGED vars
  <2>1. UNCHANGED <<version, hub, active, client, watch, view, faults>>
    BY <1>5 DEF vars
  <2>2. TypeOK' /\ ActiveExact' /\ OneSource'
    BY <2>1 DEF DashboardInv, TypeOK, ActiveExact, OneSource, Live
  <2>3. Streams'
    BY <2>1 DEF DashboardInv, Streams, Tidy, Rising
  <2>4. Sources'
    BY <2>1 DEF DashboardInv, Sources, After
  <2>5. Views'
    BY <2>1 DEF DashboardInv, Views, Shown
  <2>6. Terminals'
    BY <2>1 DEF DashboardInv, Terminals
  <2> QED BY <2>2, <2>3, <2>4, <2>5, <2>6 DEF DashboardInv
<1> QED BY <1>1, <1>2, <1>3, <1>4, <1>5 DEF Next

LEMMA DashboardCorrect == Spec => []DashboardInv
BY DashboardInit, DashboardNext, PTL DEF Spec

\* Streams, clients, terminals and pictures keep their types (events.ts, sse.ts).
THEOREM DashboardTypeCorrect == Spec => []TypeOK
BY DashboardCorrect, PTL DEF DashboardInv

\* activeConnections is the number of streams that are not closed (events.ts:45-56).
THEOREM ActiveExactCorrect == Spec => []ActiveExact
BY DashboardCorrect, PTL DEF DashboardInv

\* A client has a source or a timer, and neither once disconnected (sse.ts:57-110).
THEOREM OneSourceCorrect == Spec => []OneSource
BY DashboardCorrect, PTL DEF DashboardInv

\* A picture is replaced by one that is newer than all that was shown.
LEMMA NewerStep ==
    ASSUME DashboardInv, [Next]_vars, NEW v \in Viewer \cup Watcher, NEW i \in 1..Parts
    PROVE  view'[v][i] >= view[v][i]
<1>1. view[v][i] \in Nat /\ view \in [Viewer \cup Watcher -> Picture]
  <2>1. view \in [Viewer \cup Watcher -> Picture]
    BY DEF DashboardInv, TypeOK
  <2> QED BY <2>1, PictureParts
<1>2. CASE UNCHANGED view
  BY <1>1, <1>2
<1>3. ASSUME NEW w \in Watcher, WatchShows(w) PROVE view'[v][i] >= view[v][i]
  <2>1. /\ watch[w] # None /\ watch[w] \in Read /\ Whole(watch[w])
        /\ view' = [view EXCEPT ![w] = watch[w]]
    BY <1>3 DEF WatchShows, DashboardInv, TypeOK
  <2>2. Len(watch[w]) = Parts /\ watch[w] \in Picture
    BY <2>1, WholeRead
  <2>3. CASE v = w
    <3>1. view[w][i] <= watch[w][i] /\ watch[w][i] \in Nat
      BY <2>1, <2>2 DEF DashboardInv, Terminals, Picture
    <3> QED BY <1>1, <2>1, <2>3, <3>1
  <2>4. CASE v # w
    BY <1>1, <2>1, <2>4
  <2> QED BY <2>3, <2>4
<1>4. ASSUME NEW u \in Viewer, Message(u) PROVE view'[v][i] >= view[v][i]
  <2>1. PICK s \in Stream : /\ s = client[u].source /\ hub[s].sent # <<>>
                            /\ view' = [view EXCEPT ![u] = Head(hub[s].sent)]
    BY <1>4 DEF Message
  <2>2. hub[s] # None /\ hub[s].sent \in Seq(Picture) /\ After(hub[s], view[u])
    BY <2>1 DEF DashboardInv, TypeOK, Sources, Connection
  <2>3. /\ 1 \in 1..Len(hub[s].sent) /\ Head(hub[s].sent) = hub[s].sent[1]
        /\ hub[s].sent[1] \in Picture
    BY <2>1, <2>2, HeadTailProperties, LenProperties, EmptySeq
  <2>4. CASE v = u
    <3>1. view[u][i] <= hub[s].sent[1][i] /\ hub[s].sent[1][i] \in Nat
      BY <2>2, <2>3, PictureParts DEF After
    <3> QED BY <1>1, <2>1, <2>3, <2>4, <3>1
  <2>5. CASE v # u
    BY <1>1, <2>1, <2>5
  <2> QED BY <2>4, <2>5
<1>5. \/ UNCHANGED view
      \/ \E w \in Watcher : WatchShows(w)
      \/ \E u \in Viewer : Message(u)
  <2>1. ASSUME NEW w \in Watcher, Terminal(w) \/ WatchEnds(w) PROVE WatchShows(w) \/ UNCHANGED view
    BY <2>1 DEF Terminal, WatchReads, WatchEnds
  <2>2. ASSUME NEW s \in Stream, Hub(s) \/ PollFails(s) \/ Break(s) PROVE UNCHANGED view
    BY <2>2 DEF Hub, PollStart, PollReads, PollEnds, StreamEnds, PollFails, Break
  <2>3. ASSUME NEW u \in Viewer, Page(u) \/ Disconnect(u) PROVE Message(u) \/ UNCHANGED view
    BY <2>3 DEF Page, Open, Error, Disconnect
  <2>4. Change \/ UNCHANGED vars => UNCHANGED view
    BY DEF Change, vars
  <2> QED BY <2>1, <2>2, <2>3, <2>4 DEF Next
<1> QED BY <1>2, <1>3, <1>4, <1>5

\* No part of a picture is replaced by an older one, through reconnections and
\* failed polls (events.ts:68).
THEOREM NoGoingBackCorrect == Spec => NoGoingBack
<1>1. DashboardInv /\ [Next]_vars =>
        [\A v \in Viewer \cup Watcher : \A i \in 1..Parts : view'[v][i] >= view[v][i]]_view
  BY NewerStep
<1> QED BY <1>1, DashboardInit, DashboardNext, PTL DEF Spec, NoGoingBack
=============================================================================
