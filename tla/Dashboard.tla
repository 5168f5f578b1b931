----------------------------- MODULE Dashboard -----------------------------
(***************************************************************************)
(* How what the cluster does reaches those who watch it: the handler of    *)
(* /api/v1/dashboard, which reads the tables in three statements and no    *)
(* transaction (internal/control/server.go); the streams of the dashboard  *)
(* backend, each of which polls it (routes/events.ts); the client that     *)
(* opens them again (services/sse.ts); and `blackark dashboard --watch`    *)
(* (internal/cli/cli.go).                                                  *)
(*                                                                         *)
(* The tables are known by their version, the number of changes committed. *)
(* A picture of them is the version each statement read.                   *)
(***************************************************************************)
EXTENDS Integers, Sequences, FiniteSets

CONSTANTS
    Viewer,          \* clients of the streams
    Watcher,         \* terminals that watch
    Stream,          \* bound: streams the backend has at a time, ended ones included
    Audience,        \* the sets of them that may be watching at first
    None,
    Refused,         \* a source that was answered 503
    MaxConnections,  \* options.maxConnections
    MaxChanges,      \* bound: changes of the tables
    MaxQueue,        \* bound: pictures sent and not yet received, per stream
    MaxPolls,        \* bound: polls of one stream that are under way
    MaxFaults        \* bound: connections that break, requests that fail

VARIABLES
    version,  \* of the tables
    hub,      \* the streams of the backend
    active,   \* activeConnections
    client,   \* what connectSSE keeps: source, reconnectTimer, stopped
    watch,    \* the request of each watcher: what was read so far; None when it has ended
    view,     \* the last picture shown
    faults

vars == <<version, hub, active, client, watch, view, faults>>

\* The statements of the handler, in their order: counts, nodes, apps.
Parts == 3
Read == UNION {[1..n -> 0..MaxChanges] : n \in 0..Parts}
Picture == [1..Parts -> 0..MaxChanges]
Connection == [closed : BOOLEAN, gone : BOOLEAN, polling : BOOLEAN,
               polls : SUBSET Read, sent : Seq(Picture)]

ASSUME DashboardAssumption ==
    /\ Viewer \cap Watcher = {} /\ IsFiniteSet(Stream)
    /\ None \notin Stream \cup {Refused} /\ Refused \notin Stream
    /\ None \notin Connection /\ None \notin Read
    /\ MaxConnections \in Nat /\ MaxChanges \in Nat /\ MaxFaults \in Nat

TypeOK ==
    /\ version \in 0..MaxChanges
    /\ hub \in [Stream -> Connection \cup {None}]
    /\ active \in 0..MaxConnections
    /\ client \in [Viewer -> [source : Stream \cup {None, Refused}, timer : BOOLEAN, stopped : BOOLEAN]]
    /\ watch \in [Watcher -> Read \cup {None}]
    /\ view \in [Viewer \cup Watcher -> Picture]
    /\ faults \in 0..MaxFaults

Init ==
    /\ version = 0
    /\ hub = [s \in Stream |-> None] /\ active = 0
    /\ \E on \in Audience :
          \* A client opens its first source at once: as if a timer had just expired.
          /\ client = [v \in Viewer |-> [source |-> None, timer |-> v \in on, stopped |-> v \notin on]]
          /\ watch = [w \in Watcher |-> IF w \in on THEN <<>> ELSE None]
    /\ view = [v \in Viewer \cup Watcher |-> [i \in 1..Parts |-> 0]]
    /\ faults = 0

Fault == faults < MaxFaults /\ faults' = faults + 1

\* Heartbeats and users change the tables.
Change ==
    /\ version < MaxChanges
    /\ version' = version + 1
    /\ UNCHANGED <<hub, active, client, watch, view, faults>>

----------------------------------------------------------------------------
\* The next statement of a request sees what is committed by then.
NextPart(read) == Append(read, version)
Whole(read) == Len(read) = Parts

\* A terminal asks, shows the answer and asks again; the first error ends it.
WatchReads(w) ==
    /\ watch[w] # None
    /\ ~Whole(watch[w])
    /\ watch' = [watch EXCEPT ![w] = NextPart(@)]
    /\ UNCHANGED <<version, hub, active, client, view, faults>>

WatchShows(w) ==
    /\ watch[w] # None
    /\ Whole(watch[w])
    /\ view' = [view EXCEPT ![w] = watch[w]]
    /\ watch' = [watch EXCEPT ![w] = <<>>]
    /\ UNCHANGED <<version, hub, active, client, faults>>

WatchEnds(w) ==
    /\ Fault
    /\ watch[w] # None
    /\ watch' = [watch EXCEPT ![w] = None]
    /\ UNCHANGED <<version, hub, active, client, view>>

----------------------------------------------------------------------------
\* GET /api/v1/events.  A stream that has ended and has nothing under way can be
\* forgotten, once its client has forgotten it too.
Live(s) == hub[s] # None /\ ~hub[s].closed
Forgotten(s) ==
    /\ hub[s] # None => hub[s].closed /\ hub[s].polls = {}
    /\ \A v \in Viewer : client[v].source # s

Opened == [closed |-> FALSE, gone |-> FALSE, polling |-> FALSE, polls |-> {}, sent |-> <<>>]

SlipMayPoll(s) == TRUE  \* pollInProgress not looked at
MayPoll(s) == ~hub[s].polling

PollStart(s) ==
    /\ Live(s) /\ MayPoll(s)
    /\ <<>> \notin hub[s].polls
    /\ Len(hub[s].sent) < MaxQueue /\ Cardinality(hub[s].polls) < MaxPolls
    /\ hub' = [hub EXCEPT ![s].polling = TRUE, ![s].polls = @ \cup {<<>>}]
    /\ UNCHANGED <<version, active, client, watch, view, faults>>

\* A poll goes on although its stream has been closed.
PollReads(s) ==
    /\ hub[s] # None
    /\ \E read \in hub[s].polls :
          /\ ~Whole(read)
          /\ hub' = [hub EXCEPT ![s].polls = (@ \ {read}) \cup {NextPart(read)}]
    /\ UNCHANGED <<version, active, client, watch, view, faults>>

PollEnds(s) ==
    /\ hub[s] # None
    /\ \E read \in hub[s].polls :
          /\ Whole(read)
          /\ hub' = [hub EXCEPT ![s].polls = @ \ {read}, ![s].polling = FALSE,
                        ![s].sent = IF hub[s].closed \/ hub[s].gone THEN @ ELSE Append(@, read)]
    /\ UNCHANGED <<version, active, client, watch, view, faults>>

\* No answer, or not a good one: the stream lives on.
SlipPollFails(s) ==  \* no finally
    /\ Fault
    /\ hub[s] # None
    /\ \E read \in hub[s].polls : hub' = [hub EXCEPT ![s].polls = @ \ {read}]
    /\ UNCHANGED <<version, active, client, watch, view>>
PollFails(s) ==
    /\ Fault
    /\ hub[s] # None
    /\ \E read \in hub[s].polls :
          hub' = [hub EXCEPT ![s].polls = @ \ {read}, ![s].polling = FALSE]
    /\ UNCHANGED <<version, active, client, watch, view>>

\* The request was aborted, or the body cancelled: both are heard of, in either
\* order, and the second finds the stream closed.
SlipEnds(s) == hub[s].gone  \* closed not looked at
Ends(s) == hub[s].gone /\ ~hub[s].closed

StreamEnds(s) ==
    /\ hub[s] # None /\ Ends(s)
    /\ hub' = [hub EXCEPT ![s].closed = TRUE]
    /\ active' = active - 1
    /\ UNCHANGED <<version, client, watch, view, faults>>

----------------------------------------------------------------------------
\* connectSSE.  open(), called by the timer: the backend accepts or refuses.
Fired(source) == [source |-> source, timer |-> FALSE, stopped |-> FALSE]

Room == active < MaxConnections

Open(v) ==
    /\ client[v].timer /\ client[v].source = None
    /\ \/ /\ Room
          /\ \E s \in Stream :
                /\ Forgotten(s)
                /\ hub' = [hub EXCEPT ![s] = Opened]
                /\ client' = [client EXCEPT ![v] = Fired(s)]
          /\ active' = active + 1
       \/ /\ ~Room
          /\ client' = [client EXCEPT ![v] = Fired(Refused)]
          /\ UNCHANGED <<hub, active>>
    /\ UNCHANGED <<version, watch, view, faults>>

\* The connection breaks; either end hears of it in its own time.
Break(s) ==
    /\ Fault
    /\ Live(s) /\ ~hub[s].gone
    /\ hub' = [hub EXCEPT ![s].gone = TRUE]
    /\ UNCHANGED <<version, active, client, watch, view>>

Broken(source) == source = Refused \/ (source \in Stream /\ (hub[source].gone \/ hub[source].closed))

\* source.onerror
Error(v) ==
    /\ Broken(client[v].source)
    /\ client' = [client EXCEPT ![v].source = None, ![v].timer = TRUE]
    /\ UNCHANGED <<version, hub, active, watch, view, faults>>

\* What was sent before the connection broke may still arrive.
Message(v) ==
    /\ client[v].source \in Stream
    /\ LET s == client[v].source
       IN /\ hub[s].sent # <<>>
          /\ view' = [view EXCEPT ![v] = Head(hub[s].sent)]
          /\ hub' = [hub EXCEPT ![s].sent = Tail(@)]
    /\ UNCHANGED <<version, active, client, watch, faults>>

\* Closing the source lets the backend know.
SlipLeft(s) == hub
Left(s) == IF s \in Stream THEN [hub EXCEPT ![s].gone = TRUE] ELSE hub

SlipQuit(c) == [c EXCEPT !.source = None, !.stopped = TRUE]  \* reconnectTimer not cleared
Quit(c) == [c EXCEPT !.source = None, !.timer = FALSE, !.stopped = TRUE]

Disconnect(v) ==
    /\ ~client[v].stopped
    /\ client' = [client EXCEPT ![v] = Quit(@)]
    /\ hub' = Left(client[v].source)
    /\ UNCHANGED <<version, active, watch, view, faults>>

----------------------------------------------------------------------------
Hub(s) == PollStart(s) \/ PollReads(s) \/ PollEnds(s) \/ StreamEnds(s)
Page(v) == Open(v) \/ Error(v) \/ Message(v)
Terminal(w) == WatchReads(w) \/ WatchShows(w)

Next ==
    \/ Change
    \/ \E w \in Watcher : Terminal(w) \/ WatchEnds(w)
    \/ \E s \in Stream : Hub(s) \/ PollFails(s) \/ Break(s)
    \/ \E v \in Viewer : Page(v) \/ Disconnect(v)

\* Timers fire, requests are answered, an ended connection is noticed by both ends.
\* That is fair to each kind of work of a stream, as the event loop serves them all.
Fairness ==
    /\ \A w \in Watcher : WF_vars(Terminal(w))
    /\ \A s \in Stream : WF_vars(PollStart(s)) /\ WF_vars(PollReads(s) \/ PollEnds(s)) /\ WF_vars(StreamEnds(s))
    /\ \A v \in Viewer : WF_vars(Open(v)) /\ WF_vars(Error(v)) /\ WF_vars(Message(v))

Spec == Init /\ [][Next]_vars /\ Fairness

----------------------------------------------------------------------------
(* activeConnections is the number of streams that are not closed (events.ts:45-56 and
   109-115 both count down), so the limit refuses nobody for a stream that has ended, and
   lets nobody in beyond it. *)
ActiveExact == active = Cardinality({s \in Stream : Live(s)}) /\ active <= MaxConnections

(* A viewer has a source or a timer, never both, and neither once it has disconnected;
   its stream is then known to be gone (sse.ts:57-87, 101-110). *)
OneSource ==
    /\ \A v \in Viewer : LET c == client[v]
                         IN IF c.stopped THEN c.source = None /\ ~c.timer ELSE c.timer = (c.source = None)
    /\ \A s \in Stream : Live(s) => hub[s].gone \/ \E v \in Viewer : client[v].source = s

(* No part of a picture is replaced by an older one, through reconnections and failed
   polls (events.ts:68: polls of one stream never overlap). *)
NoGoingBack == [][\A v \in Viewer \cup Watcher : \A i \in 1..Parts : view'[v][i] >= view[v][i]]_view

(* Who keeps watching is shown the last state of the tables in the end, however often
   connections broke, polls failed or streams that had ended held their places. *)
Ended(v) == IF v \in Viewer THEN client[v].stopped ELSE watch[v] = None
CatchesUp == \A v \in Viewer \cup Watcher : <>[](Ended(v) \/ \A i \in 1..Parts : view[v][i] = version)

(* A client that has disconnected leaves no stream polling the control plane. *)
StreamsEnd == (\A v \in Viewer : client[v].stopped) ~> (\A s \in Stream : ~Live(s) /\ active = 0)
============================================================================
