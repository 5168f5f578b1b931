------------------------------ MODULE Reports -------------------------------
(***************************************************************************)
(* How a container's output gets into the table deployments: the agent     *)
(* fetches and decodes it (cmd/blackark-agent/main.go, refresh) and        *)
(* reports it with its heartbeat, whose transaction PostgreSQL refuses if  *)
(* the text has a NUL (internal/control/server.go, heartbeat).             *)
(***************************************************************************)
EXTENDS DockerLogs

CONSTANTS
    Text,         \* what a container may write at once
    AgentTail,    \* how many of its writes the agent asks for (200)
    DefaultTail,  \* lines that logs shows if it is not told (200)
    MaxTail,      \* and at most (5000)
    MaxBody,      \* the longest body that decode reads (1 MiB)
    MaxWrites     \* bound

ASSUME ReportAssumption ==
    /\ \A t \in Text : t \in Seq(Byte) /\ Fits(t)
    /\ AgentTail \in Nat \ {0}
    /\ DefaultTail \in Nat \ {0}
    /\ MaxTail \in Nat

VARIABLES
    output,  \* what Docker has recorded of the container
    logs,    \* v.Logs in the agent
    stored   \* deployments.logs

reportVars == <<output, logs, stored>>

ReportInit == output = <<>> /\ logs = <<>> /\ stored = <<>>

Write ==
    /\ Len(output) < MaxWrites
    /\ \E s \in {1, 2}, t \in Text : output' = Append(output, [stream |-> s, text |-> t])
    /\ UNCHANGED <<logs, stored>>

\* Docker's answer to .../logs?tail=200: the last writes, each in a frame.
Asked == IF Len(output) > AgentTail THEN SubSeq(output, Len(output) - AgentTail + 1, Len(output)) ELSE output
Frames(writes) == [i \in 1..Len(writes) |-> Frame(writes[i].stream, writes[i].text)]
Answer == FlattenSeq(Frames(Asked))

\* The agent takes what has come of the answer for all of it: dockerReq ignores the
\* error with which a response ends that was cut off.
Refresh ==
    /\ \E n \in 0..Len(Answer) : logs' = Decode(SubSeq(Answer, 1, n))
    /\ UNCHANGED <<output, stored>>

\* The heartbeat is answered with 400 if it is too long and with 500 if it holds a NUL;
\* nothing of it is stored then. (PostgreSQL refuses invalid UTF-8 too; reports have none.)
Storable(text) == \A i \in 1..Len(text) : text[i] # NUL
Heartbeat ==
    /\ stored' = IF Len(logs) <= MaxBody /\ Storable(logs) THEN logs ELSE stored
    /\ UNCHANGED <<output, logs>>

ReportNext == Write \/ Refresh \/ Heartbeat
ReportSpec == ReportInit /\ [][ReportNext]_reportVars

\* The lines that `logs --tail n` is given.
Limit(n) == IF n \in 1..MaxTail THEN n ELSE DefaultTail

----------------------------------------------------------------------------
(* Properties. *)

\* An answer that was read whole gives the text of the writes, of both streams, in
\* their order and whatever their bytes are, made valid UTF-8 as one text: a rune may
\* begin in one frame and end in the next (main.go:234-252).
Texts(writes) == [i \in 1..Len(writes) |-> writes[i].text]
DecodeExact == Decode(Answer) = ToValid(FlattenSeq(Texts(Asked)))

\* `logs --tail n` shows the longest end of what is stored that starts with a line and
\* has fewer newlines than it may show lines; there is one more at its end
\* (server.go:674-677, 696-701).
NewLines(s) == Cardinality({i \in 1..Len(s) : s[i] = NewLine})
Starts(text) == {1} \cup {i + 1 : i \in {i \in 1..Len(text) : text[i] = NewLine}}
TailOf(text, limit) ==
    \E s \in {SubSeq(text, i, Len(text)) : i \in Starts(text)} :
       /\ Logs(<<text>>, limit) = s \o <<NewLine>>
       /\ NewLines(s) < limit
       /\ \A r \in {SubSeq(text, i, Len(text)) : i \in Starts(text)} :
             NewLines(r) < limit => Len(r) <= Len(s)
LogsTail == \A n \in 0..(MaxTail + 1) : TailOf(stored, Limit(n))

\* "Persist only the text payload: the framing contains NUL bytes that PostgreSQL
\* text columns reject" (main.go:235-237): of containers that write no NUL, the agent
\* reports none.
TextOnly == (\A t \in Text : Storable(t)) => Storable(logs)
=============================================================================
