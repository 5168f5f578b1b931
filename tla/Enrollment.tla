----------------------------- MODULE Enrollment -----------------------------
(***************************************************************************)
(* How a machine becomes a node: its agent (cmd/blackark-agent/main.go)    *)
(* starts from what its environment holds, trades an API token for a join  *)
(* token and a join token for a credential, stores the credential, and     *)
(* from then on authenticates with it (internal/control/server.go).  The   *)
(* control processes that answer are those of Migrations.                  *)
(*                                                                         *)
(* A request may be served long after its sender gave it up or died, or    *)
(* never.  An answer reaches the agent in the step that serves the call:   *)
(* meanwhile the agent does nothing but wait, and to lose the answer is to *)
(* give up before.  Two equal calls that were given up have the effect of  *)
(* one and are kept as one.  A credential stands for the id and the secret *)
(* that `join` draws together.                                             *)
(***************************************************************************)
EXTENDS Migrations, FiniteSets

CONSTANTS
    Agent,      \* machines
    Name,       \* node names
    Setup,      \* the environments machines may be given when they are set up
    Keeping,    \* machines with a BLACKARK_AGENT_ENV_FILE, restarted from it
    Cred, Token,
    None,       \* no credential, no token, no node, nobody
    MaxFaults   \* bound: calls lost or given up, agents that crash, errors

Node == [name : Name, token : Token]
Env == [name : Name, cred : Cred \cup {None}, join : Token \cup {None}, api : BOOLEAN]

\* Each is given a name, and a join token or the API token (scripts/install.sh).
ASSUME AgentAssumption ==
    /\ Setup \subseteq {e \in [Agent -> Env] :
          \A a \in Agent : e[a].cred = None /\ (e[a].join # None \/ e[a].api)}
    /\ Keeping \subseteq Agent
    /\ None \notin Cred \cup Token \cup Agent \cup Node \cup Env
    /\ MaxFaults \in Nat

VARIABLES
    tokens,  \* join_tokens: "none" (no such row), "valid", "used", "expired"
    nodes,   \* of each credential, the node it was drawn for
    env,     \* what the next process on a machine is started with
    draft,   \* the temporary file beside the environment file
    agent,   \* what the agent process is doing
    mem,     \* the credential it has in memory
    calls,   \* requests to the control plane not served yet
    heard,   \* whose heartbeats were accepted, and as which node
    faults   \* towards the bound

enrollVars == <<tokens, nodes, env, draft, agent, mem, calls, heard, faults>>
vars == <<startVars, enrollVars>>

Call == [from : Agent \cup {None}, kind : {"token"}]
        \cup [from : Agent \cup {None}, kind : {"join"}, token : Token, name : Name]
        \cup [from : Agent \cup {None}, kind : {"beat"}, cred : Cred]

EnrollTypeOK ==
    /\ tokens \in [Token -> {"none", "valid", "used", "expired"}]
    /\ nodes \in [Cred -> Node \cup {None}]
    /\ env \in [Agent -> Env] /\ draft \in [Agent -> Env \cup {None}]
    /\ agent \in [Agent -> {"down", "ask", "join", "write", "rename", "work"}]
    /\ mem \in [Agent -> Cred \cup {None}]
    /\ calls \subseteq Call
    /\ heard \subseteq Agent \X Cred
    /\ faults \in Nat

TypeOK == StartTypeOK /\ EnrollTypeOK

\* The operator's join tokens are those machines were given.
EnrollInit ==
    /\ env \in Setup
    /\ tokens = [t \in Token |-> IF \E a \in Agent : env[a].join = t THEN "valid" ELSE "none"]
    /\ nodes = [c \in Cred |-> None]
    /\ draft = [a \in Agent |-> None]
    /\ agent = [a \in Agent |-> "down"]
    /\ mem = [a \in Agent |-> None]
    /\ calls = {} /\ heard = {} /\ faults = 0

----------------------------------------------------------------------------
(* The agent. *)

Becomes(a, place) == agent' = [agent EXCEPT ![a] = place]
Fault == faults < MaxFaults /\ faults' = faults + 1

Ask(a) == [from |-> a, kind |-> "token"]
SlipJoinCall(a, t) == [from |-> a, kind |-> "join", token |-> env[a].join, name |-> env[a].name]
JoinCall(a, t) == [from |-> a, kind |-> "join", token |-> t, name |-> env[a].name]
Beat(a) == [from |-> a, kind |-> "beat", cred |-> mem[a]]
Awaited(a) == \E c \in calls : c.from = a

\* With a credential the agent goes to work; with a join token it joins; with
\* the API token it first asks for a join token.
Launch(a) ==
    /\ agent[a] = "down"
    /\ \/ /\ env[a].cred # None
          /\ Becomes(a, "work")
          /\ mem' = [mem EXCEPT ![a] = env[a].cred]
          /\ UNCHANGED calls
       \/ /\ env[a].cred = None /\ env[a].join # None
          /\ Becomes(a, "join")
          /\ calls' = calls \cup {JoinCall(a, env[a].join)}
          /\ UNCHANGED mem
       \/ /\ env[a].cred = None /\ env[a].join = None /\ env[a].api
          /\ Becomes(a, "ask")
          /\ calls' = calls \cup {Ask(a)}
          /\ UNCHANGED mem
    /\ UNCHANGED <<startVars, tokens, nodes, env, draft, heard, faults>>

\* persistAgentEnv: everything goes to a temporary file, which then takes the
\* place of the old one.  The bootstrap secrets are left out.
SlipKept(a) == [env[a] EXCEPT !.cred = mem[a]]
Kept(a) == [name |-> env[a].name, cred |-> mem[a], join |-> None, api |-> FALSE]
Write(a) ==
    /\ agent[a] = "write"
    /\ draft' = [draft EXCEPT ![a] = Kept(a)]
    /\ Becomes(a, "rename")
    /\ UNCHANGED <<startVars, tokens, nodes, env, mem, calls, heard, faults>>

Rename(a) ==
    /\ agent[a] = "rename"
    /\ env' = [env EXCEPT ![a] = draft[a]]
    /\ draft' = [draft EXCEPT ![a] = None]
    /\ Becomes(a, "work")
    /\ UNCHANGED <<startVars, tokens, nodes, mem, calls, heard, faults>>

\* A full disk, or no permission: the temporary file is removed, the agent exits.
WriteFails(a) ==
    /\ agent[a] \in {"write", "rename"} /\ Fault
    /\ draft' = [draft EXCEPT ![a] = None]
    /\ mem' = [mem EXCEPT ![a] = None]
    /\ Becomes(a, "down")
    /\ UNCHANGED <<startVars, tokens, nodes, env, calls, heard>>

\* tick, as far as authentication goes: what it does with an answer is Cluster's.
Tick(a) ==
    /\ agent[a] = "work" /\ ~Awaited(a)
    /\ calls' = calls \cup {Beat(a)}
    /\ UNCHANGED <<startVars, tokens, nodes, env, draft, agent, mem, heard, faults>>

\* The call is given up, or its connection lost: the agent exits, unless it is
\* at work.  If the call has arrived it will be served all the same.
GiveUp(a) ==
    /\ Fault
    /\ \E c \in calls :
          /\ c.from = a
          /\ calls' = (calls \ {c}) \cup {[c EXCEPT !.from = None]}
    /\ Becomes(a, IF agent[a] = "work" THEN "work" ELSE "down")
    /\ UNCHANGED <<startVars, tokens, nodes, env, draft, mem, heard>>

\* What a crash leaves of the temporary file has a name nobody looks for.
Crash(a) ==
    /\ agent[a] # "down" /\ Fault
    /\ Becomes(a, "down")
    /\ draft' = [draft EXCEPT ![a] = None]
    /\ mem' = [mem EXCEPT ![a] = None]
    /\ calls' = {IF c.from = a THEN [c EXCEPT !.from = None] ELSE c : c \in calls}
    /\ UNCHANGED <<startVars, tokens, nodes, env, heard>>

----------------------------------------------------------------------------
(* The control plane. *)

\* An agent that waits goes on with the answer.
Answer(c, place) ==
    agent' = [a \in Agent |-> IF a = c.from THEN place ELSE agent[a]]

\* createJoinToken draws a token; an agent that asked for it joins with it.
ServeToken(c) ==
    /\ c \in calls /\ c.kind = "token"
    /\ \E t \in Token :
          /\ tokens[t] = "none"
          /\ tokens' = [tokens EXCEPT ![t] = "valid"]
          /\ calls' = (calls \ {c}) \cup {JoinCall(a, t) : a \in Agent \cap {c.from}}
    /\ Answer(c, "join")
    /\ UNCHANGED <<startVars, nodes, env, draft, mem, heard, faults>>

\* The UPDATE finds the token unused and not expired; the INSERT its name free.
SlipRedeemable(t) == tokens[t] \in {"valid", "used"}
Redeemable(t) == tokens[t] = "valid"
Free(n) == \A c \in Cred : nodes[c] # None => nodes[c].name # n
\* What they write if the transaction commits: the token is used, a node has a
\* credential nobody had.
SlipInstallNode(c, cred) ==
    /\ nodes' = [nodes EXCEPT ![cred] = [name |-> c.name, token |-> c.token]]
    /\ UNCHANGED tokens
InstallNode(c, cred) ==
    /\ nodes' = [nodes EXCEPT ![cred] = [name |-> c.name, token |-> c.token]]
    /\ tokens' = [tokens EXCEPT ![c.token] = "used"]

Admit(c) ==
    /\ c \in calls /\ c.kind = "join"
    /\ Redeemable(c.token) /\ Free(c.name)
    /\ \E cred \in Cred :
          /\ nodes[cred] = None
          /\ InstallNode(c, cred)
          /\ mem' = [a \in Agent |-> IF a = c.from THEN cred ELSE mem[a]]
    /\ Answer(c, IF c.from \in Keeping THEN "write" ELSE "work")
    /\ calls' = calls \ {c}
    /\ UNCHANGED <<startVars, env, draft, heard, faults>>

\* 401 or 409, or an error of the database: everything is rolled back, and the
\* agent exits.
Refuse(c) ==
    /\ c \in calls /\ c.kind = "join"
    /\ \/ ~(Redeemable(c.token) /\ Free(c.name)) /\ UNCHANGED faults
       \/ Fault
    /\ Answer(c, "down")
    /\ calls' = calls \ {c}
    /\ UNCHANGED <<startVars, tokens, nodes, env, draft, mem, heard>>

\* A heartbeat is accepted if its credential is that of the node it names.
SlipAuthorized(cred) == nodes[cred] # None /\ tokens[nodes[cred].token] = "valid"
Authorized(cred) == nodes[cred] # None
Hear(c) ==
    /\ c \in calls /\ c.kind = "beat"
    /\ heard' = heard \cup {<<a, c.cred>> : a \in {b \in Agent : b = c.from /\ Authorized(c.cred)}}
    /\ calls' = calls \ {c}
    /\ UNCHANGED <<startVars, tokens, nodes, env, draft, agent, mem, faults>>

Serve(c) == Serving /\ (ServeToken(c) \/ Admit(c) \/ Refuse(c) \/ Hear(c))

\* A call whose sender has given it up may never arrive.
Drop(c) ==
    /\ c \in calls /\ c.from = None
    /\ calls' = calls \ {c}
    /\ UNCHANGED <<startVars, tokens, nodes, env, draft, agent, mem, heard, faults>>

\* Time passes: expires_at <= now().
Expire(t) ==
    /\ tokens[t] = "valid"
    /\ tokens' = [tokens EXCEPT ![t] = "expired"]
    /\ UNCHANGED <<startVars, nodes, env, draft, agent, mem, calls, heard, faults>>

----------------------------------------------------------------------------
Init == StartInit /\ EnrollInit

AgentStep(a) == Launch(a) \/ Write(a) \/ Rename(a) \/ Tick(a)
Next ==
    \/ StartNext /\ UNCHANGED enrollVars
    \/ \E a \in Agent : AgentStep(a) \/ WriteFails(a) \/ GiveUp(a) \/ Crash(a)
    \/ \E c \in calls : Serve(c) \/ Drop(c)
    \/ \E t \in Token : Expire(t)

\* A service manager restarts agents that exit, agents tick every five seconds,
\* and a control plane that serves answers.
Fairness ==
    /\ StartFairness
    /\ \A a \in Agent : /\ WF_vars(AgentStep(a))
                        /\ WF_vars(\E c \in calls : c.from = a /\ Serve(c))

Spec == Init /\ [][Next]_vars /\ Fairness

----------------------------------------------------------------------------
(* Properties. *)

Members == {c \in Cred : nodes[c] # None}

\* A join token admits one node, though requests are repeated, abandoned and
\* served late, and two machines are handed the same (server.go:147).
TokenOnce == \A c, d \in Members : nodes[c].token = nodes[d].token => c = d

\* No name belongs to two nodes, whoever asks for it and in whatever order.
NameOnce == \A c, d \in Members : nodes[c].name = nodes[d].name => c = d

\* A token is spent exactly if it admitted a node: a refused join, and one whose
\* transaction fails, leave it as it was (server.go:145-161).
SpentWithNode == \A t \in Token : tokens[t] = "used" <=> \E c \in Members : nodes[c].token = t

\* A credential that an agent holds, in memory, in a draft or in its environment,
\* is that of the node with its name; the bootstrap secrets go as it comes, and
\* whatever crashes, there is always something to start from (main.go:138-173).
Holds(a, c) == nodes[c] # None /\ nodes[c].name = env[a].name
CredentialsGood ==
    \A a \in Agent :
       /\ mem[a] # None => Holds(a, mem[a])
       /\ draft[a] # None => draft[a] = Kept(a) /\ mem[a] # None
       /\ env[a].cred # None => Holds(a, env[a].cred) /\ env[a].join = None /\ ~env[a].api
       /\ env[a].cred = None => env[a].join # None \/ env[a].api

\* An agent waits for one call at a time, and the draft of an agent that is about to
\* rename it is whole; with these the invariants above are inductive.
Waiting ==
    \A c \in calls : c.from # None =>
       /\ agent[c.from] \in {"ask", "join", "work"}
       /\ c.kind = "join" => c.name = env[c.from].name
       /\ \A d \in calls : d.from = c.from => d = c
Drafted ==
    \A a \in Agent : /\ agent[a] \in {"write", "rename", "work"} => mem[a] # None
                     /\ agent[a] = "rename" <=> draft[a] # None
EnrollInv ==
    /\ EnrollTypeOK /\ TokenOnce /\ NameOnce /\ SpentWithNode
    /\ CredentialsGood /\ Waiting /\ Drafted

\* An agent whose credential was stored is heard in the end, whatever happened to
\* it and to the control plane before.
HeardInTheEnd ==
    \A a \in Agent : env[a].cred # None ~> \E c \in Cred : <<a, c>> \in heard
=============================================================================
