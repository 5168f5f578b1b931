----------------------------- MODULE Catalogue -----------------------------
(***************************************************************************)
(* Users and the catalogue of apps: the commands of the CLI that change it *)
(* (internal/cli/cli.go), and the handlers that serve them                 *)
(* (internal/control/server.go).  Requests of several users, and those     *)
(* whose user has given up, are served at the same time; every SQL         *)
(* statement outside a transaction is a step of its own.                   *)
(*                                                                         *)
(* What reconcile does to deployments is Cluster's; here it succeeds or    *)
(* fails.  The activity feed is the log that EventRing implements          *)
(* (EventLog), long enough to hold every event.                            *)
(***************************************************************************)
EXTENDS Integers, Sequences

CONSTANTS
    User, Name, Image, Id,
    None,
    MaxReplicas,  \* bound: of an app
    MaxCommands,  \* bound: commands given
    MaxFaults     \* bound: commands given up, statements that fail

VARIABLES
    apps,      \* the table apps
    unheard,   \* the apps whose replicas were last set by a statement reported as failed
    feed,      \* the events pushed
    user,      \* what each user is waiting for
    told,      \* how the last command of each user ended
    job,       \* the requests being served
    commands, faults

vars == <<apps, unheard, feed, user, told, job, commands, faults>>

Count == 0..MaxReplicas
App == [name : Name, image : Image, n : Count]
Event == [type : {"created", "scaled", "deployed", "deleted"}, id : Id, n : Count \cup {None}]

\* What is asked for: a manifest, or a number of replicas alone.
Body == [name : Name \cup {None}, image : Image \cup {None}, n : Count \cup {None}]
Nothing == [name |-> None, image |-> None, n |-> None]
Job == [from : User \cup {None}, id : Id \cup {None}, body : Body,
        at : {"create", "created", "scale", "scaled", "deploy", "deployed", "delete", "clear", "deleted"}]
Slot == 1..MaxCommands

ASSUME CatalogueAssumption ==
    /\ None \notin User \cup Image /\ None \notin App /\ None \notin Job
    /\ MaxReplicas \in Nat /\ MaxCommands \in Nat /\ MaxFaults \in Nat

TypeOK ==
    /\ apps \in [Id -> App \cup {None}]
    /\ unheard \subseteq Id
    /\ feed \in Seq(Event)
    /\ user \in [User -> [at : {"idle", "list", "wait"}, apply : BOOLEAN, body : Body]]
    /\ told \in [User -> {"nothing", "ok", "error"}]
    /\ job \in [Slot -> Job \cup {None}]
    /\ commands \in 0..MaxCommands /\ faults \in 0..MaxFaults

Init ==
    /\ apps = [i \in Id |-> None] /\ unheard = {} /\ feed = <<>>
    /\ user = [u \in User |-> [at |-> "idle", apply |-> FALSE, body |-> Nothing]]
    /\ told = [u \in User |-> "nothing"]
    /\ job = [s \in Slot |-> None]
    /\ commands = 0 /\ faults = 0

Fault == faults < MaxFaults /\ faults' = faults + 1

----------------------------------------------------------------------------
(* The CLI. *)

Command(u, apply, body, place) ==
    /\ user[u].at = "idle" /\ commands < MaxCommands
    /\ user' = [user EXCEPT ![u] = [at |-> place, apply |-> apply, body |-> body]]
    /\ told' = [told EXCEPT ![u] = "nothing"]
    /\ commands' = commands + 1

\* A request goes to a handler of its own.
Request(u, place, id, body) ==
    \E s \in Slot :
       /\ job[s] = None /\ \A r \in 1..(s - 1) : job[r] # None
       /\ job' = [job EXCEPT ![s] = [from |-> u, id |-> id, body |-> body, at |-> place]]

\* apply first lists the apps; the manifest is valid.
Apply(u) ==
    /\ \E n \in Name, i \in Image, r \in Count :
          Command(u, TRUE, [name |-> n, image |-> i, n |-> r], "list")
    /\ UNCHANGED <<apps, unheard, feed, job, faults>>

\* With the list it looks for the name, and asks for a change or a new app.
Listed(u) ==
    /\ user[u].at = "list"
    /\ user' = [user EXCEPT ![u].at = "wait"]
    /\ LET body == user[u].body
           Same == {i \in Id : apps[i] # None /\ apps[i].name = body.name}
       IN IF Same # {} THEN \E i \in Same : Request(u, "scale", i, [body EXCEPT !.name = None])
                       ELSE Request(u, "create", None, body)
    /\ UNCHANGED <<apps, unheard, feed, told, commands, faults>>

\* The id is one the user has seen, or not that of any app.
Scale(u) ==
    /\ \E id \in Id, r \in Count :
          /\ Command(u, FALSE, [Nothing EXCEPT !.n = r], "wait")
          /\ Request(u, "scale", id, [Nothing EXCEPT !.n = r])
    /\ UNCHANGED <<apps, unheard, feed, faults>>

Restart(u) ==
    /\ Command(u, FALSE, Nothing, "wait")
    /\ \E id \in Id : Request(u, "deploy", id, Nothing)
    /\ UNCHANGED <<apps, unheard, feed, faults>>

Delete(u) ==
    /\ Command(u, FALSE, Nothing, "wait")
    /\ \E id \in Id : Request(u, "delete", id, Nothing)
    /\ UNCHANGED <<apps, unheard, feed, faults>>

\* The request fails on its way, or is given up after 15 seconds: its handler may go on.
GiveUp(u) ==
    /\ user[u].at \in {"list", "wait"} /\ Fault
    /\ user' = [user EXCEPT ![u].at = "idle"]
    /\ told' = [told EXCEPT ![u] = "error"]
    /\ job' = [s \in Slot |-> IF job[s] # None /\ job[s].from = u
                              THEN [job[s] EXCEPT !.from = None] ELSE job[s]]
    /\ UNCHANGED <<apps, unheard, feed, commands>>

----------------------------------------------------------------------------
(* The handlers. *)

At(s, place) == job[s] # None /\ job[s].at = place
Go(s, place) == job' = [job EXCEPT ![s].at = place] /\ UNCHANGED <<user, told>>

Reply(s, outcome) ==
    /\ job' = [job EXCEPT ![s] = None]
    /\ user' = [u \in User |-> IF u = job[s].from THEN [user[u] EXCEPT !.at = "idle"] ELSE user[u]]
    /\ told' = [u \in User |-> IF u = job[s].from THEN outcome ELSE told[u]]

\* A statement is reported as failed, surely so when nobody waits for the answer any more.
Fails(s) == IF job[s].from = None THEN UNCHANGED faults ELSE Fault

\* What a statement did to the replicas of i was committed, but not heard of: the caller
\* is gone or the connection lost, and the handler leaves before its event.
Unheard(s, i) == unheard' = unheard \cup {i} /\ Reply(s, "error") /\ Fails(s)

Exists(s) == job[s].id \in Id /\ apps[job[s].id] # None
Push(e) == feed' = Append(feed, e)
SlipMessage(type, id, n) == [type |-> type, id |-> None, n |-> n]
Message(type, id, n) == [type |-> type, id |-> id, n |-> n]

\* INSERT INTO apps: names are unique.
SlipNameFree(n) == TRUE
NameFree(n) == \A i \in Id : apps[i] # None => apps[i].name # n
Create(s) ==
    /\ At(s, "create")
    /\ \/ /\ NameFree(job[s].body.name)
          /\ \E i \in Id :
                /\ apps[i] = None
                /\ apps' = [apps EXCEPT ![i] = job[s].body]
                /\ \/ /\ job' = [job EXCEPT ![s].at = "created", ![s].id = i]
                      /\ UNCHANGED <<unheard, user, told, faults>>
                   \/ Unheard(s, i)
       \/ /\ ~NameFree(job[s].body.name)
          /\ Reply(s, "error")
          /\ UNCHANGED <<apps, unheard, faults>>
       \/ /\ Reply(s, "error") /\ Fails(s)
          /\ UNCHANGED <<apps, unheard>>
    /\ UNCHANGED <<feed, commands>>

Created(s) ==
    /\ At(s, "created")
    /\ Push(Message("created", job[s].id, job[s].body.n))
    /\ Reply(s, "ok")
    /\ UNCHANGED <<apps, unheard, commands, faults>>

\* decode: PATCH knows the field replicas and no other.
SlipKnown(body) == body.n # None
Known(body) == body.n # None /\ body.name = None /\ body.image = None
ScaleApp(s) ==
    /\ At(s, "scale")
    /\ \/ /\ Known(job[s].body) /\ Exists(s)
          /\ apps' = [apps EXCEPT ![job[s].id].n = job[s].body.n]
          /\ \/ Go(s, "scaled") /\ unheard' = unheard \ {job[s].id} /\ UNCHANGED faults
             \/ Unheard(s, job[s].id)
       \/ /\ ~(Known(job[s].body) /\ Exists(s))
          /\ Reply(s, "error")
          /\ UNCHANGED <<apps, unheard, faults>>
       \/ /\ Reply(s, "error") /\ Fails(s)
          /\ UNCHANGED <<apps, unheard>>
    /\ UNCHANGED <<feed, commands>>

\* The event comes before the reconcile, which may fail.
SlipAnnounce(s) == UNCHANGED feed
Announce(s) == Push(Message("scaled", job[s].id, job[s].body.n))
Scaled(s) ==
    /\ At(s, "scaled")
    /\ Announce(s)
    /\ Go(s, "deploy")
    /\ UNCHANGED <<apps, unheard, commands, faults>>

\* reconcile and its commit, and the app as it is afterwards.
DeployApp(s) ==
    /\ At(s, "deploy")
    /\ \/ /\ Exists(s)
          /\ Go(s, "deployed")
          /\ UNCHANGED faults
       \/ ~Exists(s) /\ Reply(s, "error") /\ UNCHANGED faults
       \/ Reply(s, "error") /\ Fails(s)
    /\ UNCHANGED <<apps, unheard, feed, commands>>

Deployed(s) ==
    /\ At(s, "deployed")
    /\ Push(Message("deployed", job[s].id, None))
    /\ Reply(s, "ok")
    /\ UNCHANGED <<apps, unheard, commands, faults>>

\* SELECT name, and UPDATE deployments.
DeleteApp(s) ==
    /\ At(s, "delete")
    /\ \/ /\ Exists(s)
          /\ Go(s, "clear")
          /\ UNCHANGED faults
       \/ ~Exists(s) /\ Reply(s, "error") /\ UNCHANGED faults
       \/ Reply(s, "error") /\ Fails(s)
    /\ UNCHANGED <<apps, unheard, feed, commands>>

\* UPDATE apps, whose error is ignored.
Clear(s) ==
    /\ At(s, "clear")
    /\ \/ /\ apps' = [apps EXCEPT ![job[s].id].n = 0]
          /\ unheard' = unheard \ {job[s].id}
          /\ UNCHANGED faults
       \/ UNCHANGED <<apps, unheard>> /\ Fails(s)
    /\ Go(s, "deleted")
    /\ UNCHANGED <<feed, commands>>

Deleted(s) ==
    /\ At(s, "deleted")
    /\ Push(Message("deleted", job[s].id, 0))
    /\ Reply(s, "ok")
    /\ UNCHANGED <<apps, unheard, commands, faults>>

Handle(s) ==
    \/ Create(s) \/ Created(s) \/ ScaleApp(s) \/ Scaled(s) \/ DeployApp(s) \/ Deployed(s)
    \/ DeleteApp(s) \/ Clear(s) \/ Deleted(s)

Next ==
    \/ \E u \in User : Apply(u) \/ Listed(u) \/ Scale(u) \/ Restart(u) \/ Delete(u) \/ GiveUp(u)
    \/ \E s \in Slot : Handle(s)

Spec == Init /\ [][Next]_vars

----------------------------------------------------------------------------
(* Properties. *)

Has(i) == apps[i] # None
Held(i) == {feed[k].n : k \in {k \in 1..Len(feed) : feed[k].id = i /\ feed[k].type # "deployed"}}

\* No name belongs to two apps, though two users look for it and then create it
\* (cli.go:549-559, server.go:377).
NamesUnique == \A i, j \in Id : Has(i) /\ Has(j) /\ apps[i].name = apps[j].name => i = j

\* An apply that reports success has put the manifest in place: the app has its
\* image, and had its number of replicas (cli.go:556, server.go:110-114, 609-616).
ApplyMeansIt ==
    \A u \in User :
       user[u].at = "idle" /\ user[u].apply /\ told[u] = "ok" =>
          \E i \in Id : /\ Has(i)
                        /\ apps[i].name = user[u].body.name /\ apps[i].image = user[u].body.image
                        /\ user[u].body.n \in Held(i)

\* A handler that is about to show that app i has n replicas.
Owes(s, i, n) ==
    /\ job[s] # None /\ job[s].id = i
    /\ \/ job[s].at \in {"created", "scaled"} /\ job[s].body.n = n
       \/ job[s].at = "deleted" /\ n = 0

\* The number of replicas an app has is one the feed has shown, or a handler is about to
\* show it: also when the caller was told of an error, the reconcile having failed after
\* the change, or has given up since (server.go:383-390, 620-628).  The only exception is
\* a number whose statement was committed but reported as failed (378-382, 615-618), and
\* it ends with the next change that is heard of.
Shown ==
    \A i \in Id : Has(i) => \/ i \in unheard
                            \/ apps[i].n \in Held(i)
                            \/ \E s \in Slot : Owes(s, i, apps[i].n)
=============================================================================
