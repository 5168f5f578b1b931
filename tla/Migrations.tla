----------------------------- MODULE Migrations -----------------------------
(***************************************************************************)
(* The start of BlackArk's control processes (cmd/blackark-control/main.go *)
(* and internal/database/database.go, Migrate): the embedded migrations    *)
(* are looked up one by one in schema_migrations and applied, each in a    *)
(* transaction of its own, before the process listens.  Nothing keeps two  *)
(* processes from doing so at the same time: a new release and the one it  *)
(* replaces, two hosts, `blackark-control migrate` beside a restart.       *)
(*                                                                         *)
(* What is assumed of PostgreSQL: a transaction that writes what another   *)
(* has written waits for its end, and fails if that one was committed: the *)
(* version is the primary key of schema_migrations.                        *)
(* A version's SQL and its INSERT are one step, since nothing of either    *)
(* shows before the commit.  Definitions named Slip... are plausible slips *)
(* in those that follow.                                                   *)
(***************************************************************************)
EXTENDS Integers

CONSTANTS
    Proc,      \* control processes
    Server,    \* those that serve; the others are `blackark-control migrate`
    Knows,     \* Knows[p]: the last version embedded in the binary of p
    NoProc,
    MaxStops   \* bound: stops, crashes and lost connections of all processes

ASSUME ProcAssumption ==
    /\ Server \subseteq Proc /\ NoProc \notin Proc
    /\ Knows \in [Proc -> Nat]
    /\ MaxStops \in Nat

Version == UNION {1..Knows[p] : p \in Proc}

VARIABLES
    ledger,  \* the table schema_migrations exists
    applied, \* the versions in it, as committed
    ran,     \* how often the SQL of each version was committed
    holder,  \* the process whose open transaction wrote a version
    proc,    \* what each process is doing
    at,      \* the version it is at
    stops    \* towards the bound

startVars == <<ledger, applied, ran, holder, proc, at, stops>>

StartTypeOK ==
    /\ ledger \in BOOLEAN
    /\ applied \subseteq Version
    /\ ran \in [Version -> Nat]
    /\ holder \in [Version -> Proc \cup {NoProc}]
    /\ proc \in [Proc -> {"down", "create", "check", "apply", "commit", "serving", "done"}]
    /\ at \in [Proc -> Nat \ {0}]
    /\ stops \in Nat

\* An empty database, and no process yet.
StartInit ==
    /\ ledger = FALSE /\ applied = {}
    /\ ran = [v \in Version |-> 0]
    /\ holder = [v \in Version |-> NoProc]
    /\ proc = [p \in Proc |-> "down"]
    /\ at = [p \in Proc |-> 1]
    /\ stops = 0

Serving == \E p \in Proc : proc[p] = "serving"

Goes(p, place) == proc' = [proc EXCEPT ![p] = place]

\* Migrations are sorted by name.
SlipFirst(p) == Knows[p]
First(p) == 1

\* systemd, or the operator, starts the process.
StartProcess(p) ==
    /\ proc[p] = "down"
    /\ Goes(p, "create")
    /\ at' = [at EXCEPT ![p] = First(p)]
    /\ UNCHANGED <<ledger, applied, ran, holder, stops>>

\* CREATE TABLE IF NOT EXISTS: of several at once, some find the table missing
\* and then its name taken, and their processes exit.
CreateLedger(p) ==
    /\ proc[p] = "create"
    /\ ledger' = TRUE
    /\ \E Clash \in SUBSET (IF ledger THEN {} ELSE {q \in Proc \ {p} : proc[q] = "create"}) :
          proc' = [q \in Proc |-> IF q = p THEN "check"
                                  ELSE IF q \in Clash THEN "down" ELSE proc[q]]
    /\ UNCHANGED <<applied, ran, holder, at, stops>>

\* SELECT EXISTS, outside any transaction.
SlipKnown(v) == FALSE
Known(v) == v \in applied
Check(p) ==
    /\ proc[p] = "check" /\ at[p] <= Knows[p]
    /\ IF Known(at[p]) THEN /\ at' = [at EXCEPT ![p] = @ + 1]
                            /\ UNCHANGED proc
                       ELSE /\ Goes(p, "apply")
                            /\ UNCHANGED at
    /\ UNCHANGED <<ledger, applied, ran, holder, stops>>

\* The SQL and the INSERT of its version, when no open transaction has written
\* the same: they fail if one that had was committed.
Unique(v) == v \in applied
Apply(p) ==
    /\ proc[p] = "apply"
    /\ holder[at[p]] = NoProc
    /\ IF Unique(at[p])
       THEN /\ Goes(p, "down")
            /\ UNCHANGED holder
       ELSE /\ Goes(p, "commit")
            /\ holder' = [holder EXCEPT ![at[p]] = p]
    /\ UNCHANGED <<ledger, applied, ran, at, stops>>

\* What a commit installs.
SlipInstall(v) ==
    /\ applied' = applied
    /\ ran' = [ran EXCEPT ![v] = @ + 1]
    /\ holder' = [holder EXCEPT ![v] = NoProc]
InstallVersion(v) ==
    /\ applied' = applied \cup {v}
    /\ ran' = [ran EXCEPT ![v] = @ + 1]
    /\ holder' = [holder EXCEPT ![v] = NoProc]

CommitVersion(p) ==
    /\ proc[p] = "commit"
    /\ InstallVersion(at[p])
    /\ Goes(p, "check")
    /\ at' = [at EXCEPT ![p] = @ + 1]
    /\ UNCHANGED <<ledger, stops>>

\* All versions are looked at: the process serves, or has done its work.
SlipMigrated(p) == at[p] >= Knows[p]
Migrated(p) == at[p] > Knows[p]
Listen(p) ==
    /\ proc[p] = "check" /\ Migrated(p)
    /\ Goes(p, IF p \in Server THEN "serving" ELSE "done")
    /\ UNCHANGED <<ledger, applied, ran, holder, at, stops>>

\* A process ends, by a signal, a crash or an error of the database; its open
\* transaction is rolled back.
StopProcess(p) ==
    /\ proc[p] \notin {"down", "done"} /\ stops < MaxStops
    /\ Goes(p, "down")
    /\ holder' = [v \in Version |-> IF holder[v] = p THEN NoProc ELSE holder[v]]
    /\ stops' = stops + 1
    /\ UNCHANGED <<ledger, applied, ran, at>>

\* The commit succeeds, but the process does not hear of it and exits.
CommitUnheard(p) ==
    /\ proc[p] = "commit" /\ stops < MaxStops
    /\ InstallVersion(at[p])
    /\ Goes(p, "down")
    /\ stops' = stops + 1
    /\ UNCHANGED <<ledger, at>>

Migrate(p) == CreateLedger(p) \/ Check(p) \/ Apply(p) \/ CommitVersion(p) \/ Listen(p)

StartNext ==
    \E p \in Proc : StartProcess(p) \/ Migrate(p) \/ StopProcess(p) \/ CommitUnheard(p)

\* Statements and transactions end, and what has exited is started again:
\* Restart=on-failure (scripts/install.sh), or the operator who reruns it.
StartFairness == \A p \in Proc : WF_startVars(Migrate(p)) /\ WF_startVars(StartProcess(p))

----------------------------------------------------------------------------
(* Properties. *)

\* Each migration's SQL takes effect once, and is recorded exactly if it did,
\* whoever races, crashes or loses its connection (database.go:46-70).
AppliedOnce == \A v \in Version : ran[v] = IF v \in applied THEN 1 ELSE 0

\* Migrations are applied in order, without gaps, also by binaries that know
\* different numbers of them.
InOrder == \A v \in applied : 1..v \subseteq applied

\* Whoever serves, serves a schema with every migration it knows
\* (cmd/blackark-control/main.go:29-36).
ServesMigrated ==
    \A p \in Proc : proc[p] \in {"serving", "done"} => 1..Knows[p] \subseteq applied

\* What a process has looked at is applied, and a version is held by the process
\* whose transaction wrote it; with these the invariants above are inductive.
Behind ==
    \A p \in Proc :
       /\ proc[p] # "down" => 1..(at[p] - 1) \subseteq applied
       /\ proc[p] \in {"apply", "commit"} => at[p] <= Knows[p]
HeldBy ==
    /\ \A p \in Proc : proc[p] = "commit" <=> \E v \in Version : holder[v] = p
    /\ \A v \in Version, p \in Proc : holder[v] = p => at[p] = v /\ v \notin applied
StartInv == StartTypeOK /\ AppliedOnce /\ InOrder /\ ServesMigrated /\ Behind /\ HeldBy

\* Every process comes to serve: losing a race for a migration costs it a restart.
ServesInTheEnd == \A p \in Server : <>[](proc[p] = "serving")
=============================================================================
