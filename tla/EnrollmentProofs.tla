-------------------------- MODULE EnrollmentProofs --------------------------
(* The start of control processes, and the enrollment of machines, for any   *)
(* number of either and of versions, tokens, names and faults.               *)
EXTENDS Enrollment, TLAPS

\* Versions are the numbers from 1, as far as some binary goes.
LEMMA Versions ==
    /\ Version \subseteq Nat \ {0}
    /\ \A p \in Proc, n \in Nat \ {0} : n <= Knows[p] => n \in Version
BY ProcAssumption DEF Version

----------------------------------------------------------------------------
(* The start. *)

LEMMA StartInitInv == StartInit => StartInv
<1> SUFFICES ASSUME StartInit PROVE StartInv
  OBVIOUS
<1> USE DEF StartInit
<1>1. StartTypeOK
  <2>1. ran \in [Version -> Nat] /\ holder \in [Version -> Proc \cup {NoProc}]
    OBVIOUS
  <2>2. at \in [Proc -> Nat \ {0}] /\ stops \in Nat
    OBVIOUS
  <2>3. proc \in [Proc -> {"down", "create", "check", "apply", "commit", "serving", "done"}]
    OBVIOUS
  <2> QED BY <2>1, <2>2, <2>3 DEF StartTypeOK
<1>2. AppliedOnce /\ InOrder /\ ServesMigrated /\ Behind
  BY DEF AppliedOnce, InOrder, ServesMigrated, Behind
<1>3. HeldBy
  BY ProcAssumption DEF HeldBy
<1> QED BY <1>1, <1>2, <1>3 DEF StartInv

\* What an applied version changes, with the place its process goes to.
LEMMA InstallInv ==
    ASSUME StartInv, NEW p \in Proc, proc[p] = "commit", InstallVersion(at[p]),
           UNCHANGED ledger, stops' \in Nat,
           \/ /\ proc' = [proc EXCEPT ![p] = "check"]
              /\ at' = [at EXCEPT ![p] = @ + 1]
           \/ /\ proc' = [proc EXCEPT ![p] = "down"]
              /\ UNCHANGED at
    PROVE  StartInv'
<1> DEFINE v == at[p]
<1>1. v \in Version /\ v \notin applied /\ holder[v] = p
  BY Versions DEF StartInv, StartTypeOK, HeldBy, Behind
<1>2. /\ applied' = applied \cup {v}
      /\ ran' = [ran EXCEPT ![v] = @ + 1]
      /\ holder' = [holder EXCEPT ![v] = NoProc]
  BY DEF InstallVersion
<1>t. StartTypeOK
  BY DEF StartInv
<1>3. at' \in [Proc -> Nat \ {0}] /\ proc' \in [Proc -> {"down", "create", "check", "apply", "commit", "serving", "done"}]
  BY <1>t DEF StartTypeOK
<1>4. StartTypeOK'
  BY <1>t, <1>1, <1>2, <1>3, ProcAssumption DEF StartTypeOK
<1>5. AppliedOnce'
  BY <1>t, <1>1, <1>2 DEF StartInv, StartTypeOK, AppliedOnce
<1>6. 1..(v - 1) \subseteq applied
  BY DEF StartInv, Behind
<1>7. 1..v \subseteq applied'
  BY <1>1, <1>2, <1>6, Versions
<1>8. InOrder'
  BY <1>2, <1>7 DEF StartInv, InOrder
<1>9. ServesMigrated'
  BY <1>t, <1>2 DEF StartInv, StartTypeOK, ServesMigrated
<1>10. Behind'
  <2> SUFFICES ASSUME NEW q \in Proc
               PROVE  /\ proc'[q] # "down" => 1..(at'[q] - 1) \subseteq applied'
                      /\ proc'[q] \in {"apply", "commit"} => at'[q] <= Knows[q]
    BY DEF Behind
  <2>1. CASE q = p
    BY <2>1, <1>t, <1>1, <1>7, Versions DEF StartTypeOK
  <2>2. CASE q # p
    BY <2>2, <1>t, <1>2 DEF StartInv, StartTypeOK, Behind
  <2> QED BY <2>1, <2>2
<1>11. HeldBy'
  <2>1. \A q \in Proc : proc'[q] = "commit" <=> q # p /\ proc[q] = "commit"
    BY <1>t DEF StartTypeOK
  <2>2. \A w \in Version, q \in Proc : holder'[w] = q <=> w # v /\ holder[w] = q
    BY <1>t, <1>1, <1>2, ProcAssumption DEF StartTypeOK
  <2>3. \A w \in Version : w # v => holder[w] # p
    BY <1>1 DEF StartInv, HeldBy
  <2>4. \A q \in Proc : q # p => at'[q] = at[q]
    BY <1>t DEF StartTypeOK
  <2>5. \A q \in Proc : proc'[q] = "commit" <=> \E w \in Version : holder'[w] = q
    BY <2>1, <2>2, <2>3, <1>1 DEF StartInv, HeldBy
  <2>6. \A w \in Version, q \in Proc : holder'[w] = q => at'[q] = w /\ w \notin applied'
    BY <2>2, <2>3, <2>4, <1>2 DEF StartInv, HeldBy
  <2> QED BY <2>5, <2>6 DEF HeldBy
<1> QED BY <1>4, <1>5, <1>8, <1>9, <1>10, <1>11 DEF StartInv

\* Steps that change neither what is applied nor who holds what.
LEMMA QuietInv ==
    ASSUME StartInv, NEW p \in Proc, UNCHANGED <<applied, ran, holder>>,
           ledger' \in BOOLEAN, stops' \in Nat,
           at' \in [Proc -> Nat \ {0}],
           proc' \in [Proc -> {"down", "create", "check", "apply", "commit", "serving", "done"}],
           \A q \in Proc : /\ proc'[q] = "commit" <=> proc[q] = "commit"
                           /\ proc[q] = "commit" => at'[q] = at[q],
           Behind', ServesMigrated'
    PROVE  StartInv'
<1>1. StartTypeOK'
  BY DEF StartInv, StartTypeOK
<1>2. AppliedOnce' /\ InOrder'
  BY DEF StartInv, AppliedOnce, InOrder
<1>3. \A q \in Proc : proc'[q] = "commit" <=> \E w \in Version : holder'[w] = q
  BY DEF StartInv, HeldBy
<1>4. \A w \in Version, q \in Proc : holder'[w] = q => at'[q] = w /\ w \notin applied'
  BY DEF StartInv, HeldBy
<1>5. HeldBy'
  BY <1>3, <1>4 DEF HeldBy
<1> QED BY <1>1, <1>2, <1>5 DEF StartInv

LEMMA StartStepInv == StartInv /\ StartNext => StartInv'
<1> SUFFICES ASSUME StartInv, NEW p \in Proc,
                    StartProcess(p) \/ Migrate(p) \/ StopProcess(p) \/ CommitUnheard(p)
             PROVE  StartInv'
  BY DEF StartNext
<1>t. StartTypeOK
  BY DEF StartInv
<1>b. Behind /\ ServesMigrated
  BY DEF StartInv
<1>1. CASE StartProcess(p)
  <2>1. at' \in [Proc -> Nat \ {0}] /\ ledger' \in BOOLEAN /\ stops' \in Nat
    BY <1>1, <1>t DEF StartProcess, First, StartTypeOK
  <2>2. proc' \in [Proc -> {"down", "create", "check", "apply", "commit", "serving", "done"}]
    BY <1>1, <1>t DEF StartProcess, Goes, StartTypeOK
  <2>3. \A q \in Proc : /\ proc'[q] = IF q = p THEN "create" ELSE proc[q]
                        /\ at'[q] = IF q = p THEN 1 ELSE at[q]
    BY <1>1, <1>t DEF StartProcess, Goes, First, StartTypeOK
  <2>4. Behind' /\ ServesMigrated'
    BY <1>1, <1>b, <2>3 DEF StartProcess, Behind, ServesMigrated
  <2> QED BY <1>1, <2>1, <2>2, <2>3, <2>4, QuietInv DEF StartProcess
<1>2. CASE CreateLedger(p)
  <2>1. PICK Clash \in SUBSET (IF ledger THEN {} ELSE {q \in Proc \ {p} : proc[q] = "create"}) :
          proc' = [q \in Proc |-> IF q = p THEN "check" ELSE IF q \in Clash THEN "down" ELSE proc[q]]
    BY <1>2 DEF CreateLedger
  <2>2. \A q \in Clash : proc[q] = "create"
    OBVIOUS
  <2>3. \A q \in Proc : proc'[q] = IF q = p THEN "check" ELSE IF q \in Clash THEN "down" ELSE proc[q]
    BY <2>1
  <2>4. proc' \in [Proc -> {"down", "create", "check", "apply", "commit", "serving", "done"}]
    BY <2>1, <1>t DEF StartTypeOK
  <2>5. Behind' /\ ServesMigrated'
    BY <1>2, <1>b, <2>2, <2>3 DEF CreateLedger, Behind, ServesMigrated
  <2>6. at' \in [Proc -> Nat \ {0}] /\ ledger' \in BOOLEAN /\ stops' \in Nat
    BY <1>2, <1>t DEF CreateLedger, StartTypeOK
  <2>7. \A q \in Proc : /\ proc'[q] = "commit" <=> proc[q] = "commit"
                        /\ proc[q] = "commit" => at'[q] = at[q]
    BY <1>2, <2>2, <2>3 DEF CreateLedger
  <2> QED BY <1>2, <2>4, <2>5, <2>6, <2>7, QuietInv DEF CreateLedger
<1>3. CASE Check(p)
  <2>1. CASE Known(at[p])
    <3>1. at' = [at EXCEPT ![p] = @ + 1] /\ UNCHANGED <<proc, ledger, applied, ran, holder, stops>>
      BY <1>3, <2>1 DEF Check
    <3>2. at' \in [Proc -> Nat \ {0}] /\ \A q \in Proc : at'[q] = IF q = p THEN at[p] + 1 ELSE at[q]
      BY <3>1, <1>t DEF StartTypeOK
    <3>3. proc[p] = "check" /\ at[p] \in applied /\ at[p] \in Nat \ {0}
      BY <1>3, <2>1, <1>t DEF Check, Known, StartTypeOK
    <3>4. 1..at[p] \subseteq applied
      BY <3>3 DEF StartInv, InOrder
    <3>5. Behind' /\ ServesMigrated'
      BY <3>1, <3>2, <3>3, <3>4, <1>b DEF Behind, ServesMigrated
    <3>6. proc' \in [Proc -> {"down", "create", "check", "apply", "commit", "serving", "done"}]
      BY <3>1, <1>t DEF StartTypeOK
    <3>7. ledger' \in BOOLEAN /\ stops' \in Nat
      BY <3>1, <1>t DEF StartTypeOK
    <3> QED BY <3>1, <3>2, <3>3, <3>5, <3>6, <3>7, QuietInv
  <2>2. CASE ~Known(at[p])
    <3>1. proc' = [proc EXCEPT ![p] = "apply"] /\ UNCHANGED <<at, ledger, applied, ran, holder, stops>>
      BY <1>3, <2>2 DEF Check, Goes
    <3>2. /\ proc' \in [Proc -> {"down", "create", "check", "apply", "commit", "serving", "done"}]
          /\ \A q \in Proc : proc'[q] = IF q = p THEN "apply" ELSE proc[q]
      BY <3>1, <1>t DEF StartTypeOK
    <3>3. proc[p] = "check" /\ at[p] <= Knows[p]
      BY <1>3 DEF Check
    <3>4. Behind' /\ ServesMigrated'
      BY <3>1, <3>2, <3>3, <1>b DEF Behind, ServesMigrated
    <3>5. at' \in [Proc -> Nat \ {0}] /\ ledger' \in BOOLEAN /\ stops' \in Nat
      BY <3>1, <1>t DEF StartTypeOK
    <3> QED BY <3>1, <3>2, <3>3, <3>4, <3>5, QuietInv
  <2> QED BY <2>1, <2>2
<1>4. CASE Apply(p)
  <2>0. proc[p] = "apply" /\ holder[at[p]] = NoProc /\ UNCHANGED <<ledger, applied, ran, at, stops>>
    BY <1>4 DEF Apply
  <2>5. at' \in [Proc -> Nat \ {0}] /\ ledger' \in BOOLEAN /\ stops' \in Nat
    BY <2>0, <1>t DEF StartTypeOK
  <2>1. CASE Unique(at[p])
    <3>1. proc' = [proc EXCEPT ![p] = "down"] /\ UNCHANGED holder
      BY <1>4, <2>1 DEF Apply, Goes
    <3>2. /\ proc' \in [Proc -> {"down", "create", "check", "apply", "commit", "serving", "done"}]
          /\ \A q \in Proc : proc'[q] = IF q = p THEN "down" ELSE proc[q]
      BY <3>1, <1>t DEF StartTypeOK
    <3>3. Behind' /\ ServesMigrated'
      BY <2>0, <3>2, <1>b DEF Behind, ServesMigrated
    <3> QED BY <2>0, <2>5, <3>1, <3>2, <3>3, QuietInv
  <2>2. CASE ~Unique(at[p])
    <3>1. proc' = [proc EXCEPT ![p] = "commit"] /\ holder' = [holder EXCEPT ![at[p]] = p]
      BY <1>4, <2>2 DEF Apply, Goes
    <3>2. /\ proc' \in [Proc -> {"down", "create", "check", "apply", "commit", "serving", "done"}]
          /\ \A q \in Proc : proc'[q] = IF q = p THEN "commit" ELSE proc[q]
      BY <3>1, <1>t DEF StartTypeOK
    <3>3. at[p] \in Version /\ at[p] \notin applied
      BY <2>0, <2>2, <1>b, <1>t, Versions DEF Behind, StartTypeOK, Unique
    <3>4. /\ holder' \in [Version -> Proc \cup {NoProc}]
          /\ \A w \in Version : holder'[w] = IF w = at[p] THEN p ELSE holder[w]
      BY <3>1, <1>t DEF StartTypeOK
    <3>5. StartTypeOK'
      BY <2>0, <2>5, <3>2, <3>4, <1>t DEF StartTypeOK
    <3>6. Behind' /\ ServesMigrated'
      BY <2>0, <3>2, <1>b DEF Behind, ServesMigrated
    <3>7. AppliedOnce' /\ InOrder'
      BY <2>0 DEF StartInv, AppliedOnce, InOrder
    <3>8. \A w \in Version : holder[w] # p
      BY <2>0 DEF StartInv, HeldBy
    <3>9. \A q \in Proc : proc'[q] = "commit" <=> \E w \in Version : holder'[w] = q
      BY <2>0, <3>2, <3>3, <3>4, <3>8, ProcAssumption DEF StartInv, HeldBy
    <3>10. \A w \in Version, q \in Proc : holder'[w] = q => at'[q] = w /\ w \notin applied'
      BY <2>0, <3>3, <3>4, <3>8 DEF StartInv, HeldBy
    <3>11. HeldBy'
      BY <3>9, <3>10 DEF HeldBy
    <3> QED BY <3>5, <3>6, <3>7, <3>11 DEF StartInv
  <2> QED BY <2>1, <2>2
<1>5. CASE CommitVersion(p)
  <2>1. stops' \in Nat
    BY <1>5, <1>t DEF CommitVersion, StartTypeOK
  <2> QED BY <1>5, <2>1, InstallInv DEF CommitVersion, Goes
<1>6. CASE Listen(p)
  <2>0. proc[p] = "check" /\ at[p] > Knows[p] /\ UNCHANGED <<ledger, applied, ran, holder, at, stops>>
    BY <1>6 DEF Listen, Migrated
  <2>1. PICK place \in {"serving", "done"} : proc' = [proc EXCEPT ![p] = place]
    BY <1>6 DEF Listen, Goes
  <2>2. /\ proc' \in [Proc -> {"down", "create", "check", "apply", "commit", "serving", "done"}]
        /\ \A q \in Proc : proc'[q] = IF q = p THEN place ELSE proc[q]
    BY <2>1, <1>t DEF StartTypeOK
  <2>3. at[p] \in Nat /\ Knows[p] \in Nat
    BY <1>t, ProcAssumption DEF StartTypeOK
  <2>4. 1..Knows[p] \subseteq applied
    BY <2>0, <2>3, <1>b DEF Behind
  <2>5. Behind' /\ ServesMigrated'
    BY <2>0, <2>2, <2>4, <1>b DEF Behind, ServesMigrated
  <2>6. at' \in [Proc -> Nat \ {0}] /\ ledger' \in BOOLEAN /\ stops' \in Nat
    BY <2>0, <1>t DEF StartTypeOK
  <2> QED BY <2>0, <2>2, <2>5, <2>6, QuietInv
<1>7. CASE StopProcess(p)
  <2>0. /\ UNCHANGED <<ledger, applied, ran, at>> /\ proc' = [proc EXCEPT ![p] = "down"]
        /\ holder' = [v \in Version |-> IF holder[v] = p THEN NoProc ELSE holder[v]]
        /\ stops' = stops + 1
    BY <1>7 DEF StopProcess, Goes
  <2>1. /\ proc' \in [Proc -> {"down", "create", "check", "apply", "commit", "serving", "done"}]
        /\ \A q \in Proc : proc'[q] = IF q = p THEN "down" ELSE proc[q]
    BY <2>0, <1>t DEF StartTypeOK
  <2>2. StartTypeOK'
    BY <2>0, <2>1, <1>t DEF StartTypeOK
  <2>3. Behind' /\ ServesMigrated'
    BY <2>0, <2>1, <1>b DEF Behind, ServesMigrated
  <2>4. AppliedOnce' /\ InOrder'
    BY <2>0 DEF StartInv, AppliedOnce, InOrder
  <2>5. \A w \in Version, q \in Proc : holder'[w] = q <=> q # p /\ holder[w] = q
    BY <2>0, <1>t, ProcAssumption DEF StartTypeOK
  <2>6. HeldBy'
    BY <2>0, <2>1, <2>5 DEF StartInv, HeldBy
  <2> QED BY <2>2, <2>3, <2>4, <2>6 DEF StartInv
<1>8. CASE CommitUnheard(p)
  <2>1. stops' \in Nat
    BY <1>8, <1>t DEF CommitUnheard, StartTypeOK
  <2> QED BY <1>8, <2>1, InstallInv DEF CommitUnheard, Goes
<1> QED BY <1>1, <1>2, <1>3, <1>4, <1>5, <1>6, <1>7, <1>8 DEF Migrate

----------------------------------------------------------------------------
(* Enrollment. *)

\* The fields of calls, and a call whose sender has given it up.
LEMMA CallFields ==
    ASSUME NEW c \in Call
    PROVE  /\ c.from \in Agent \cup {None}
           /\ c.kind = "join" => c.name \in Name /\ c.token \in Token
           /\ c.kind = "beat" => c.cred \in Cred
           /\ [c EXCEPT !.from = None] \in Call
           /\ [c EXCEPT !.from = None].from = None
BY DEF Call

LEMMA NewCalls ==
    ASSUME NEW a \in Agent, EnrollTypeOK
    PROVE  /\ Ask(a) \in Call /\ Ask(a).from = a /\ Ask(a).kind = "token"
           /\ \A t \in Token : /\ JoinCall(a, t) \in Call /\ JoinCall(a, t).from = a
                               /\ JoinCall(a, t).name = env[a].name
           /\ mem[a] # None => Beat(a) \in Call /\ Beat(a).from = a /\ Beat(a).kind = "beat"
BY DEF Ask, JoinCall, Beat, Call, EnrollTypeOK, Env

LEMMA EnrollInitInv == EnrollInit => EnrollInv
<1> SUFFICES ASSUME EnrollInit PROVE EnrollInv
  OBVIOUS
<1> USE DEF EnrollInit
<1>1. env \in [Agent -> Env] /\ \A a \in Agent : env[a].cred = None /\ (env[a].join # None \/ env[a].api)
  BY AgentAssumption
<1>2. EnrollTypeOK
  BY <1>1 DEF EnrollTypeOK
<1>3. TokenOnce /\ NameOnce /\ SpentWithNode
  BY DEF TokenOnce, NameOnce, SpentWithNode, Members
<1>4. CredentialsGood /\ Waiting /\ Drafted
  BY <1>1 DEF CredentialsGood, Waiting, Drafted
<1> QED BY <1>2, <1>3, <1>4 DEF EnrollInv

\* Steps that change neither a node nor a token's use.
LEMMA NodesKept ==
    ASSUME EnrollInv, UNCHANGED nodes,
           \A t \in Token : tokens'[t] = "used" <=> tokens[t] = "used"
    PROVE  TokenOnce' /\ NameOnce' /\ SpentWithNode'
BY DEF EnrollInv, TokenOnce, NameOnce, SpentWithNode, Members

\* No call is added, none is awaited that was not, and whoever waits stays in place.
LEMMA WaitingKept ==
    ASSUME EnrollInv,
           \A d \in calls' : d.from # None =>
              /\ d \in calls
              /\ agent'[d.from] \in {"ask", "join", "work"}
              /\ env'[d.from].name = env[d.from].name
    PROVE  Waiting'
BY DEF EnrollInv, Waiting

\* Steps after which all agents hold what they held.
LEMMA HeldKept ==
    ASSUME EnrollInv, UNCHANGED <<mem, env, draft>>,
           \A c \in Cred : nodes[c] # None => nodes'[c] = nodes[c]
    PROVE  CredentialsGood'
<1>t. EnrollTypeOK /\ CredentialsGood
  BY DEF EnrollInv
<1> SUFFICES ASSUME NEW a \in Agent
             PROVE  /\ mem[a] # None => Holds(a, mem[a])'
                    /\ draft[a] # None => Kept(a)' = Kept(a)
                    /\ env[a].cred # None => Holds(a, env[a].cred)'
  BY <1>t DEF CredentialsGood
<1>1. mem[a] \in Cred \cup {None} /\ env[a].cred \in Cred \cup {None}
  BY <1>t DEF EnrollTypeOK, Env
<1> QED BY <1>1, <1>t DEF CredentialsGood, Holds, Kept

LEMMA LaunchInv == ASSUME EnrollInv, NEW a \in Agent, Launch(a) PROVE EnrollInv'
<1>t. EnrollTypeOK
  BY DEF EnrollInv
<1>0. /\ agent[a] = "down" /\ UNCHANGED <<tokens, nodes, env, draft, heard, faults>>
      /\ \A c \in calls : c.from # a
  BY AgentAssumption DEF Launch, EnrollInv, Waiting
<1>1. TokenOnce' /\ NameOnce' /\ SpentWithNode'
  BY <1>0, NodesKept
<1>e. env[a] \in Env
  BY <1>t DEF EnrollTypeOK
<1>2. CASE env[a].cred # None
  <2>1. agent' = [agent EXCEPT ![a] = "work"] /\ mem' = [mem EXCEPT ![a] = env[a].cred] /\ UNCHANGED calls
    BY <1>2 DEF Launch, Becomes
  <2>2. /\ \A b \in Agent : agent'[b] = IF b = a THEN "work" ELSE agent[b]
        /\ \A b \in Agent : mem'[b] = IF b = a THEN env[a].cred ELSE mem[b]
    BY <2>1, <1>t DEF EnrollTypeOK
  <2>3. EnrollTypeOK'
    BY <2>1, <1>0, <1>t, <1>e DEF EnrollTypeOK, Env
  <2>4. draft[a] = None /\ Holds(a, env[a].cred)
    BY <1>0, <1>2 DEF EnrollInv, Drafted, CredentialsGood
  <2>5. CredentialsGood'
    <3>1. ASSUME NEW b \in Agent, b # a
          PROVE  /\ mem'[b] # None => Holds(b, mem[b])'
                 /\ draft'[b] # None => draft'[b] = Kept(b)' /\ mem'[b] # None
      BY <2>2, <1>0, <3>1 DEF EnrollInv, CredentialsGood, Holds, Kept
    <3>2. draft'[a] = None /\ Holds(a, mem[a])'
      BY <2>2, <2>4, <1>0 DEF Holds
    <3>3. \A b \in Agent :
             /\ env'[b].cred # None => Holds(b, env[b].cred)' /\ env'[b].join = None /\ ~env'[b].api
             /\ env'[b].cred = None => env'[b].join # None \/ env'[b].api
      BY <1>0 DEF EnrollInv, CredentialsGood, Holds
    <3> QED BY <3>1, <3>2, <3>3 DEF CredentialsGood
  <2>6. Waiting'
    BY <2>1, <2>2, <1>0, <1>t DEF EnrollInv, Waiting, EnrollTypeOK, Call
  <2>7. Drafted'
    BY <1>2, <2>2, <2>4, <1>0 DEF EnrollInv, Drafted
  <2> QED BY <1>1, <2>3, <2>5, <2>6, <2>7 DEF EnrollInv
<1>3. CASE env[a].cred = None
  <2>1. PICK c \in Call, place \in {"join", "ask"} :
          /\ agent' = [agent EXCEPT ![a] = place] /\ calls' = calls \cup {c}
          /\ c.from = a /\ (c.kind = "join" => c.name = env[a].name)
    BY <1>3, <1>e, <1>t, NewCalls DEF Launch, Becomes, Env
  <2>2. UNCHANGED mem
    BY <1>3 DEF Launch
  <2>3. \A b \in Agent : agent'[b] = IF b = a THEN place ELSE agent[b]
    BY <2>1, <1>t DEF EnrollTypeOK
  <2>4. EnrollTypeOK'
    BY <2>1, <2>2, <1>0, <1>t DEF EnrollTypeOK
  <2>5. CredentialsGood'
    BY <1>0, <2>2, HeldKept
  <2>6. Waiting'
    BY <2>1, <2>3, <1>0, <1>t, CallFields DEF EnrollInv, Waiting, EnrollTypeOK
  <2>7. Drafted'
    BY <2>2, <2>3, <1>0 DEF EnrollInv, Drafted
  <2> QED BY <1>1, <2>4, <2>5, <2>6, <2>7 DEF EnrollInv
<1> QED BY <1>2, <1>3

LEMMA WriteInv == ASSUME EnrollInv, NEW a \in Agent, Write(a) PROVE EnrollInv'
<1>t. EnrollTypeOK
  BY DEF EnrollInv
<1>0. /\ agent[a] = "write" /\ UNCHANGED <<tokens, nodes, env, mem, calls, heard, faults>>
      /\ draft' = [draft EXCEPT ![a] = Kept(a)] /\ agent' = [agent EXCEPT ![a] = "rename"]
  BY DEF Write, Becomes
<1>1. TokenOnce' /\ NameOnce' /\ SpentWithNode'
  BY <1>0, NodesKept
<1>2. mem[a] \in Cred /\ Kept(a) \in Env
  BY <1>0, <1>t DEF EnrollInv, Drafted, EnrollTypeOK, Env, Kept
<1>3. /\ \A b \in Agent : agent'[b] = IF b = a THEN "rename" ELSE agent[b]
      /\ \A b \in Agent : draft'[b] = IF b = a THEN Kept(a) ELSE draft[b]
  BY <1>0, <1>t DEF EnrollTypeOK
<1>4. EnrollTypeOK'
  BY <1>0, <1>2, <1>t DEF EnrollTypeOK
<1>5. CredentialsGood'
  <2>1. \A b \in Agent : Kept(b)' = Kept(b) /\ mem'[b] = mem[b] /\ env'[b] = env[b]
    BY <1>0 DEF Kept
  <2>2. \A b \in Agent : \A c : Holds(b, c)' <=> Holds(b, c)
    BY <1>0 DEF Holds
  <2>3. mem[a] # None
    BY <1>2, AgentAssumption
  <2> QED BY <1>3, <2>1, <2>2, <2>3 DEF EnrollInv, CredentialsGood
<1>6. Waiting'
  BY <1>0, <1>3 DEF EnrollInv, Waiting
<1>7. Drafted'
  BY <1>0, <1>2, <1>3, AgentAssumption DEF EnrollInv, Drafted
<1> QED BY <1>1, <1>4, <1>5, <1>6, <1>7 DEF EnrollInv

LEMMA RenameInv == ASSUME EnrollInv, NEW a \in Agent, Rename(a) PROVE EnrollInv'
<1>t. EnrollTypeOK
  BY DEF EnrollInv
<1>0. /\ agent[a] = "rename" /\ UNCHANGED <<tokens, nodes, mem, calls, heard, faults>>
      /\ env' = [env EXCEPT ![a] = draft[a]] /\ draft' = [draft EXCEPT ![a] = None]
      /\ agent' = [agent EXCEPT ![a] = "work"]
  BY DEF Rename, Becomes
<1>1. TokenOnce' /\ NameOnce' /\ SpentWithNode'
  BY <1>0, NodesKept
<1>2. /\ draft[a] = Kept(a) /\ draft[a] \in Env /\ mem[a] # None /\ Holds(a, mem[a])
  BY <1>0, <1>t DEF EnrollInv, Drafted, CredentialsGood, EnrollTypeOK
<1>3. /\ \A b \in Agent : agent'[b] = IF b = a THEN "work" ELSE agent[b]
      /\ \A b \in Agent : draft'[b] = IF b = a THEN None ELSE draft[b]
      /\ \A b \in Agent : env'[b] = IF b = a THEN Kept(a) ELSE env[b]
  BY <1>0, <1>2, <1>t DEF EnrollTypeOK
<1>4. EnrollTypeOK'
  BY <1>0, <1>2, <1>t DEF EnrollTypeOK
<1>5. \A b \in Agent : env'[b].name = env[b].name
  BY <1>3 DEF Kept
<1>6. CredentialsGood'
  BY <1>0, <1>2, <1>3, <1>5 DEF EnrollInv, CredentialsGood, Holds, Kept
<1>7. \A d \in calls : d.from # None => d.from # a /\ d.from \in Agent
  BY <1>0, <1>t, CallFields DEF EnrollInv, Waiting, EnrollTypeOK
<1>8. Waiting'
  BY <1>0, <1>3, <1>7 DEF EnrollInv, Waiting
<1>9. Drafted'
  BY <1>0, <1>3 DEF EnrollInv, Drafted
<1> QED BY <1>1, <1>4, <1>6, <1>8, <1>9 DEF EnrollInv

\* An agent that ends, whatever it was at, and whose calls nobody awaits.
LEMMA EndInv ==
    ASSUME EnrollInv, NEW a \in Agent,
           agent' = [agent EXCEPT ![a] = "down"], mem' = [mem EXCEPT ![a] = None],
           draft' = [draft EXCEPT ![a] = None],
           UNCHANGED <<tokens, nodes, env, heard>>, faults' \in Nat, calls' \subseteq Call,
           \A d \in calls' : d.from # None => d \in calls /\ d.from # a
    PROVE  EnrollInv'
<1>t. EnrollTypeOK
  BY DEF EnrollInv
<1>1. TokenOnce' /\ NameOnce' /\ SpentWithNode'
  BY NodesKept
<1>2. /\ \A b \in Agent : agent'[b] = IF b = a THEN "down" ELSE agent[b]
      /\ \A b \in Agent : draft'[b] = IF b = a THEN None ELSE draft[b]
      /\ \A b \in Agent : mem'[b] = IF b = a THEN None ELSE mem[b]
  BY <1>t DEF EnrollTypeOK
<1>3. EnrollTypeOK'
  BY <1>t DEF EnrollTypeOK
<1>4. CredentialsGood'
  <2>1. \A b \in Agent : b # a => Kept(b)' = Kept(b)
    BY <1>2 DEF Kept
  <2>2. \A b \in Agent : \A c : Holds(b, c)' <=> Holds(b, c)
    BY DEF Holds
  <2> QED BY <1>2, <2>1, <2>2 DEF EnrollInv, CredentialsGood
<1>5. Waiting'
  BY <1>2, CallFields DEF EnrollInv, Waiting
<1>6. Drafted'
  BY <1>2 DEF EnrollInv, Drafted
<1> QED BY <1>1, <1>3, <1>4, <1>5, <1>6 DEF EnrollInv

LEMMA WriteFailsInv == ASSUME EnrollInv, NEW a \in Agent, WriteFails(a) PROVE EnrollInv'
<1>1. faults' \in Nat /\ calls \subseteq Call
  BY DEF WriteFails, Fault, EnrollInv, EnrollTypeOK
<1>2. \A d \in calls : d.from # None => d.from # a
  BY DEF WriteFails, EnrollInv, Waiting
<1> QED BY <1>1, <1>2, EndInv DEF WriteFails, Becomes

LEMMA CrashInv == ASSUME EnrollInv, NEW a \in Agent, Crash(a) PROVE EnrollInv'
<1>1. faults' \in Nat /\ calls \subseteq Call
  BY DEF Crash, Fault, EnrollInv, EnrollTypeOK
<1>2. calls' = {IF c.from = a THEN [c EXCEPT !.from = None] ELSE c : c \in calls}
  BY DEF Crash
<1>3. calls' \subseteq Call /\ \A d \in calls' : d.from # None => d \in calls /\ d.from # a
  BY <1>1, <1>2, CallFields
<1> QED BY <1>1, <1>3, EndInv DEF Crash, Becomes

LEMMA GiveUpInv == ASSUME EnrollInv, NEW a \in Agent, GiveUp(a) PROVE EnrollInv'
<1>t. EnrollTypeOK
  BY DEF EnrollInv
<1>0. PICK c \in calls : c.from = a /\ calls' = (calls \ {c}) \cup {[c EXCEPT !.from = None]}
  BY DEF GiveUp
<1>1. /\ UNCHANGED <<tokens, nodes, env, draft, mem, heard>> /\ faults' \in Nat
      /\ agent' = [agent EXCEPT ![a] = IF agent[a] = "work" THEN "work" ELSE "down"]
  BY <1>t DEF GiveUp, Fault, Becomes, EnrollTypeOK
<1>2. a # None /\ agent[a] \in {"ask", "join", "work"}
  BY <1>0, AgentAssumption DEF EnrollInv, Waiting
<1>3. calls' \subseteq Call /\ \A d \in calls' : d.from # None => d \in calls /\ d.from # a
  BY <1>0, <1>2, <1>t, CallFields DEF EnrollInv, Waiting, EnrollTypeOK
<1>4. \A b \in Agent : agent'[b] = IF b = a THEN (IF agent[a] = "work" THEN "work" ELSE "down") ELSE agent[b]
  BY <1>1, <1>t DEF EnrollTypeOK
<1>5. EnrollTypeOK'
  BY <1>1, <1>3, <1>t DEF EnrollTypeOK
<1>6. TokenOnce' /\ NameOnce' /\ SpentWithNode'
  BY <1>1, NodesKept
<1>7. CredentialsGood'
  BY <1>1, HeldKept
<1>8. Waiting'
  BY <1>1, <1>3, <1>4, CallFields DEF EnrollInv, Waiting
<1>9. Drafted'
  BY <1>1, <1>2, <1>4 DEF EnrollInv, Drafted
<1> QED BY <1>5, <1>6, <1>7, <1>8, <1>9 DEF EnrollInv

LEMMA TickInv == ASSUME EnrollInv, NEW a \in Agent, Tick(a) PROVE EnrollInv'
<1>t. EnrollTypeOK
  BY DEF EnrollInv
<1>0. /\ UNCHANGED <<tokens, nodes, env, draft, agent, mem, heard, faults>>
      /\ agent[a] = "work" /\ calls' = calls \cup {Beat(a)} /\ \A d \in calls : d.from # a
  BY DEF Tick, Awaited
<1>1. Beat(a) \in Call /\ Beat(a).from = a /\ Beat(a).kind = "beat"
  BY <1>0, <1>t, NewCalls DEF EnrollInv, Drafted
<1>2. EnrollTypeOK'
  BY <1>0, <1>1, <1>t DEF EnrollTypeOK
<1>3. TokenOnce' /\ NameOnce' /\ SpentWithNode' /\ CredentialsGood'
  BY <1>0, NodesKept, HeldKept
<1>4. Waiting'
  BY <1>0, <1>1 DEF EnrollInv, Waiting
<1>5. Drafted'
  BY <1>0 DEF EnrollInv, Drafted
<1> QED BY <1>2, <1>3, <1>4, <1>5 DEF EnrollInv

\* An answer that only moves the agent that waits for it.
LEMMA AnsweredInv ==
    ASSUME EnrollInv, NEW c \in calls, c.kind \in {"token", "join"}, NEW place \in {"down", "join"},
           Answer(c, place), UNCHANGED <<nodes, env, draft, heard, mem>>, faults' \in Nat,
           tokens' \in [Token -> {"none", "valid", "used", "expired"}],
           \A t \in Token : tokens'[t] = "used" <=> tokens[t] = "used",
           calls' \subseteq Call,
           \A d \in calls' : \/ d \in calls /\ d # c
                            \/ /\ place = "join" /\ d.from = c.from /\ d.name = env[c.from].name
                               /\ \A e \in calls' : e.from = c.from => e = d
    PROVE  EnrollInv'
<1>t. EnrollTypeOK
  BY DEF EnrollInv
<1>1. \A b \in Agent : agent'[b] = IF b = c.from THEN place ELSE agent[b]
  BY DEF Answer
<1>2. EnrollTypeOK'
  BY <1>t DEF EnrollTypeOK, Answer
<1>3. TokenOnce' /\ NameOnce' /\ SpentWithNode' /\ CredentialsGood'
  BY NodesKept, HeldKept
<1>4. Waiting'
  <2> SUFFICES ASSUME NEW d \in calls', d.from # None
               PROVE  /\ agent'[d.from] \in {"ask", "join", "work"}
                      /\ d.kind = "join" => d.name = env'[d.from].name
                      /\ \A e \in calls' : e.from = d.from => e = d
    BY DEF Waiting
  <2>1. d.from \in Agent
    BY CallFields
  <2>2. CASE d \in calls /\ d # c /\ d.from # c.from
    BY <1>1, <2>1, <2>2 DEF EnrollInv, Waiting
  <2>3. CASE d.from = c.from
    BY <1>1, <2>1, <2>3 DEF EnrollInv, Waiting
  <2> QED BY <2>2, <2>3
<1>5. Drafted'
  <2>1. c.from # None => agent[c.from] \in {"ask", "join", "work"}
    BY DEF EnrollInv, Waiting
  <2>2. \A b \in Agent : b = c.from => draft[b] = None
    BY <2>1, AgentAssumption DEF EnrollInv, Drafted
  <2> QED BY <1>1, <2>2 DEF EnrollInv, Drafted
<1> QED BY <1>2, <1>3, <1>4, <1>5 DEF EnrollInv

LEMMA ServeTokenInv == ASSUME EnrollInv, NEW c \in calls, ServeToken(c) PROVE EnrollInv'
<1>t. EnrollTypeOK
  BY DEF EnrollInv
<1>1. PICK t \in Token : /\ tokens[t] = "none" /\ tokens' = [tokens EXCEPT ![t] = "valid"]
                         /\ calls' = (calls \ {c}) \cup {JoinCall(a, t) : a \in Agent \cap {c.from}}
  BY DEF ServeToken
<1>2. /\ c.kind = "token" /\ Answer(c, "join") /\ UNCHANGED <<nodes, env, draft, mem, heard, faults>>
  BY DEF ServeToken
<1>3. /\ tokens' \in [Token -> {"none", "valid", "used", "expired"}] /\ faults' \in Nat
      /\ \A s \in Token : tokens'[s] = "used" <=> tokens[s] = "used"
  BY <1>1, <1>2, <1>t DEF EnrollTypeOK
<1>4. \A d \in calls' : \/ d \in calls /\ d # c
                        \/ c.from \in Agent /\ d = JoinCall(c.from, t)
  BY <1>1
<1>5. calls' \subseteq Call
  BY <1>4, <1>t, NewCalls DEF EnrollTypeOK
<1>6. \A d \in calls : d # c /\ c.from \in Agent => d.from # c.from
  BY AgentAssumption DEF EnrollInv, Waiting
<1>7. \A d \in calls' : \/ d \in calls /\ d # c
                        \/ /\ d.from = c.from /\ d.name = env[c.from].name
                           /\ \A e \in calls' : e.from = c.from => e = d
  BY <1>4, <1>6, <1>t, NewCalls
<1> QED BY <1>2, <1>3, <1>5, <1>7, AnsweredInv

LEMMA RefuseInv == ASSUME EnrollInv, NEW c \in calls, Refuse(c) PROVE EnrollInv'
<1>t. EnrollTypeOK
  BY DEF EnrollInv
<1>1. /\ c.kind = "join" /\ Answer(c, "down") /\ calls' = calls \ {c} /\ faults' \in Nat
      /\ UNCHANGED <<tokens, nodes, env, draft, mem, heard>>
  BY <1>t DEF Refuse, Fault, EnrollTypeOK
<1>2. tokens' \in [Token -> {"none", "valid", "used", "expired"}] /\ calls' \subseteq Call
  BY <1>1, <1>t DEF EnrollTypeOK
<1> QED BY <1>1, <1>2, AnsweredInv

LEMMA AdmitInv == ASSUME EnrollInv, NEW c \in calls, Admit(c) PROVE EnrollInv'
<1>t. EnrollTypeOK
  BY DEF EnrollInv
<1>0. PICK cred \in Cred :
        /\ nodes[cred] = None /\ InstallNode(c, cred)
        /\ mem' = [a \in Agent |-> IF a = c.from THEN cred ELSE mem[a]]
  BY DEF Admit
<1> DEFINE n == [name |-> c.name, token |-> c.token]
<1>1. /\ c.kind = "join" /\ calls' = calls \ {c} /\ UNCHANGED <<env, draft, heard, faults>>
      /\ tokens[c.token] = "valid" /\ \A d \in Members : nodes[d].name # c.name
  BY DEF Admit, Redeemable, Free, Members
<1>2. PICK place \in {"write", "work"} : Answer(c, place)
  BY DEF Admit
<1>3. n \in Node /\ n # None /\ c.token \in Token /\ c.from \in Agent \cup {None} /\ n.name = c.name /\ n.token = c.token
  <2>1. c \in Call
    BY <1>t DEF EnrollTypeOK
  <2>2. c.token \in Token /\ c.name \in Name /\ c.from \in Agent \cup {None}
    BY <1>1, <2>1, CallFields
  <2>3. n \in Node
    BY <2>2 DEF Node
  <2> QED BY <2>2, <2>3, AgentAssumption
<1>4. /\ nodes' = [nodes EXCEPT ![cred] = n] /\ tokens' = [tokens EXCEPT ![c.token] = "used"]
  BY <1>0 DEF InstallNode
<1> HIDE DEF n
<1>5. /\ \A d \in Cred : nodes'[d] = IF d = cred THEN n ELSE nodes[d]
      /\ \A t \in Token : tokens'[t] = IF t = c.token THEN "used" ELSE tokens[t]
      /\ \A a \in Agent : agent'[a] = IF a = c.from THEN place ELSE agent[a]
      /\ \A a \in Agent : mem'[a] = IF a = c.from THEN cred ELSE mem[a]
  BY <1>0, <1>2, <1>4, <1>t DEF EnrollTypeOK, Answer
<1>6. EnrollTypeOK'
  <2>1. nodes' \in [Cred -> Node \cup {None}] /\ tokens' \in [Token -> {"none", "valid", "used", "expired"}]
    BY <1>3, <1>4, <1>t DEF EnrollTypeOK
  <2>2. mem' \in [Agent -> Cred \cup {None}]
    BY <1>0, <1>t DEF EnrollTypeOK
  <2>3. agent' \in [Agent -> {"down", "ask", "join", "write", "rename", "work"}]
    BY <1>2, <1>t DEF EnrollTypeOK, Answer
  <2> QED BY <1>1, <1>t, <2>1, <2>2, <2>3 DEF EnrollTypeOK
<1>7. /\ \A d \in Cred : d \in Members' <=> d = cred \/ d \in Members
      /\ \A d \in Members : d # cred /\ nodes'[d] = nodes[d]
  BY <1>0, <1>3, <1>5 DEF Members
<1>8. \A d \in Members : nodes[d].token # c.token /\ nodes[d].name # c.name
  BY <1>1, <1>3 DEF EnrollInv, SpentWithNode
<1>m. Members \subseteq Cred /\ Members' \subseteq Cred
  BY DEF Members
<1>9. TokenOnce' /\ NameOnce'
  BY <1>3, <1>5, <1>7, <1>8, <1>m DEF EnrollInv, TokenOnce, NameOnce
<1>10. SpentWithNode'
  BY <1>3, <1>5, <1>7, <1>m DEF EnrollInv, SpentWithNode
<1>11. c.from # None => /\ c.from \in Agent /\ agent[c.from] \in {"ask", "join", "work"}
                        /\ draft[c.from] = None /\ env[c.from].name = c.name
                        /\ \A d \in calls : d.from = c.from => d = c
  BY <1>1, <1>3 DEF EnrollInv, Waiting, Drafted
<1>12. CredentialsGood'
  <2> SUFFICES ASSUME NEW a \in Agent
               PROVE  /\ mem'[a] # None => Holds(a, mem[a])'
                      /\ draft[a] # None => Kept(a)' = Kept(a) /\ mem'[a] # None
                      /\ env[a].cred # None => Holds(a, env[a].cred)'
    BY <1>1 DEF EnrollInv, CredentialsGood
  <2>1. mem[a] \in Cred \cup {None} /\ env[a].cred \in Cred \cup {None}
    BY <1>t DEF EnrollTypeOK, Env
  <2>2. \A d \in Cred : Holds(a, d) => Holds(a, d)'
    BY <1>1, <1>7 DEF Holds, Members
  <2>3. env[a].cred # None => Holds(a, env[a].cred)'
    BY <1>1, <2>1, <2>2 DEF EnrollInv, CredentialsGood
  <2>4. CASE a = c.from
    BY <1>1, <1>3, <1>5, <1>11, <2>3, <2>4, AgentAssumption DEF Holds
  <2>5. CASE a # c.from
    BY <1>1, <1>5, <2>1, <2>2, <2>3, <2>5 DEF EnrollInv, CredentialsGood, Kept
  <2> QED BY <2>4, <2>5
<1>13. Waiting'
  <2>1. \A d \in calls' : d.from # None => d \in calls /\ d.from # c.from /\ d.from \in Agent
    BY <1>1, <1>11, <1>t, CallFields DEF EnrollTypeOK
  <2>2. \A d \in calls' : d.from # None => agent'[d.from] \in {"ask", "join", "work"}
    BY <1>5, <2>1 DEF EnrollInv, Waiting
  <2> QED BY <1>1, <2>1, <2>2, WaitingKept
<1>14. Drafted'
  BY <1>1, <1>5, <1>11, AgentAssumption DEF EnrollInv, Drafted
<1> QED BY <1>6, <1>9, <1>10, <1>12, <1>13, <1>14 DEF EnrollInv

LEMMA HearInv == ASSUME EnrollInv, NEW c \in calls, Hear(c) PROVE EnrollInv'
<1>t. EnrollTypeOK
  BY DEF EnrollInv
<1>1. /\ c.kind = "beat" /\ calls' = calls \ {c}
      /\ heard' = heard \cup {<<a, c.cred>> : a \in {b \in Agent : b = c.from /\ Authorized(c.cred)}}
      /\ UNCHANGED <<tokens, nodes, env, draft, agent, mem, faults>>
  BY DEF Hear
<1>2. c.cred \in Cred
  BY <1>1, <1>t, CallFields DEF EnrollTypeOK
<1>3. EnrollTypeOK'
  BY <1>1, <1>2, <1>t DEF EnrollTypeOK
<1>4. TokenOnce' /\ NameOnce' /\ SpentWithNode' /\ CredentialsGood'
  BY <1>1, NodesKept, HeldKept
<1>5. Waiting' /\ Drafted'
  BY <1>1 DEF EnrollInv, Waiting, Drafted
<1> QED BY <1>3, <1>4, <1>5 DEF EnrollInv

LEMMA DropInv == ASSUME EnrollInv, NEW c \in calls, Drop(c) PROVE EnrollInv'
<1>t. EnrollTypeOK
  BY DEF EnrollInv
<1>1. calls' = calls \ {c} /\ UNCHANGED <<tokens, nodes, env, draft, agent, mem, heard, faults>>
  BY DEF Drop
<1>2. EnrollTypeOK'
  BY <1>1, <1>t DEF EnrollTypeOK
<1>3. TokenOnce' /\ NameOnce' /\ SpentWithNode' /\ CredentialsGood'
  BY <1>1, NodesKept, HeldKept
<1>4. Waiting' /\ Drafted'
  BY <1>1 DEF EnrollInv, Waiting, Drafted
<1> QED BY <1>2, <1>3, <1>4 DEF EnrollInv

LEMMA ExpireInv == ASSUME EnrollInv, NEW t \in Token, Expire(t) PROVE EnrollInv'
<1>t. EnrollTypeOK
  BY DEF EnrollInv
<1>1. /\ tokens[t] = "valid" /\ tokens' = [tokens EXCEPT ![t] = "expired"]
      /\ UNCHANGED <<nodes, env, draft, agent, mem, calls, heard, faults>>
  BY DEF Expire
<1>2. EnrollTypeOK' /\ \A s \in Token : tokens'[s] = "used" <=> tokens[s] = "used"
  BY <1>1, <1>t DEF EnrollTypeOK
<1>3. TokenOnce' /\ NameOnce' /\ SpentWithNode' /\ CredentialsGood'
  BY <1>1, <1>2, NodesKept, HeldKept
<1>4. Waiting' /\ Drafted'
  BY <1>1 DEF EnrollInv, Waiting, Drafted
<1> QED BY <1>2, <1>3, <1>4 DEF EnrollInv

----------------------------------------------------------------------------
(* The theorems. *)

\* The invariants of both parts are inductive.
LEMMA BothNext == StartInv /\ EnrollInv /\ [Next]_vars => (StartInv /\ EnrollInv)'
<1> SUFFICES ASSUME StartInv, EnrollInv, [Next]_vars PROVE StartInv' /\ EnrollInv'
  OBVIOUS
<1>1. UNCHANGED startVars => StartInv'
  BY DEF startVars, StartInv, StartTypeOK, AppliedOnce, InOrder, ServesMigrated, Behind, HeldBy
<1>2. UNCHANGED enrollVars => EnrollInv'
  BY DEF enrollVars, EnrollInv, EnrollTypeOK, TokenOnce, NameOnce, SpentWithNode, Members,
         CredentialsGood, Holds, Kept, Waiting, Drafted
<1>3. CASE StartNext /\ UNCHANGED enrollVars
  BY <1>2, <1>3, StartStepInv
<1>4. ASSUME NEW a \in Agent, AgentStep(a) \/ WriteFails(a) \/ GiveUp(a) \/ Crash(a)
      PROVE  StartInv' /\ EnrollInv'
  <2>1. UNCHANGED startVars
    BY <1>4 DEF AgentStep, Launch, Write, Rename, Tick, WriteFails, GiveUp, Crash
  <2> QED BY <1>1, <1>4, <2>1, LaunchInv, WriteInv, RenameInv, TickInv, WriteFailsInv, GiveUpInv, CrashInv
          DEF AgentStep
<1>5. ASSUME NEW c \in calls, Serve(c) \/ Drop(c)
      PROVE  StartInv' /\ EnrollInv'
  <2>1. UNCHANGED startVars
    BY <1>5 DEF Serve, ServeToken, Admit, Refuse, Hear, Drop
  <2> QED BY <1>1, <1>5, <2>1, ServeTokenInv, AdmitInv, RefuseInv, HearInv, DropInv DEF Serve
<1>6. ASSUME NEW t \in Token, Expire(t)
      PROVE  StartInv' /\ EnrollInv'
  BY <1>1, <1>6, ExpireInv DEF Expire
<1>7. CASE UNCHANGED vars
  BY <1>1, <1>2, <1>7 DEF vars
<1> QED BY <1>3, <1>4, <1>5, <1>6, <1>7 DEF Next

\* Both invariants hold throughout, however processes and machines race and fail.
THEOREM BothCorrect == Spec => [](StartInv /\ EnrollInv)
<1>1. Init => StartInv /\ EnrollInv
  BY StartInitInv, EnrollInitInv DEF Init
<1> QED BY <1>1, BothNext, PTL DEF Spec

\* The tables, agents, files and calls keep their types.
THEOREM BootstrapTypeCorrect == Spec => []TypeOK
<1>1. StartInv /\ EnrollInv => TypeOK
  BY DEF StartInv, EnrollInv, TypeOK
<1> QED BY <1>1, BothCorrect, PTL

\* The SQL of a migration takes effect once, and exactly if it is recorded.
THEOREM AppliedOnceCorrect == Spec => []AppliedOnce
<1>1. StartInv => AppliedOnce
  BY DEF StartInv
<1> QED BY <1>1, BothCorrect, PTL

\* No migration is applied before those that precede it.
THEOREM InOrderCorrect == Spec => []InOrder
<1>1. StartInv => InOrder
  BY DEF StartInv
<1> QED BY <1>1, BothCorrect, PTL

\* Whoever serves, serves the schema it knows.
THEOREM ServesMigratedCorrect == Spec => []ServesMigrated
<1>1. StartInv => ServesMigrated
  BY DEF StartInv
<1> QED BY <1>1, BothCorrect, PTL

\* A join token admits one node.
THEOREM TokenOnceCorrect == Spec => []TokenOnce
<1>1. EnrollInv => TokenOnce
  BY DEF EnrollInv
<1> QED BY <1>1, BothCorrect, PTL

\* A name belongs to one node.
THEOREM NameOnceCorrect == Spec => []NameOnce
<1>1. EnrollInv => NameOnce
  BY DEF EnrollInv
<1> QED BY <1>1, BothCorrect, PTL

\* A token is spent exactly if it admitted a node.
THEOREM SpentWithNodeCorrect == Spec => []SpentWithNode
<1>1. EnrollInv => SpentWithNode
  BY DEF EnrollInv
<1> QED BY <1>1, BothCorrect, PTL

\* Whatever an agent holds authenticates it as the node with its name.
THEOREM CredentialsGoodCorrect == Spec => []CredentialsGood
<1>1. EnrollInv => CredentialsGood
  BY DEF EnrollInv
<1> QED BY <1>1, BothCorrect, PTL
=============================================================================
