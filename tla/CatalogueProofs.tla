-------------------------- MODULE CatalogueProofs --------------------------
(* What users are told of the catalogue and what the feed shows of it, for  *)
(* any number of users, names, commands and faults.                         *)
EXTENDS Catalogue, TLAPS

\* What a request being served may rely on, from the place it has reached.
Sound(s) ==
    /\ job[s].at \in {"create", "created"} => job[s].body \in App
    /\ job[s].at = "created" => /\ job[s].id \in Id /\ Has(job[s].id)
                                /\ apps[job[s].id].name = job[s].body.name
                                /\ apps[job[s].id].image = job[s].body.image
    /\ job[s].at = "scaled" => job[s].id \in Id /\ job[s].body.n \in Count
    /\ job[s].at \in {"deploy", "deployed", "deleted"} => job[s].id \in Id
    /\ job[s].at = "clear" => job[s].id \in Id /\ Has(job[s].id)
Served == \A s \in Slot : job[s] # None => Sound(s)

\* Who gave an apply has a manifest, and lists the apps for nothing else.
Manifests == \A u \in User : /\ user[u].at = "list" => user[u].apply
                             /\ user[u].apply => user[u].body \in App

\* A user waits for one request at most; one that creates is for the manifest
\* as it is, one that changes an app bears its image.
Asks(s, u) == job[s] # None /\ job[s].from = u
Waiting ==
    /\ \A s \in Slot, u \in User : Asks(s, u) =>
          /\ user[u].at = "wait"
          /\ user[u].apply => \/ job[s].at \in {"create", "created"} /\ job[s].body = user[u].body
                              \/ job[s].at = "scale" /\ job[s].body.image \in Image
    /\ \A r, s \in Slot, u \in User : Asks(r, u) /\ Asks(s, u) => r = s

CatalogueInv ==
    /\ TypeOK /\ Served /\ Manifests /\ Waiting
    /\ NamesUnique /\ Shown /\ ApplyMeansIt

LEMMA CatalogueInit == Init => CatalogueInv
<1> SUFFICES ASSUME Init PROVE CatalogueInv
  OBVIOUS
<1> USE CatalogueAssumption DEF Init
<1>1. TypeOK
  <2>1. [at |-> "idle", apply |-> FALSE, body |-> Nothing]
          \in [at : {"idle", "list", "wait"}, apply : BOOLEAN, body : Body]
    BY DEF Nothing, Body
  <2> QED BY <2>1 DEF TypeOK
<1>2. Served /\ Manifests /\ Waiting
  BY DEF Served, Manifests, Waiting, Asks
<1>3. NamesUnique /\ Shown /\ ApplyMeansIt
  BY DEF NamesUnique, Shown, ApplyMeansIt, Has
<1> QED BY <1>1, <1>2, <1>3 DEF CatalogueInv

\* The feed forgets nothing, and holds what is pushed.
LEMMA FeedGrows ==
    ASSUME feed \in Seq(Event), NEW e \in Event, Push(e)
    PROVE  /\ feed' \in Seq(Event)
           /\ \A i \in Id : Held(i) \subseteq Held(i)'
           /\ e.type # "deployed" => \A i \in Id : e.id = i => e.n \in Held(i)'
<1>1. /\ feed' \in Seq(Event) /\ Len(feed') = Len(feed) + 1 /\ Len(feed) \in Nat
      /\ \A k \in 1..Len(feed) : feed'[k] = feed[k]
      /\ feed'[Len(feed) + 1] = e
  BY DEF Push
<1>2. ASSUME NEW i \in Id, NEW n \in Held(i) PROVE n \in Held(i)'
  <2>1. PICK k \in 1..Len(feed) : feed[k].id = i /\ feed[k].type # "deployed" /\ feed[k].n = n
    BY <1>2 DEF Held
  <2>2. k \in 1..Len(feed') /\ feed'[k] = feed[k]
    BY <1>1
  <2> QED BY <2>1, <2>2 DEF Held
<1>3. ASSUME NEW i \in Id, e.id = i, e.type # "deployed" PROVE e.n \in Held(i)'
  <2>1. Len(feed) + 1 \in 1..Len(feed')
    BY <1>1
  <2> QED BY <1>1, <1>3, <2>1 DEF Held
<1> QED BY <1>1, <1>2, <1>3

\* What every step does to apps: none is lost, none changes its name or image.
Lasting == \A i \in Id : Has(i) => /\ Has(i)' /\ apps'[i].name = apps[i].name
                                   /\ apps'[i].image = apps[i].image
Remembered == \A i \in Id : Held(i) \subseteq Held(i)'

\* What was told to a user who has not moved stays true.
LEMMA StillMeant ==
    ASSUME CatalogueInv, Lasting, Remembered, NEW u \in User,
           user'[u] = user[u], told'[u] = told[u],
           user[u].at = "idle", user[u].apply, told[u] = "ok"
    PROVE  \E i \in Id : /\ Has(i)'
                         /\ apps'[i].name = user'[u].body.name
                         /\ apps'[i].image = user'[u].body.image
                         /\ user'[u].body.n \in Held(i)'
BY DEF CatalogueInv, ApplyMeansIt, Lasting, Remembered

----------------------------------------------------------------------------
(* A handler goes on. *)

LEMMA HandlerGoes ==
    ASSUME CatalogueInv, NEW s \in Slot, job[s] # None,
           NEW j \in Job, job' = [job EXCEPT ![s] = j], j.from = job[s].from,
           UNCHANGED <<user, told, commands>>, faults' \in 0..MaxFaults,
           apps' \in [Id -> App \cup {None}], unheard' \subseteq Id, feed' \in Seq(Event),
           Lasting, Remembered, NamesUnique', Sound(s)', Shown',
           \A u \in User : j.from = u /\ user[u].apply =>
                             j.at \in {"create", "created"} /\ j.body = user[u].body
    PROVE  CatalogueInv'
<1>1. TypeOK /\ Served /\ Manifests /\ Waiting
  BY DEF CatalogueInv
<1>2. TypeOK'
  BY <1>1 DEF TypeOK
<1>3. job'[s] = j /\ \A r \in Slot : r # s => job'[r] = job[r]
  BY <1>1 DEF TypeOK
<1>4. Served'
  <2> SUFFICES ASSUME NEW r \in Slot, r # s, job'[r] # None PROVE Sound(r)'
    BY DEF Served
  <2> QED BY <1>1, <1>3 DEF Served, Sound, Lasting
<1>5. \A r \in Slot, u \in User : Asks(r, u)' => Asks(r, u)
  BY <1>3 DEF Asks
<1>6. Waiting'
  <2>1. \A r, q \in Slot, u \in User : Asks(r, u)' /\ Asks(q, u)' => r = q
    BY <1>1, <1>5 DEF Waiting
  <2>2. ASSUME NEW r \in Slot, NEW u \in User, Asks(r, u)'
        PROVE  /\ user'[u].at = "wait"
               /\ user'[u].apply => \/ job'[r].at \in {"create", "created"} /\ job'[r].body = user'[u].body
                                    \/ job'[r].at = "scale" /\ job'[r].body.image \in Image
    BY <1>1, <1>3, <1>5, <2>2 DEF Waiting, Asks
  <2> QED BY <2>1, <2>2 DEF Waiting
<1>7. ApplyMeansIt'
  BY StillMeant DEF ApplyMeansIt
<1> QED BY <1>1, <1>2, <1>4, <1>6, <1>7 DEF CatalogueInv, Manifests

\* The statement that creates an app.
LEMMA Inserted ==
    ASSUME CatalogueInv, NEW b \in App, NameFree(b.name),
           NEW i \in Id, apps[i] = None, apps' = [apps EXCEPT ![i] = b], UNCHANGED feed
    PROVE  /\ apps' \in [Id -> App \cup {None}] /\ apps'[i] = b /\ Has(i)'
           /\ \A k \in Id : k # i => apps'[k] = apps[k]
           /\ Lasting /\ Remembered /\ NamesUnique'
<1>1. /\ apps' \in [Id -> App \cup {None}] /\ apps'[i] = b /\ Has(i)' /\ ~Has(i)
      /\ \A k \in Id : k # i => apps'[k] = apps[k]
  BY CatalogueAssumption DEF CatalogueInv, TypeOK, Has
<1>2. Lasting /\ Remembered
  BY <1>1 DEF Lasting, Remembered, Has, Held
<1>3. NamesUnique'
  <2> SUFFICES ASSUME NEW k \in Id, NEW l \in Id, Has(k)', Has(l)',
                      apps'[k].name = apps'[l].name
               PROVE  k = l
    BY DEF NamesUnique
  <2>1. \A m \in Id : m # i /\ Has(m)' => apps'[m].name # b.name
    BY <1>1 DEF NameFree, Has
  <2>2. CASE k # i /\ l # i
    BY <1>1, <2>2 DEF CatalogueInv, NamesUnique, Has
  <2> QED BY <1>1, <2>1, <2>2
<1> QED BY <1>1, <1>2, <1>3

\* The statements that change an app's replicas.
LEMMA Updated ==
    ASSUME CatalogueInv, NEW i \in Id, Has(i), NEW n \in Count,
           apps' = [apps EXCEPT ![i].n = n], UNCHANGED feed
    PROVE  /\ apps' \in [Id -> App \cup {None}] /\ apps'[i].n = n
           /\ \A k \in Id : (Has(k)' <=> Has(k)) /\ (k # i => apps'[k] = apps[k])
           /\ Lasting /\ Remembered /\ NamesUnique'
<1>1. apps \in [Id -> App \cup {None}] /\ apps[i] \in App
  BY DEF CatalogueInv, TypeOK, Has
<1>2. /\ apps'[i] \in App /\ apps'[i].n = n
      /\ apps'[i].name = apps[i].name /\ apps'[i].image = apps[i].image
      /\ \A k \in Id : k # i => apps'[k] = apps[k]
  BY <1>1 DEF App
<1>3. apps' \in [Id -> App \cup {None}] /\ \A k \in Id : Has(k)' <=> Has(k)
  BY <1>1, <1>2, CatalogueAssumption DEF Has
<1>4. Lasting /\ Remembered
  BY <1>2, <1>3 DEF Lasting, Remembered, Held
<1>5. NamesUnique'
  BY <1>3, <1>4 DEF CatalogueInv, NamesUnique, Lasting
<1> QED BY <1>2, <1>3, <1>4, <1>5

\* After a statement on app i alone, what is shown or owed of the others stays so,
\* if the handler s owed nothing and no other has moved.
LEMMA OthersShown ==
    ASSUME CatalogueInv, NEW i \in Id, NEW s \in Slot, UNCHANGED feed,
           \A k \in Id : k # i => apps'[k] = apps[k] /\ (k \in unheard => k \in unheard'),
           job[s] # None => job[s].at \notin {"created", "scaled", "deleted"},
           \A r \in Slot : r # s => job'[r] = job[r],
           NEW k \in Id, k # i, Has(k)'
    PROVE  k \in unheard' \/ apps'[k].n \in Held(k)' \/ \E r \in Slot : Owes(r, k, apps[k].n)'
<1>1. Has(k) /\ apps'[k].n = apps[k].n /\ Held(k)' = Held(k)
  BY DEF Has, Held
<1>2. ASSUME NEW r \in Slot, Owes(r, k, apps[k].n) PROVE Owes(r, k, apps[k].n)'
  <2>1. r # s
    BY <1>2 DEF Owes
  <2> QED BY <1>1, <1>2, <2>1 DEF Owes
<1> QED BY <1>1, <1>2 DEF CatalogueInv, Shown

LEMMA CreateGoes ==
    ASSUME CatalogueInv, NEW s \in Slot, At(s, "create"), NameFree(job[s].body.name),
           NEW i \in Id, apps[i] = None,
           apps' = [apps EXCEPT ![i] = job[s].body],
           job' = [job EXCEPT ![s].at = "created", ![s].id = i],
           UNCHANGED <<unheard, user, told, faults, feed, commands>>
    PROVE  CatalogueInv'
<1> DEFINE j == [job[s] EXCEPT !.at = "created", !.id = i]
<1>1. /\ job[s] # None /\ job[s] \in Job /\ job[s].at = "create" /\ job[s].body \in App
      /\ job \in [Slot -> Job \cup {None}] /\ unheard \subseteq Id
      /\ feed \in Seq(Event) /\ faults \in 0..MaxFaults
  BY DEF At, CatalogueInv, TypeOK, Served, Sound
<1>2. /\ j \in Job /\ j.from = job[s].from /\ j.at = "created" /\ j.id = i /\ j.body = job[s].body
      /\ job' = [job EXCEPT ![s] = j] /\ job'[s] = j
      /\ \A r \in Slot : r # s => job'[r] = job[r]
  BY <1>1 DEF Job
<1> HIDE DEF j
<1>3. /\ apps' \in [Id -> App \cup {None}] /\ apps'[i] = job[s].body /\ Has(i)'
      /\ \A k \in Id : k # i => apps'[k] = apps[k]
      /\ Lasting /\ Remembered /\ NamesUnique'
  BY <1>1, Inserted
<1>4. Sound(s)'
  BY <1>1, <1>2, <1>3 DEF Sound
<1>5. Shown'
  <2> SUFFICES ASSUME NEW k \in Id, Has(k)'
               PROVE  k \in unheard' \/ apps'[k].n \in Held(k)' \/ \E r \in Slot : Owes(r, k, apps[k].n)'
    BY DEF Shown
  <2>1. CASE k = i
    <3>1. Owes(s, k, apps[k].n)'
      BY <1>1, <1>2, <1>3, <2>1, CatalogueAssumption DEF Owes
    <3> QED BY <3>1
  <2>2. CASE k # i
    BY <1>1, <1>2, <1>3, <2>2, OthersShown
  <2> QED BY <2>1, <2>2
<1>6. \A u \in User : j.from = u /\ user[u].apply =>
                        j.at \in {"create", "created"} /\ j.body = user[u].body
  <2> SUFFICES ASSUME NEW u \in User, j.from = u, user[u].apply
               PROVE  j.at \in {"create", "created"} /\ j.body = user[u].body
    OBVIOUS
  <2>1. Asks(s, u) /\ Waiting
    BY <1>1, <1>2 DEF Asks, CatalogueInv
  <2>2. job[s].body = user[u].body
    BY <1>1, <2>1 DEF Waiting
  <2> QED BY <1>2, <2>2
<1>7. /\ j \in Job /\ job' = [job EXCEPT ![s] = j] /\ j.from = job[s].from
      /\ unheard' \subseteq Id /\ feed' \in Seq(Event) /\ job[s] # None
      /\ faults' \in 0..MaxFaults
  BY <1>1, <1>2
<1> QED BY <1>3, <1>4, <1>5, <1>6, <1>7, HandlerGoes

LEMMA ChangeGoes ==
    ASSUME CatalogueInv, NEW s \in Slot, NEW j \in Job, NEW i \in Id, NEW n \in Count,
           job[s] # None, Has(i), apps' = [apps EXCEPT ![i].n = n],
           unheard' = unheard \ {i},
           job' = [job EXCEPT ![s] = j], j.from = job[s].from, j.at \in {"scaled", "deleted"},
           job[s].at \notin {"created", "scaled", "deleted"},
           j.id = i, Sound(s)', Owes(s, i, n)',
           \A u \in User : j.from = u => ~user[u].apply,
           UNCHANGED <<user, told, feed, commands>>, faults' \in 0..MaxFaults
    PROVE  CatalogueInv'
<1>1. /\ job \in [Slot -> Job \cup {None}] /\ feed \in Seq(Event) /\ unheard' \subseteq Id
  BY DEF CatalogueInv, TypeOK
<1>2. /\ apps' \in [Id -> App \cup {None}] /\ apps'[i].n = n
      /\ \A k \in Id : k # i => apps'[k] = apps[k]
      /\ Lasting /\ Remembered /\ NamesUnique'
  BY Updated
<1>3. Shown'
  <2> SUFFICES ASSUME NEW k \in Id, Has(k)'
               PROVE  k \in unheard' \/ apps'[k].n \in Held(k)' \/ \E r \in Slot : Owes(r, k, apps[k].n)'
    BY DEF Shown
  <2>1. CASE k = i
    <3>1. Owes(s, k, apps[k].n)'
      BY <1>2, <2>1 DEF Owes
    <3> QED BY <3>1
  <2>2. CASE k # i
    <3>1. \A r \in Slot : r # s => job'[r] = job[r]
      BY <1>1
    <3> QED BY <1>2, <2>2, <3>1, OthersShown
  <2> QED BY <2>1, <2>2
<1> QED BY <1>1, <1>2, <1>3, HandlerGoes

\* Steps after which the same handler still owes nothing, or no longer does.
LEMMA QuietGoes ==
    ASSUME CatalogueInv, NEW s \in Slot, job[s] # None,
           NEW place \in {"deploy", "deployed", "clear", "deleted"},
           job' = [job EXCEPT ![s].at = place],
           job[s].at \in {"scaled", "deploy", "delete", "clear"}, job[s].id \in Id,
           place = "clear" => Has(job[s].id),
           UNCHANGED <<user, told, apps, unheard, commands>>, faults' \in 0..MaxFaults,
           feed' \in Seq(Event), Remembered,
           \A k \in Id : job[s].at = "scaled" /\ job[s].id = k => job[s].body.n \in Held(k)'
    PROVE  CatalogueInv'
<1> DEFINE j == [job[s] EXCEPT !.at = place]
<1>1. /\ job[s] \in Job /\ apps \in [Id -> App \cup {None}] /\ job \in [Slot -> Job \cup {None}]
  BY DEF CatalogueInv, TypeOK
<1>2. /\ j \in Job /\ j.from = job[s].from /\ j.at = place /\ j.id = job[s].id /\ j.body = job[s].body
      /\ job' = [job EXCEPT ![s] = j] /\ job'[s] = j
  BY <1>1 DEF Job
<1> HIDE DEF j
<1>3. Lasting /\ NamesUnique'
  BY DEF Lasting, Has, CatalogueInv, NamesUnique
<1>4. Sound(s)'
  BY <1>2 DEF Sound, Has
<1>5. Shown'
  <2> SUFFICES ASSUME NEW k \in Id, Has(k)'
               PROVE  k \in unheard' \/ apps'[k].n \in Held(k)' \/ \E r \in Slot : Owes(r, k, apps[k].n)'
    BY DEF Shown
  <2>1. Has(k) /\ apps'[k].n = apps[k].n
    BY DEF Has
  <2>2. CASE apps[k].n \in Held(k)
    BY <2>1, <2>2 DEF Remembered
  <2>3. ASSUME NEW r \in Slot, Owes(r, k, apps[k].n), r # s PROVE Owes(r, k, apps[k].n)'
    BY <1>1, <2>1, <2>3 DEF Owes
  <2>4. CASE Owes(s, k, apps[k].n)
    BY <2>1, <2>4 DEF Owes
  <2> QED BY <2>1, <2>2, <2>3, <2>4 DEF CatalogueInv, Shown
<1>6. \A u \in User : j.from = u => ~user[u].apply
  <2>1. \A u \in User : j.from = u => Asks(s, u)
    BY <1>2 DEF Asks
  <2>2. Waiting
    BY DEF CatalogueInv
  <2> QED BY <2>1, <2>2 DEF Waiting
<1>7. apps' \in [Id -> App \cup {None}] /\ unheard' \subseteq Id
  BY DEF CatalogueInv, TypeOK
<1> QED BY <1>2, <1>3, <1>4, <1>5, <1>6, <1>7, HandlerGoes

----------------------------------------------------------------------------
(* A handler answers. *)

LEMMA Answers ==
    ASSUME CatalogueInv, NEW s \in Slot, job[s] # None, NEW outcome \in {"ok", "error"},
           Reply(s, outcome), UNCHANGED commands, faults' \in 0..MaxFaults,
           apps' \in [Id -> App \cup {None}], unheard' \subseteq Id, feed' \in Seq(Event),
           Lasting, Remembered, NamesUnique', Shown',
           outcome = "ok" => job[s].at \notin {"create", "scale"},
           \A k \in Id : job[s].at = "created" /\ job[s].id = k => job[s].body.n \in Held(k)'
    PROVE  CatalogueInv'
<1>1. TypeOK /\ Served /\ Manifests /\ Waiting
  BY DEF CatalogueInv
<1>2. /\ job'[s] = None /\ \A r \in Slot : r # s => job'[r] = job[r]
      /\ job' \in [Slot -> Job \cup {None}]
  BY <1>1 DEF TypeOK, Reply
<1>3. ASSUME NEW u \in User
      PROVE  \/ user'[u] = user[u] /\ told'[u] = told[u] /\ u # job[s].from
             \/ /\ u = job[s].from /\ told'[u] = outcome /\ user'[u].at = "idle"
                /\ user'[u].apply = user[u].apply /\ user'[u].body = user[u].body
                /\ user'[u] \in [at : {"idle", "list", "wait"}, apply : BOOLEAN, body : Body]
  <2>1. user[u] \in [at : {"idle", "list", "wait"}, apply : BOOLEAN, body : Body]
    BY <1>1 DEF TypeOK
  <2>2. /\ user'[u] = IF u = job[s].from THEN [user[u] EXCEPT !.at = "idle"] ELSE user[u]
        /\ told'[u] = IF u = job[s].from THEN outcome ELSE told[u]
    BY DEF Reply
  <2> QED BY <2>1, <2>2
<1>4. TypeOK'
  <2>1. user' \in [User -> [at : {"idle", "list", "wait"}, apply : BOOLEAN, body : Body]]
        /\ told' \in [User -> {"nothing", "ok", "error"}]
    BY <1>1, <1>3 DEF TypeOK, Reply
  <2> QED BY <1>1, <1>2, <2>1 DEF TypeOK
<1>5. Served'
  <2> SUFFICES ASSUME NEW r \in Slot, r # s, job'[r] # None PROVE Sound(r)'
    BY <1>2 DEF Served
  <2> QED BY <1>1, <1>2 DEF Served, Sound, Lasting
<1>6. Manifests'
  BY <1>1, <1>3 DEF Manifests
<1>7. Waiting'
  <2>1. \A r \in Slot, u \in User : Asks(r, u)' => Asks(r, u) /\ r # s
    BY <1>2 DEF Asks
  <2>2. \A r \in Slot, u \in User : Asks(r, u)' => u # job[s].from
    BY <1>1, <2>1 DEF Waiting, Asks
  <2>3. \A r \in Slot, u \in User : Asks(r, u)' => user'[u] = user[u] /\ job'[r] = job[r]
    BY <1>2, <1>3, <2>1, <2>2
  <2> QED BY <1>1, <2>1, <2>3 DEF Waiting
<1>8. ApplyMeansIt'
  <2> SUFFICES ASSUME NEW u \in User, user'[u].at = "idle", user'[u].apply, told'[u] = "ok"
               PROVE  \E i \in Id : /\ Has(i)'
                                    /\ apps'[i].name = user'[u].body.name
                                    /\ apps'[i].image = user'[u].body.image
                                    /\ user'[u].body.n \in Held(i)'
    BY DEF ApplyMeansIt
  <2>1. CASE u # job[s].from
    BY <1>3, <2>1, StillMeant
  <2>2. CASE u = job[s].from
    <3>1. Asks(s, u) /\ outcome = "ok" /\ user[u].apply /\ user'[u].body = user[u].body
      BY <1>3, <2>2 DEF Asks
    <3>2. job[s].at = "created" /\ job[s].body = user[u].body
      <4>1. \/ job[s].at \in {"create", "created"} /\ job[s].body = user[u].body
            \/ job[s].at = "scale"
        BY <1>1, <3>1 DEF Waiting
      <4>2. job[s].at # "scale" /\ job[s].at # "create"
        BY <3>1
      <4> QED BY <4>1, <4>2
    <3>3. PICK k \in Id : /\ k = job[s].id /\ Has(k)
                           /\ apps[k].name = job[s].body.name
                           /\ apps[k].image = job[s].body.image
      BY <1>1, <3>2 DEF Served, Sound
    <3>4. /\ Has(k)'
          /\ apps'[k].name = user'[u].body.name
          /\ apps'[k].image = user'[u].body.image
      BY <3>1, <3>2, <3>3 DEF Lasting
    <3>5. user'[u].body.n \in Held(k)'
      BY <3>1, <3>2, <3>3
    <3> QED BY <3>4, <3>5
  <2> QED BY <2>1, <2>2
<1> QED BY <1>4, <1>5, <1>6, <1>7, <1>8 DEF CatalogueInv

LEMMA Replies ==
    ASSUME CatalogueInv, NEW s \in Slot, job[s] # None, NEW outcome \in {"ok", "error"},
           Reply(s, outcome), UNCHANGED <<apps, unheard, commands>>, faults' \in 0..MaxFaults,
           feed' \in Seq(Event), Remembered,
           \A k \in Id : Owes(s, k, apps[k].n) => apps[k].n \in Held(k)',
           outcome = "ok" => job[s].at \notin {"create", "scale"},
           \A k \in Id : job[s].at = "created" /\ job[s].id = k => job[s].body.n \in Held(k)'
    PROVE  CatalogueInv'
<1>1. /\ apps' \in [Id -> App \cup {None}] /\ unheard' \subseteq Id
      /\ \A r \in Slot : r # s => job'[r] = job[r]
  BY DEF CatalogueInv, TypeOK, Reply
<1>2. Lasting /\ NamesUnique'
  BY DEF Lasting, Has, CatalogueInv, NamesUnique
<1>3. Shown'
  <2> SUFFICES ASSUME NEW k \in Id, Has(k)'
               PROVE  k \in unheard' \/ apps'[k].n \in Held(k)' \/ \E r \in Slot : Owes(r, k, apps[k].n)'
    BY DEF Shown
  <2>1. Has(k) /\ apps'[k].n = apps[k].n
    BY DEF Has
  <2>2. CASE apps[k].n \in Held(k)
    BY <2>1, <2>2 DEF Remembered
  <2>3. ASSUME NEW r \in Slot, Owes(r, k, apps[k].n), r # s PROVE Owes(r, k, apps[k].n)'
    BY <1>1, <2>1, <2>3 DEF Owes
  <2>4. CASE Owes(s, k, apps[k].n)
    BY <2>1, <2>4
  <2> QED BY <2>1, <2>2, <2>3, <2>4 DEF CatalogueInv, Shown
<1> QED BY <1>1, <1>2, <1>3, Answers

\* A statement on app i that was committed and is reported as failed.
LEMMA UnheardGoes ==
    ASSUME CatalogueInv, NEW s \in Slot, job[s] # None, job[s].at \in {"create", "scale"},
           NEW i \in Id, Unheard(s, i), UNCHANGED <<feed, commands>>,
           apps' \in [Id -> App \cup {None}], \A k \in Id : k # i => apps'[k] = apps[k],
           Lasting, Remembered, NamesUnique'
    PROVE  CatalogueInv'
<1>1. /\ Reply(s, "error") /\ unheard' = unheard \cup {i} /\ unheard' \subseteq Id
      /\ feed' \in Seq(Event)
  BY DEF Unheard, CatalogueInv, TypeOK
<1>2. faults' \in 0..MaxFaults
  BY CatalogueAssumption DEF Unheard, CatalogueInv, TypeOK, Fails, Fault
<1>3. \A r \in Slot : r # s => job'[r] = job[r]
  BY <1>1 DEF CatalogueInv, TypeOK, Reply
<1>4. Shown'
  <2> SUFFICES ASSUME NEW k \in Id, Has(k)'
               PROVE  k \in unheard' \/ apps'[k].n \in Held(k)' \/ \E r \in Slot : Owes(r, k, apps[k].n)'
    BY DEF Shown
  <2>1. CASE k = i
    BY <1>1, <2>1
  <2>2. CASE k # i
    BY <1>1, <1>3, <2>2, OthersShown
  <2> QED BY <2>1, <2>2
<1> QED BY <1>1, <1>2, <1>4, Answers

\* An error, with nothing changed.
LEMMA Refuses ==
    ASSUME CatalogueInv, NEW s \in Slot, Reply(s, "error"),
           job[s] # None, job[s].at \in {"create", "scale", "deploy", "delete"},
           UNCHANGED <<apps, unheard, feed, commands>>, UNCHANGED faults \/ Fails(s)
    PROVE  CatalogueInv'
<1>1. faults' \in 0..MaxFaults /\ feed' \in Seq(Event) /\ Remembered
  BY CatalogueAssumption DEF CatalogueInv, TypeOK, Fails, Fault, Remembered, Held
<1>2. \A k \in Id : ~Owes(s, k, apps[k].n)
  BY DEF Owes
<1> QED BY <1>1, <1>2, Replies

\* The last event of a request and its answer.
LEMMA Finishes ==
    ASSUME CatalogueInv, NEW s \in Slot, Created(s) \/ Deployed(s) \/ Deleted(s)
    PROVE  CatalogueInv'
<1>1. TypeOK /\ job[s] # None /\ Sound(s) /\ job[s] \in Job
  BY DEF Created, Deployed, Deleted, At, CatalogueInv, Served, TypeOK
<1>2. PICK e \in Event :
        /\ Push(e) /\ e.id = job[s].id
        /\ job[s].at = "created" => e.n = job[s].body.n /\ e.type = "created"
        /\ job[s].at = "deleted" => e.n = 0 /\ e.type = "deleted"
        /\ job[s].at \in {"created", "deployed", "deleted"}
  <2>1. CASE Created(s)
    <3>1. job[s].at = "created" /\ job[s].id \in Id /\ job[s].body.n \in Count
      BY <1>1, <2>1 DEF Created, At, Sound, App
    <3> QED BY <2>1, <3>1 DEF Created, Message, Event
  <2>2. CASE Deployed(s)
    <3>1. job[s].at = "deployed" /\ job[s].id \in Id
      BY <1>1, <2>2 DEF Deployed, At, Sound
    <3> QED BY <2>2, <3>1 DEF Deployed, Message, Event
  <2>3. CASE Deleted(s)
    <3>1. job[s].at = "deleted" /\ job[s].id \in Id /\ 0 \in Count
      BY <1>1, <2>3, CatalogueAssumption DEF Deleted, At, Sound, Count
    <3> QED BY <2>3, <3>1 DEF Deleted, Message, Event
  <2> QED BY <2>1, <2>2, <2>3
<1>3. /\ feed' \in Seq(Event) /\ Remembered
      /\ e.type # "deployed" => \A i \in Id : e.id = i => e.n \in Held(i)'
  BY <1>1, <1>2, FeedGrows DEF TypeOK, Remembered
<1>4. ASSUME NEW k \in Id, Owes(s, k, apps[k].n) PROVE apps[k].n \in Held(k)'
  <2>1. job[s].id = k /\ e.n = apps[k].n /\ e.type # "deployed"
    BY <1>2, <1>4 DEF Owes
  <2> QED BY <1>2, <1>3, <2>1
<1>5. \A k \in Id : job[s].at = "created" /\ job[s].id = k => job[s].body.n \in Held(k)'
  BY <1>2, <1>3
<1>6. Reply(s, "ok") /\ UNCHANGED <<apps, unheard, commands>> /\ faults' \in 0..MaxFaults
  BY <1>1 DEF Created, Deployed, Deleted, TypeOK
<1> QED BY <1>1, <1>2, <1>3, <1>4, <1>5, <1>6, Replies

LEMMA HandleInv == ASSUME CatalogueInv, NEW s \in Slot, Handle(s) PROVE CatalogueInv'
<1>1. job[s] # None /\ Sound(s) /\ job[s] \in Job /\ job \in [Slot -> Job \cup {None}]
      /\ feed \in Seq(Event) /\ faults \in 0..MaxFaults
  BY DEF Handle, Create, Created, ScaleApp, Scaled, DeployApp, Deployed, DeleteApp, Clear, Deleted,
         At, CatalogueInv, Served, TypeOK
<1>2. Fails(s) => faults' \in 0..MaxFaults
  BY <1>1, CatalogueAssumption DEF Fails, Fault
<1>3. UNCHANGED feed => Remembered /\ feed' \in Seq(Event)
  BY <1>1 DEF Remembered, Held
<1>4. CASE Create(s)
  <2>1. CASE Reply(s, "error") /\ UNCHANGED <<apps, unheard>> /\ (UNCHANGED faults \/ Fails(s))
    <3>1. job[s].at \in {"create", "scale"} /\ UNCHANGED <<feed, commands>>
      BY <1>4 DEF Create, At
    <3> QED BY <1>1, <2>1, <3>1, Refuses
  <2>2. ASSUME NEW i \in Id, apps[i] = None, NameFree(job[s].body.name),
               apps' = [apps EXCEPT ![i] = job[s].body],
               job' = [job EXCEPT ![s].at = "created", ![s].id = i],
               UNCHANGED <<unheard, user, told, faults>>
        PROVE  CatalogueInv'
    <3>1. At(s, "create") /\ UNCHANGED <<feed, commands>>
      BY <1>4 DEF Create
    <3> QED BY <2>2, <3>1, CreateGoes
  <2>3. ASSUME NEW i \in Id, apps[i] = None, NameFree(job[s].body.name),
               apps' = [apps EXCEPT ![i] = job[s].body], Unheard(s, i)
        PROVE  CatalogueInv'
    <3>1. job[s].at = "create" /\ job[s].body \in App /\ UNCHANGED <<feed, commands>>
      BY <1>1, <1>4 DEF Create, At, Sound
    <3>2. /\ apps' \in [Id -> App \cup {None}] /\ \A k \in Id : k # i => apps'[k] = apps[k]
          /\ Lasting /\ Remembered /\ NamesUnique'
      BY <2>3, <3>1, Inserted
    <3> QED BY <1>1, <2>3, <3>1, <3>2, UnheardGoes
  <2> QED BY <1>4, <2>1, <2>2, <2>3 DEF Create
<1>5. CASE ScaleApp(s)
  <2>1. CASE Reply(s, "error") /\ UNCHANGED <<apps, unheard>> /\ (UNCHANGED faults \/ Fails(s))
    <3>1. job[s].at \in {"create", "scale"} /\ UNCHANGED <<feed, commands>>
      BY <1>5 DEF ScaleApp, At
    <3> QED BY <1>1, <2>1, <3>1, Refuses
  <2>2. CASE /\ Known(job[s].body) /\ Exists(s) /\ Go(s, "scaled")
             /\ apps' = [apps EXCEPT ![job[s].id].n = job[s].body.n]
             /\ unheard' = unheard \ {job[s].id}
             /\ UNCHANGED <<faults, feed, commands>>
    <3> DEFINE j == [job[s] EXCEPT !.at = "scaled"]
    <3>1. /\ j \in Job /\ j.from = job[s].from /\ j.at = "scaled" /\ j.id = job[s].id
          /\ j.body = job[s].body /\ job' = [job EXCEPT ![s] = j] /\ job'[s] = j
      BY <1>1, <2>2 DEF Job, Go
    <3> HIDE DEF j
    <3>2. job[s].at = "scale" /\ job[s].id \in Id /\ Has(job[s].id) /\ job[s].body.n \in Count
      BY <1>1, <1>5, <2>2 DEF ScaleApp, At, Known, Exists, Has, Job, Body
    <3>3. \A u \in User : j.from = u => ~user[u].apply
      <4>1. job[s].body.image \notin Image
        BY <2>2, CatalogueAssumption DEF Known
      <4>2. \A u \in User : j.from = u => Asks(s, u)
        BY <1>1, <3>1 DEF Asks
      <4>3. Waiting
        BY DEF CatalogueInv
      <4> QED BY <3>2, <4>1, <4>2, <4>3 DEF Waiting
    <3>4. Sound(s)' /\ Owes(s, job[s].id, job[s].body.n)'
      <4>1. Sound(s)'
        BY <3>1, <3>2 DEF Sound
      <4>2. /\ job'[s] # None /\ job'[s].id = job[s].id /\ job'[s].at = "scaled"
            /\ job'[s].body.n = job[s].body.n
        BY <3>1, CatalogueAssumption
      <4> QED BY <4>1, <4>2 DEF Owes
    <3> QED BY <1>1, <2>2, <3>1, <3>2, <3>3, <3>4, ChangeGoes DEF Go
  <2>3. CASE /\ Known(job[s].body) /\ Exists(s) /\ Unheard(s, job[s].id)
             /\ apps' = [apps EXCEPT ![job[s].id].n = job[s].body.n]
    <3>1. /\ job[s].at = "scale" /\ job[s].id \in Id /\ Has(job[s].id) /\ job[s].body.n \in Count
          /\ UNCHANGED <<feed, commands>>
      BY <1>1, <1>5, <2>3 DEF ScaleApp, At, Known, Exists, Has, Job, Body
    <3>2. /\ apps' \in [Id -> App \cup {None}] /\ \A k \in Id : k # job[s].id => apps'[k] = apps[k]
          /\ Lasting /\ Remembered /\ NamesUnique'
      BY <2>3, <3>1, Updated
    <3> QED BY <1>1, <2>3, <3>1, <3>2, UnheardGoes
  <2> QED BY <1>5, <2>1, <2>2, <2>3 DEF ScaleApp
<1>6. CASE Scaled(s)
  <2>1. job[s].at = "scaled" /\ job[s].id \in Id /\ job[s].body.n \in Count
    BY <1>1, <1>6 DEF Scaled, At, Sound
  <2>2. Message("scaled", job[s].id, job[s].body.n) \in Event
    BY <2>1 DEF Message, Event
  <2>3. /\ feed' \in Seq(Event) /\ Remembered
        /\ \A k \in Id : job[s].id = k => job[s].body.n \in Held(k)'
    <3> DEFINE e == Message("scaled", job[s].id, job[s].body.n)
    <3>1. e.id = job[s].id /\ e.n = job[s].body.n /\ e.type # "deployed"
      BY DEF Message
    <3>2. Push(e)
      BY <1>6 DEF Scaled, Announce
    <3> HIDE DEF e
    <3> QED BY <1>1, <2>1, <2>2, <3>1, <3>2, FeedGrows DEF Remembered, e
  <2> QED BY <1>1, <1>6, <2>1, <2>3, QuietGoes DEF Scaled, Go
<1>7. CASE DeployApp(s)
  <2>1. CASE Reply(s, "error")
    BY <1>1, <1>7, <2>1, Refuses DEF DeployApp, At
  <2>2. CASE Exists(s) /\ Go(s, "deployed") /\ UNCHANGED <<faults, apps, unheard, feed, commands>>
    <3>1. job[s].at = "deploy" /\ job[s].id \in Id
      BY <1>7, <2>2 DEF DeployApp, At, Exists
    <3> QED BY <1>1, <1>3, <2>2, <3>1, QuietGoes DEF Go
  <2> QED BY <1>7, <2>1, <2>2 DEF DeployApp
<1>8. CASE DeleteApp(s)
  <2>1. CASE Reply(s, "error")
    BY <1>1, <1>8, <2>1, Refuses DEF DeleteApp, At
  <2>2. CASE Exists(s) /\ Go(s, "clear") /\ UNCHANGED <<faults, apps, unheard, feed, commands>>
    <3>1. job[s].at = "delete" /\ job[s].id \in Id /\ Has(job[s].id)
      BY <1>8, <2>2 DEF DeleteApp, At, Exists, Has
    <3> QED BY <1>1, <1>3, <2>2, <3>1, QuietGoes DEF Go
  <2> QED BY <1>8, <2>1, <2>2 DEF DeleteApp
<1>9. CASE Clear(s)
  <2>1. job[s].at = "clear" /\ job[s].id \in Id /\ Has(job[s].id) /\ Go(s, "deleted")
        /\ UNCHANGED <<feed, commands>> /\ faults' \in 0..MaxFaults
    BY <1>1, <1>2, <1>9 DEF Clear, At, Sound
  <2>2. CASE UNCHANGED <<apps, unheard>>
    BY <1>1, <1>3, <2>1, <2>2, QuietGoes DEF Go
  <2>3. CASE apps' = [apps EXCEPT ![job[s].id].n = 0] /\ unheard' = unheard \ {job[s].id}
    <3> DEFINE j == [job[s] EXCEPT !.at = "deleted"]
    <3>1. /\ j \in Job /\ j.from = job[s].from /\ j.at = "deleted" /\ j.id = job[s].id
          /\ job' = [job EXCEPT ![s] = j] /\ job'[s] = j
      BY <1>1, <2>1 DEF Job, Go
    <3> HIDE DEF j
    <3>2. \A u \in User : j.from = u => ~user[u].apply
      <4>1. \A u \in User : j.from = u => Asks(s, u)
        BY <1>1, <3>1 DEF Asks
      <4>2. Waiting
        BY DEF CatalogueInv
      <4> QED BY <2>1, <4>1, <4>2 DEF Waiting
    <3>3. 0 \in Count
      BY CatalogueAssumption DEF Count
    <3>4. Sound(s)' /\ Owes(s, job[s].id, 0)'
      <4>1. Sound(s)'
        BY <2>1, <3>1 DEF Sound
      <4>2. job'[s] # None /\ job'[s].id = job[s].id /\ job'[s].at = "deleted"
        BY <3>1, CatalogueAssumption
      <4> QED BY <4>1, <4>2 DEF Owes
    <3> QED BY <1>1, <2>1, <2>3, <3>1, <3>2, <3>3, <3>4, ChangeGoes DEF Go
  <2> QED BY <1>9, <2>2, <2>3 DEF Clear
<1>10. CASE Created(s) \/ Deployed(s) \/ Deleted(s)
  BY <1>10, Finishes
<1> QED BY <1>4, <1>5, <1>6, <1>7, <1>8, <1>9, <1>10 DEF Handle

----------------------------------------------------------------------------
(* Commands. *)

\* A user moves, with a request or without one.
LEMMA UserMoves ==
    ASSUME CatalogueInv, NEW u \in User, UNCHANGED <<apps, unheard, feed>>,
           commands' \in 0..MaxCommands, faults' \in 0..MaxFaults,
           NEW x \in [at : {"list", "wait"}, apply : BOOLEAN, body : Body],
           user' = [user EXCEPT ![u] = x], told' \in [User -> {"nothing", "ok", "error"}],
           \A v \in User : v # u => told'[v] = told[v],
           x.at = "list" => x.apply, x.apply => x.body \in App,
           user[u].at # "wait",
           \/ UNCHANGED job
           \/ /\ x.at = "wait"
              /\ \E s \in Slot, j \in Job :
                    /\ job[s] = None /\ job' = [job EXCEPT ![s] = j]
                    /\ j.from = u /\ j.at \in {"create", "scale", "deploy", "delete"}
                    /\ j.at = "create" => j.body \in App
                    /\ j.at = "deploy" => j.id \in Id
                    /\ x.apply => \/ j.at = "create" /\ j.body = x.body
                                  \/ j.at = "scale" /\ j.body.image \in Image
    PROVE  CatalogueInv'
<1>1. TypeOK /\ Served /\ Manifests /\ Waiting
  BY DEF CatalogueInv
<1>2. user'[u] = x /\ \A v \in User : v # u => user'[v] = user[v]
  BY <1>1 DEF TypeOK
<1>3. PICK s \in Slot \cup {0}, j \in Job \cup {None} :
        /\ s \in Slot => /\ job[s] = None /\ job'[s] = j /\ x.at = "wait"
                         /\ j.from = u /\ j.at \in {"create", "scale", "deploy", "delete"}
                         /\ j.at = "create" => j.body \in App
                         /\ j.at = "deploy" => j.id \in Id
                         /\ x.apply => \/ j.at = "create" /\ j.body = x.body
                                       \/ j.at = "scale" /\ j.body.image \in Image
        /\ \A r \in Slot : r # s => job'[r] = job[r]
        /\ job' \in [Slot -> Job \cup {None}]
  <2>1. CASE UNCHANGED job
    <3>1. 0 \notin Slot
      BY DEF Slot
    <3> QED BY <1>1, <2>1, <3>1 DEF TypeOK
  <2>2. CASE ~UNCHANGED job
    <3>1. PICK s \in Slot, j \in Job :
             /\ job[s] = None /\ job' = [job EXCEPT ![s] = j]
             /\ j.from = u /\ j.at \in {"create", "scale", "deploy", "delete"}
             /\ j.at = "create" => j.body \in App
             /\ j.at = "deploy" => j.id \in Id
             /\ x.apply => \/ j.at = "create" /\ j.body = x.body
                           \/ j.at = "scale" /\ j.body.image \in Image
      BY <2>2
    <3>2. /\ job'[s] = j /\ \A r \in Slot : r # s => job'[r] = job[r]
          /\ job' \in [Slot -> Job \cup {None}]
      BY <1>1, <3>1 DEF TypeOK
    <3> QED BY <2>2, <3>1, <3>2
  <2> QED BY <2>1, <2>2
<1>4. TypeOK'
  <2>1. x \in [at : {"idle", "list", "wait"}, apply : BOOLEAN, body : Body]
    OBVIOUS
  <2> QED BY <1>1, <1>3, <2>1 DEF TypeOK
<1>5. Lasting /\ Remembered /\ NamesUnique'
  BY DEF Lasting, Remembered, Has, Held, CatalogueInv, NamesUnique
<1>6. Served'
  <2> SUFFICES ASSUME NEW r \in Slot, job'[r] # None PROVE Sound(r)'
    BY DEF Served
  <2>1. CASE r = s
    <3>1. job'[r].at \in {"create", "scale", "deploy", "delete"}
          /\ (job'[r].at = "create" => job'[r].body \in App)
      BY <1>3, <2>1
    <3>2. job'[r].at = "deploy" => job'[r].id \in Id
      BY <1>3, <2>1
    <3> QED BY <3>1, <3>2 DEF Sound
  <2>2. CASE r # s
    BY <1>1, <1>3, <2>2 DEF Served, Sound, Has
  <2> QED BY <2>1, <2>2
<1>7. Manifests'
  BY <1>1, <1>2 DEF Manifests
<1>8. Waiting'
  <2>1. \A r \in Slot : ~Asks(r, u)
    BY <1>1 DEF Waiting
  <2>2. \A r \in Slot, v \in User : Asks(r, v)' => (r = s /\ v = u) \/ (r # s /\ v # u /\ Asks(r, v))
    BY <1>3, <2>1 DEF Asks
  <2>3. ASSUME NEW r \in Slot, NEW v \in User, Asks(r, v)'
        PROVE  /\ user'[v].at = "wait"
               /\ user'[v].apply => \/ job'[r].at \in {"create", "created"} /\ job'[r].body = user'[v].body
                                    \/ job'[r].at = "scale" /\ job'[r].body.image \in Image
    <3>1. CASE r = s /\ v = u
      BY <1>2, <1>3, <3>1
    <3>2. CASE r # s /\ v # u /\ Asks(r, v)
      BY <1>1, <1>2, <1>3, <3>2 DEF Waiting
    <3> QED BY <2>2, <2>3, <3>1, <3>2
  <2>4. \A r, q \in Slot, v \in User : Asks(r, v)' /\ Asks(q, v)' => r = q
    BY <1>1, <2>2 DEF Waiting
  <2> QED BY <2>3, <2>4 DEF Waiting
<1>9. Shown'
  <2> SUFFICES ASSUME NEW k \in Id, Has(k)'
               PROVE  k \in unheard' \/ apps'[k].n \in Held(k)' \/ \E r \in Slot : Owes(r, k, apps[k].n)'
    BY DEF Shown
  <2>1. Has(k) /\ apps'[k].n = apps[k].n /\ Held(k)' = Held(k)
    BY DEF Has, Held
  <2>2. \A r \in Slot : Owes(r, k, apps[k].n) => Owes(r, k, apps[k].n)'
    BY <1>3, <2>1 DEF Owes
  <2> QED BY <2>1, <2>2 DEF CatalogueInv, Shown
<1>10. ApplyMeansIt'
  <2>1. x.at # "idle"
    OBVIOUS
  <2> QED BY <1>2, <1>5, <2>1, StillMeant DEF ApplyMeansIt
<1> QED BY <1>4, <1>5, <1>6, <1>7, <1>8, <1>9, <1>10 DEF CatalogueInv

LEMMA CommandInv ==
    ASSUME CatalogueInv, NEW u \in User,
           Apply(u) \/ Listed(u) \/ Scale(u) \/ Restart(u) \/ Delete(u)
    PROVE  CatalogueInv'
<1>1. /\ Manifests /\ Waiting /\ commands \in 0..MaxCommands /\ faults \in 0..MaxFaults
      /\ user \in [User -> [at : {"idle", "list", "wait"}, apply : BOOLEAN, body : Body]]
      /\ told \in [User -> {"nothing", "ok", "error"}]
  BY DEF CatalogueInv, TypeOK
<1>2. ASSUME NEW apply, NEW body, NEW place, Command(u, apply, body, place)
      PROVE  /\ commands' \in 0..MaxCommands /\ user[u].at # "wait"
             /\ user' = [user EXCEPT ![u] = [at |-> place, apply |-> apply, body |-> body]]
             /\ told' \in [User -> {"nothing", "ok", "error"}]
             /\ \A v \in User : v # u => told'[v] = told[v]
  BY <1>1, <1>2, CatalogueAssumption DEF Command
<1>3. CASE Apply(u)
  <2>1. PICK n \in Name, i \in Image, r \in Count :
          Command(u, TRUE, [name |-> n, image |-> i, n |-> r], "list")
    BY <1>3 DEF Apply
  <2> DEFINE b == [name |-> n, image |-> i, n |-> r]
             x == [at |-> "list", apply |-> TRUE, body |-> b]
  <2>2. b \in App /\ b \in Body
    BY DEF App, Body
  <2>3. x \in [at : {"list", "wait"}, apply : BOOLEAN, body : Body]
        /\ x.apply /\ x.body \in App
    BY <2>2
  <2>4. user' = [user EXCEPT ![u] = x]
    BY <1>2, <2>1
  <2>5. UNCHANGED <<apps, unheard, feed, job, faults>>
    BY <1>3 DEF Apply
  <2>6. /\ commands' \in 0..MaxCommands /\ user[u].at # "wait"
        /\ told' \in [User -> {"nothing", "ok", "error"}]
        /\ \A v \in User : v # u => told'[v] = told[v]
    BY <1>2, <2>1
  <2> HIDE DEF x, b
  <2> QED BY <1>1, <2>3, <2>4, <2>5, <2>6, UserMoves
<1>4. CASE Listed(u)
  <2> DEFINE x == [user[u] EXCEPT !.at = "wait"]
  <2>1. user[u].at = "list" /\ user[u].apply /\ user[u].body \in App
    BY <1>1, <1>4 DEF Listed, Manifests
  <2>2. /\ x \in [at : {"list", "wait"}, apply : BOOLEAN, body : Body]
        /\ x.at = "wait" /\ x.apply /\ x.body = user[u].body
        /\ user' = [user EXCEPT ![u] = x]
    <3>1. user[u] \in [at : {"idle", "list", "wait"}, apply : BOOLEAN, body : Body]
      BY <1>1
    <3>2. user' = [user EXCEPT ![u].at = "wait"]
      BY <1>4 DEF Listed
    <3> QED BY <2>1, <3>1, <3>2
  <2>3. \E s \in Slot, j \in Job :
          /\ job[s] = None /\ job' = [job EXCEPT ![s] = j]
          /\ j.from = u /\ j.at \in {"create", "scale", "deploy", "delete"}
          /\ j.at = "create" => j.body \in App
          /\ j.at = "deploy" => j.id \in Id
          /\ x.apply => \/ j.at = "create" /\ j.body = x.body
                        \/ j.at = "scale" /\ j.body.image \in Image
    <3> HIDE DEF x
    <3>1. CASE Request(u, "create", None, user[u].body)
      <4>1. PICK s \in Slot : job[s] = None
              /\ job' = [job EXCEPT ![s] = [from |-> u, id |-> None, body |-> user[u].body, at |-> "create"]]
        BY <3>1 DEF Request
      <4>2. user[u].body \in Body
        BY <1>1
      <4>3. [from |-> u, id |-> None, body |-> user[u].body, at |-> "create"] \in Job
        BY <4>2 DEF Job
      <4> QED BY <2>1, <2>2, <4>1, <4>3
    <3>2. ASSUME NEW i \in Id, Request(u, "scale", i, [user[u].body EXCEPT !.name = None])
          PROVE  \E s \in Slot, j \in Job :
                   /\ job[s] = None /\ job' = [job EXCEPT ![s] = j]
                   /\ j.from = u /\ j.at = "scale" /\ j.body.image \in Image
      <4> DEFINE b == [user[u].body EXCEPT !.name = None]
      <4>1. b \in Body /\ b.image \in Image
        BY <2>1 DEF App, Body
      <4>2. PICK s \in Slot : job[s] = None
              /\ job' = [job EXCEPT ![s] = [from |-> u, id |-> i, body |-> b, at |-> "scale"]]
        BY <3>2 DEF Request
      <4> HIDE DEF b
      <4>3. [from |-> u, id |-> i, body |-> b, at |-> "scale"] \in Job
        BY <4>1 DEF Job
      <4> QED BY <4>1, <4>2, <4>3
    <3>3. \/ Request(u, "create", None, user[u].body)
          \/ \E i \in Id : Request(u, "scale", i, [user[u].body EXCEPT !.name = None])
      BY <1>4 DEF Listed
    <3>4. CASE \E i \in Id : Request(u, "scale", i, [user[u].body EXCEPT !.name = None])
      <4>1. PICK s \in Slot, j \in Job :
                   /\ job[s] = None /\ job' = [job EXCEPT ![s] = j]
                   /\ j.from = u /\ j.at = "scale" /\ j.body.image \in Image
        BY <3>2, <3>4
      <4> QED BY <4>1
    <3> QED BY <3>1, <3>3, <3>4
  <2>4. UNCHANGED <<apps, unheard, feed, told, commands, faults>>
    BY <1>4 DEF Listed
  <2> HIDE DEF x
  <2> QED BY <1>1, <2>1, <2>2, <2>3, <2>4, UserMoves
<1>5. ASSUME NEW b \in Body, NEW place \in {"scale", "deploy", "delete"}, NEW id \in Id,
             Command(u, FALSE, b, "wait"), Request(u, place, id, b), UNCHANGED <<apps, unheard, feed, faults>>
      PROVE  CatalogueInv'
  <2> DEFINE x == [at |-> "wait", apply |-> FALSE, body |-> b]
             j == [from |-> u, id |-> id, body |-> b, at |-> place]
  <2>1. x \in [at : {"list", "wait"}, apply : BOOLEAN, body : Body] /\ ~x.apply /\ x.at = "wait"
    OBVIOUS
  <2>2. j \in Job /\ j.from = u /\ j.at = place /\ j.id \in Id
    BY DEF Job
  <2>3. \E s \in Slot : job[s] = None /\ job' = [job EXCEPT ![s] = j]
    BY <1>5 DEF Request
  <2>4. /\ commands' \in 0..MaxCommands /\ user[u].at # "wait"
        /\ user' = [user EXCEPT ![u] = x]
        /\ told' \in [User -> {"nothing", "ok", "error"}]
        /\ \A v \in User : v # u => told'[v] = told[v]
    BY <1>2, <1>5
  <2> HIDE DEF x, j
  <2>5. \E s \in Slot, k \in Job :
                    /\ job[s] = None /\ job' = [job EXCEPT ![s] = k]
                    /\ k.from = u /\ k.at \in {"create", "scale", "deploy", "delete"}
                    /\ k.at = "create" => k.body \in App
                    /\ k.at = "deploy" => k.id \in Id
                    /\ x.apply => \/ k.at = "create" /\ k.body = x.body
                                  \/ k.at = "scale" /\ k.body.image \in Image
    BY <2>1, <2>2, <2>3
  <2> QED BY <1>1, <1>5, <2>1, <2>4, <2>5, UserMoves
<1>6. Nothing \in Body /\ \A r \in Count : [Nothing EXCEPT !.n = r] \in Body
  BY DEF Nothing, Body
<1>7. CASE Scale(u)
  BY <1>5, <1>6, <1>7 DEF Scale
<1>8. CASE Restart(u)
  BY <1>5, <1>6, <1>8 DEF Restart
<1>9. CASE Delete(u)
  BY <1>5, <1>6, <1>9 DEF Delete
<1> QED BY <1>3, <1>4, <1>7, <1>8, <1>9

\* Who gives up is told of an error, and the handler goes on for nobody.
LEMMA GiveUpInv == ASSUME CatalogueInv, NEW u \in User, GiveUp(u) PROVE CatalogueInv'
<1>1. TypeOK /\ Served /\ Manifests /\ Waiting
  BY DEF CatalogueInv
<1>2. /\ user' = [user EXCEPT ![u].at = "idle"] /\ told' = [told EXCEPT ![u] = "error"]
      /\ UNCHANGED <<apps, unheard, feed, commands>> /\ faults' \in 0..MaxFaults
  BY <1>1, CatalogueAssumption DEF GiveUp, Fault, TypeOK
<1>3. ASSUME NEW s \in Slot
      PROVE  /\ job'[s] \in Job \cup {None} /\ (job'[s] # None => job[s] # None)
             /\ job[s] # None => /\ job'[s] # None /\ job'[s].at = job[s].at
                                 /\ job'[s].id = job[s].id /\ job'[s].body = job[s].body
                                 /\ job'[s].from \in {job[s].from, None} /\ job'[s].from # u
  <2>1. job'[s] = IF job[s] # None /\ job[s].from = u
                  THEN [job[s] EXCEPT !.from = None] ELSE job[s]
    BY DEF GiveUp
  <2>2. job[s] \in Job \cup {None}
    BY <1>1 DEF TypeOK
  <2>3. CASE job[s] # None /\ job[s].from = u
    <3>1. job'[s] \in Job /\ job'[s].at = job[s].at
          /\ job'[s].id = job[s].id /\ job'[s].body = job[s].body /\ job'[s].from = None
      BY <2>1, <2>2, <2>3 DEF Job
    <3> QED BY <2>3, <3>1, CatalogueAssumption
  <2>4. CASE ~(job[s] # None /\ job[s].from = u)
    BY <2>1, <2>2, <2>4
  <2> QED BY <2>3, <2>4
<1>4. ASSUME NEW v \in User
      PROVE  /\ user'[v].apply = user[v].apply /\ user'[v].body = user[v].body
             /\ v # u => user'[v] = user[v] /\ told'[v] = told[v]
             /\ v = u => user'[v].at = "idle" /\ told'[v] = "error"
             /\ user'[v] \in [at : {"idle", "list", "wait"}, apply : BOOLEAN, body : Body]
  BY <1>1, <1>2 DEF TypeOK
<1>5. TypeOK'
  <2>1. job' \in [Slot -> Job \cup {None}]
    BY <1>3 DEF GiveUp
  <2>2. user' \in [User -> [at : {"idle", "list", "wait"}, apply : BOOLEAN, body : Body]]
        /\ told' \in [User -> {"nothing", "ok", "error"}]
    BY <1>1, <1>2, <1>4 DEF TypeOK
  <2> QED BY <1>1, <1>2, <2>1, <2>2 DEF TypeOK
<1>6. Lasting /\ Remembered /\ NamesUnique'
  BY <1>2 DEF Lasting, Remembered, Has, Held, CatalogueInv, NamesUnique
<1>7. Served'
  <2> SUFFICES ASSUME NEW s \in Slot, job'[s] # None PROVE Sound(s)'
    BY DEF Served
  <2>1. Sound(s)
    BY <1>1, <1>3 DEF Served
  <2> QED BY <1>2, <1>3, <2>1 DEF Sound, Has
<1>8. Manifests'
  BY <1>1, <1>4 DEF Manifests
<1>9. Waiting'
  <2>1. \A s \in Slot, v \in User : Asks(s, v)' => Asks(s, v) /\ v # u
    BY <1>3, CatalogueAssumption DEF Asks
  <2> QED BY <1>1, <1>3, <1>4, <2>1 DEF Waiting, Asks
<1>10. Shown'
  <2> SUFFICES ASSUME NEW k \in Id, Has(k)'
               PROVE  k \in unheard' \/ apps'[k].n \in Held(k)' \/ \E r \in Slot : Owes(r, k, apps[k].n)'
    BY DEF Shown
  <2>1. Has(k) /\ apps'[k].n = apps[k].n /\ Held(k)' = Held(k)
    BY <1>2 DEF Has, Held
  <2>2. \A r \in Slot : Owes(r, k, apps[k].n) => Owes(r, k, apps[k].n)'
    BY <1>3, <2>1 DEF Owes
  <2> QED BY <1>2, <2>1, <2>2 DEF CatalogueInv, Shown
<1>11. ApplyMeansIt'
  BY <1>4, <1>6, StillMeant DEF ApplyMeansIt
<1> QED BY <1>5, <1>6, <1>7, <1>8, <1>9, <1>10, <1>11 DEF CatalogueInv

LEMMA CatalogueNext == CatalogueInv /\ [Next]_vars => CatalogueInv'
<1> SUFFICES ASSUME CatalogueInv, [Next]_vars PROVE CatalogueInv'
  OBVIOUS
<1>1. CASE \E u \in User : Apply(u) \/ Listed(u) \/ Scale(u) \/ Restart(u) \/ Delete(u) \/ GiveUp(u)
  BY <1>1, CommandInv, GiveUpInv
<1>2. CASE \E s \in Slot : Handle(s)
  BY <1>2, HandleInv
<1>3. CASE UNCHANGED vars
  BY <1>3 DEF vars, CatalogueInv, TypeOK, Served, Sound, Manifests, Waiting, Asks, NamesUnique,
     Shown, Owes, ApplyMeansIt, Has, Held
<1> QED BY <1>1, <1>2, <1>3 DEF Next

LEMMA CatalogueCorrect == Spec => []CatalogueInv
BY CatalogueInit, CatalogueNext, PTL DEF Spec

\* The tables, users, requests and the feed keep their types (server.go, cli.go).
THEOREM CatalogueTypeCorrect == Spec => []TypeOK
BY CatalogueCorrect, PTL DEF CatalogueInv

\* No name belongs to two apps, whoever looks for it and creates it (cli.go:549-559).
THEOREM NamesUniqueCorrect == Spec => []NamesUnique
BY CatalogueCorrect, PTL DEF CatalogueInv

\* An apply that reports success has put its manifest in place (cli.go:549-559,
\* server.go:609-616).
THEOREM ApplyMeansItCorrect == Spec => []ApplyMeansIt
BY CatalogueCorrect, PTL DEF CatalogueInv

\* The feed has shown the number of replicas an app has, or a handler is about to, unless
\* the statement that set it was reported as failed (server.go:378-390, 615-628).
THEOREM ShownCorrect == Spec => []Shown
BY CatalogueCorrect, PTL DEF CatalogueInv
=============================================================================
