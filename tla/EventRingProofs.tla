-------------------------- MODULE EventRingProofs --------------------------
(* The ring of events for every capacity and any number of subscribers. *)
EXTENDS EventRing, SequenceTheorems, WellFoundedInduction, TLAPS

\* Advancing is adding one, with a wrap at the end.
LEMMA AdvanceWraps ==
    ASSUME next \in Slot
    PROVE  Advance = IF next + 1 = Cap THEN 0 ELSE next + 1
BY RingAssumption DEF Advance, Slot

\* An index below twice the capacity is reduced by subtracting it once.
LEMMA IndexWraps ==
    ASSUME NEW k \in 0..(2 * Cap - 1)
    PROVE  k % Cap = IF k < Cap THEN k ELSE k - Cap
BY RingAssumption

----------------------------------------------------------------------------
(* Types. *)

\* Type correctness is inductive.
LEMMA TypeNext == TypeOK /\ [Next]_vars => TypeOK'
<1> SUFFICES ASSUME TypeOK, [Next]_vars PROVE TypeOK'
  OBVIOUS
<1> USE DEF TypeOK
<1>1. CASE Push
  <2>1. Advance \in Slot
    BY AdvanceWraps, RingAssumption DEF Slot
  <2>2. chan' \in [Sub -> Seq(Nat)]
    BY <1>1 DEF Push
  <2> QED BY <1>1, <2>1, <2>2 DEF Push
<1>2. CASE \E s \in Sub : Subscribe(s)
  BY <1>2 DEF Subscribe, ring
<1>3. CASE \E s \in Sub : CancelFirst(s) \/ CancelThen(s)
  BY <1>3 DEF CancelFirst, CancelThen, ring
<1>4. CASE \E s \in Sub : Read(s)
  <2>1. PICK s \in Sub : Read(s)
    BY <1>4
  <2>2. Head(chan[s]) \in Nat /\ Tail(chan[s]) \in Seq(Nat)
    BY <2>1 DEF Read
  <2>3. Append(got[s], Head(chan[s])) \in Seq(Nat)
    BY <2>2
  <2> QED BY <2>1, <2>2, <2>3 DEF Read, ring
<1>5. CASE UNCHANGED vars
  BY <1>5 DEF vars, ring
<1> QED BY <1>1, <1>2, <1>3, <1>4, <1>5 DEF Next

\* The empty ring.
LEMMA RingInit == Init => TypeOK /\ next = 0 /\ 0 \in Slot
<1> SUFFICES ASSUME Init PROVE TypeOK /\ next = 0 /\ 0 \in Slot
  OBVIOUS
<1>1. 0 \in Slot
  BY RingAssumption DEF Slot
<1>2. slots \in [Slot -> Nat] /\ since \in [Sub -> Nat]
  BY DEF Init
<1>3. chan \in [Sub -> Seq(Nat)] /\ got \in [Sub -> Seq(Nat)]
  BY DEF Init
<1>4. pc \in [Sub -> {"new", "open", "removed", "done"}]
  BY DEF Init
<1> QED BY <1>1, <1>2, <1>3, <1>4 DEF Init, TypeOK

\* Slots, channels and histories keep their types (NewRing, Push, Subscribe).
THEOREM RingTypeCorrect == Spec => []TypeOK
<1> QED BY RingInit, TypeNext, PTL DEF Spec

----------------------------------------------------------------------------
(* The circular buffer. *)

\* How many events ago slot i was written, if it was.
Age(i) == IF i < next THEN next - 1 - i ELSE next - 1 - i + Cap

\* Every slot holds the event its age says, or none if the ring is not so old.
Aged == \A i \in Slot : slots[i] = IF seq > Age(i) THEN seq - Age(i) ELSE 0

\* A push makes every event one older and writes the newest.
LEMMA AgedNext == TypeOK /\ Aged /\ [Next]_vars => Aged'
<1> SUFFICES ASSUME TypeOK, Aged, [Next]_vars PROVE Aged'
  OBVIOUS
<1>1. CASE Push
  <2>1. /\ next \in Slot /\ seq \in Nat /\ seq' = seq + 1
        /\ slots' = [slots EXCEPT ![next] = seq + 1]
        /\ next' = IF next + 1 = Cap THEN 0 ELSE next + 1
        /\ slots \in [Slot -> Nat]
    BY <1>1, AdvanceWraps DEF Push, TypeOK
  <2>2. SUFFICES ASSUME NEW i \in Slot
                 PROVE  slots'[i] = IF seq' > Age(i)' THEN seq' - Age(i)' ELSE 0
    BY DEF Aged
  <2>3. CASE i = next
    <3>1. Age(i)' = 0
      BY <2>1, <2>3, RingAssumption DEF Age, Slot
    <3> QED BY <2>1, <2>3, <3>1
  <2>4. CASE i # next
    <3>1. Age(i)' = Age(i) + 1 /\ Age(i) \in Nat
      BY <2>1, <2>4, RingAssumption DEF Age, Slot
    <3>2. slots'[i] = slots[i]
      BY <2>1, <2>4
    <3> QED BY <2>1, <3>1, <3>2 DEF Aged
  <2> QED BY <2>3, <2>4
<1>2. CASE UNCHANGED ring
  BY <1>2 DEF ring, Aged, Age
<1> QED BY <1>1, <1>2
        DEF Next, Subscribe, CancelFirst, CancelThen, Read, vars, ring

\* Recent walks the slots by decreasing age.
LEMMA AgedRecent == TypeOK /\ Aged => RecentExact
<1> SUFFICES ASSUME TypeOK, Aged, NEW n \in 0..(2 * Cap), NEW i \in 0..(Clamp(n) - 1)
             PROVE  LET age == Clamp(n) - 1 - i
                    IN Entry(Clamp(n), i) = IF seq > age THEN seq - age ELSE 0
  BY DEF RecentExact
<1> DEFINE m == Clamp(n)
           k == First(m) + i
           j == IF k < Cap THEN k ELSE k - Cap
<1>1. m \in 1..Cap /\ i \in 0..(m - 1) /\ next \in Slot
  BY RingAssumption DEF Clamp, TypeOK
<1>2. k \in 0..(2 * Cap - 1)
  BY <1>1, RingAssumption DEF First, Slot
<1>3. Entry(m, i) = slots[j]
  BY <1>2, IndexWraps DEF Entry
<1>4. j \in Slot /\ Age(j) = m - 1 - i
  BY <1>1, <1>2, RingAssumption DEF First, Age, Slot
<1> QED BY <1>3, <1>4 DEF Aged

\* Recent returns the last events, oldest first, for every capacity of the
\* ring and every limit (Push, Recent).
THEOREM RecentCorrect == Spec => []RecentExact
<1>1. Init => TypeOK /\ Aged
  BY RingInit, RingAssumption DEF Init, Aged, Age, Slot
<1> QED BY <1>1, TypeNext, AgedNext, AgedRecent, PTL DEF Spec

----------------------------------------------------------------------------
(* Subscriptions. *)

\* A closed channel is no longer in the table of subscribers.
Withdrawn ==
    /\ \A s \in Sub : pc[s] \in {"removed", "done"} => s \notin subs
    /\ \A s \in Sub : s \in closed => pc[s] = "done"
    /\ ~panic

\* Cancelling removes the subscriber before it closes the channel.
LEMMA WithdrawnNext == TypeOK /\ Withdrawn /\ [Next]_vars => Withdrawn'
<1> SUFFICES ASSUME TypeOK, Withdrawn, [Next]_vars PROVE Withdrawn'
  OBVIOUS
<1> USE DEF TypeOK, Withdrawn
<1>1. CASE Push
  BY <1>1 DEF Push
<1>2. CASE \E s \in Sub : Subscribe(s)
  BY <1>2 DEF Subscribe
<1>3. CASE \E s \in Sub : CancelFirst(s)
  BY <1>3 DEF CancelFirst
<1>4. CASE \E s \in Sub : CancelThen(s)
  BY <1>4 DEF CancelThen
<1>5. CASE \E s \in Sub : Read(s)
  BY <1>5 DEF Read
<1>6. CASE UNCHANGED vars
  BY <1>6 DEF vars
<1> QED BY <1>1, <1>2, <1>3, <1>4, <1>5, <1>6 DEF Next

\* No event is ever sent on a closed channel, for any number of subscribers
\* that cancel while events are pushed (Push, the cancel function of Subscribe).
THEOREM NoPanicCorrect == Spec => []NoPanic
<1>1. Init => TypeOK /\ Withdrawn
  BY RingInit DEF Init, Withdrawn
<1>2. Withdrawn => NoPanic
  BY DEF Withdrawn, NoPanic
<1> QED BY <1>1, <1>2, TypeNext, WithdrawnNext, PTL DEF Spec

\* q holds events after event b and up to event k, in order, each once.
Sequential(q, b, k) ==
    /\ \A i \in 1..Len(q) : q[i] \in (b + i)..k
    /\ \A i, j \in 1..Len(q) : i < j => q[i] < q[j]

\* q holds all of them from the first.
Gapless(q, b) == \A i \in 1..Len(q) : q[i] = b + i

\* A subscription made at event b has been sent q by event k.  It may be in the
\* ring's table, may have been found full, and may be yet to be made.
Served(q, b, k, inTable, full, new) ==
    /\ b <= k
    /\ Sequential(q, b, k)
    /\ ~full => Gapless(q, b)
    /\ inTable /\ ~full => Len(q) = k - b
    /\ full => Len(q) >= BufSize
    /\ new => q = <<>> /\ ~full /\ ~inTable

\* Complete, and that a subscription starts with nothing sent.
CompleteInv ==
    \A s \in Sub :
        Served(Sent(s), since[s], seq, s \in subs, s \in missed, pc[s] = "new")

\* Taking the oldest event of a channel changes nothing about what was sent.
LEMMA ReadSent ==
    ASSUME NEW g \in Seq(Nat), NEW c \in Seq(Nat), c # <<>>
    PROVE  Append(g, Head(c)) \o Tail(c) = g \o c
<1> DEFINE u == Append(g, Head(c)) \o Tail(c)
           v == g \o c
<1>1. Head(c) \in Nat /\ Tail(c) \in Seq(Nat) /\ Len(Tail(c)) = Len(c) - 1 /\ Len(c) \in Nat \ {0}
  OBVIOUS
<1>2. Append(g, Head(c)) \in Seq(Nat) /\ Len(Append(g, Head(c))) = Len(g) + 1 /\ Len(g) \in Nat
  BY <1>1
<1>3. u \in Seq(Nat) /\ v \in Seq(Nat) /\ Len(u) = Len(g) + Len(c) /\ Len(v) = Len(g) + Len(c)
  BY <1>1, <1>2
<1>4. ASSUME NEW i \in 1..(Len(g) + Len(c)) PROVE u[i] = v[i]
  <2>1. CASE i <= Len(g)
    BY <1>1, <1>2, <2>1
  <2>2. CASE i = Len(g) + 1
    BY <1>1, <1>2, <2>2
  <2>3. CASE i > Len(g) + 1
    <3>1. u[i] = Tail(c)[i - Len(g) - 1]
      <4>1. u[i] = Tail(c)[i - Len(Append(g, Head(c)))]
        <5>1. /\ i \in Nat /\ i > Len(Append(g, Head(c)))
              /\ i <= Len(Append(g, Head(c))) + Len(Tail(c))
          BY <1>1, <1>2, <2>3
        <5> HIDE <2>3
        <5> DEFINE a == Append(g, Head(c))
                   e == Tail(c)
        <5>2. a \in Seq(Nat) /\ e \in Seq(Nat)
          BY <1>1, <1>2
        <5>3. i > Len(a) /\ i <= Len(a) + Len(e)
          BY <5>1
        <5> HIDE DEF a, e
        <5>4. (a \o e)[i] = e[i - Len(a)]
          BY <5>1, <5>2, <5>3
        <5> QED BY <5>4 DEF a, e
      <4>2. i - Len(Append(g, Head(c))) = i - Len(g) - 1
        BY <1>2
      <4> HIDE DEF u
      <4> QED BY <4>1, <4>2
    <3>2. Tail(c)[i - Len(g) - 1] = c[i - Len(g)]
      BY <1>1, <1>2, <2>3
    <3>3. v[i] = c[i - Len(g)]
      BY <1>2, <2>3
    <3> QED BY <3>1, <3>2, <3>3
  <2> QED BY <1>2, <2>1, <2>2, <2>3
<1> QED BY <1>3, <1>4

\* Sending the next event extends what was sent.
LEMMA AppendSent ==
    ASSUME NEW g \in Seq(Nat), NEW c \in Seq(Nat), NEW k \in Nat
    PROVE  g \o Append(c, k) = Append(g \o c, k)
  OBVIOUS

\* A sequence extended by the next event.
LEMMA Extended ==
    ASSUME NEW q, NEW p, NEW b \in Nat, NEW k \in Nat, b <= k,
           Len(q) \in Nat, Len(p) = Len(q) + 1,
           \A i \in 1..Len(q) : p[i] = q[i], p[Len(q) + 1] = k + 1,
           Sequential(q, b, k)
    PROVE  /\ Sequential(p, b, k + 1)
           /\ Gapless(q, b) /\ Len(q) = k - b => Gapless(p, b)
<1>1. Len(q) <= k - b
  <2>1. CASE Len(q) = 0
    BY <2>1
  <2>2. CASE Len(q) # 0
    <3>1. Len(q) \in 1..Len(q)
      BY <2>2
    <3>2. q[Len(q)] \in (b + Len(q))..k
      BY <3>1 DEF Sequential
    <3> QED BY <3>2
  <2> QED BY <2>1, <2>2
<1>2. ASSUME NEW i \in 1..Len(p) PROVE p[i] \in (b + i)..(k + 1)
  <2>1. CASE i \in 1..Len(q)
    BY <2>1 DEF Sequential
  <2>2. CASE i = Len(q) + 1
    BY <1>1, <2>2
  <2> QED BY <2>1, <2>2
<1>3. ASSUME NEW i \in 1..Len(p), NEW j \in 1..Len(p), i < j PROVE p[i] < p[j]
  <2>1. i \in 1..Len(q)
    BY <1>3
  <2>2. p[i] = q[i] /\ q[i] \in (b + i)..k
    BY <2>1 DEF Sequential
  <2>3. CASE j \in 1..Len(q)
    BY <1>3, <2>1, <2>2, <2>3 DEF Sequential
  <2>4. CASE j = Len(q) + 1
    BY <2>2, <2>4
  <2> QED BY <2>3, <2>4
<1>4. ASSUME Gapless(q, b), Len(q) = k - b, NEW i \in 1..Len(p) PROVE p[i] = b + i
  <2>1. CASE i \in 1..Len(q)
    BY <1>4, <2>1 DEF Gapless
  <2>2. CASE i = Len(q) + 1
    BY <1>4, <2>2
  <2> QED BY <2>1, <2>2
<1> QED BY <1>2, <1>3, <1>4 DEF Sequential, Gapless

\* A push that sends.
LEMMA PushSends ==
    ASSUME NEW q \in Seq(Nat), NEW b \in Nat, NEW k \in Nat, b <= k,
           Sequential(q, b, k)
    PROVE  /\ Len(q) \in Nat /\ Len(Append(q, k + 1)) = Len(q) + 1
           /\ Sequential(Append(q, k + 1), b, k + 1)
           /\ Gapless(q, b) /\ Len(q) = k - b => Gapless(Append(q, k + 1), b)
<1> DEFINE p == Append(q, k + 1)
<1>1. /\ Len(q) \in Nat /\ Len(p) = Len(q) + 1
      /\ \A i \in 1..Len(q) : p[i] = q[i]
      /\ p[Len(q) + 1] = k + 1
  OBVIOUS
<1> HIDE DEF p
<1>2. /\ Sequential(p, b, k + 1)
      /\ Gapless(q, b) /\ Len(q) = k - b => Gapless(p, b)
  BY <1>1, Extended
<1> QED BY <1>1, <1>2 DEF p

\* A push sends the new event to a subscription, or finds its channel full.
LEMMA PushComplete ==
    ASSUME TypeOK, Withdrawn, CompleteInv, Push PROVE CompleteInv'
<1> SUFFICES ASSUME NEW s \in Sub
             PROVE Served(Sent(s), since[s], seq, s \in subs, s \in missed,
                          pc[s] = "new")'
  BY DEF CompleteInv
<1>1. /\ chan[s] \in Seq(Nat) /\ got[s] \in Seq(Nat) /\ seq \in Nat /\ since[s] \in Nat
  BY DEF TypeOK
<1>2. /\ Sent(s) \in Seq(Nat) /\ Len(Sent(s)) = Len(got[s]) + Len(chan[s])
      /\ Len(got[s]) \in Nat /\ Len(chan[s]) \in Nat
  BY <1>1 DEF Sent
<1>3. /\ seq' = seq + 1
      /\ chan'[s] = IF s \in subs \ closed /\ Room(s)
                    THEN Append(chan[s], seq + 1) ELSE chan[s]
      /\ missed' = missed \cup {x \in subs : ~Room(x)}
      /\ subs' = subs /\ pc'[s] = pc[s] /\ got'[s] = got[s] /\ since'[s] = since[s]
  BY DEF Push
<1>4. s \in subs => s \notin closed
  BY DEF Withdrawn
<1>5. /\ since[s] <= seq
      /\ Sequential(Sent(s), since[s], seq)
      /\ s \notin missed => Gapless(Sent(s), since[s])
      /\ s \in subs /\ s \notin missed => Len(Sent(s)) = seq - since[s]
      /\ s \in missed => Len(Sent(s)) >= BufSize
      /\ pc[s] = "new" => Sent(s) = <<>> /\ s \notin missed /\ s \notin subs
  BY DEF CompleteInv, Served
<1>6. CASE s \in subs /\ Room(s)
  <2>1. chan'[s] = Append(chan[s], seq + 1) /\ (s \in missed' <=> s \in missed)
    BY <1>3, <1>4, <1>6
  <2>2. seq + 1 \in Nat
    BY <1>1
  <2>3. got[s] \o Append(chan[s], seq + 1) = Append(got[s] \o chan[s], seq + 1)
    BY <1>1, <2>2, AppendSent
  <2>4. Sent(s)' = Append(Sent(s), seq + 1)
    BY <1>3, <2>1, <2>3 DEF Sent
  <2> DEFINE q == Sent(s)
             p == Append(Sent(s), seq + 1)
  <2>5. /\ Len(q) \in Nat /\ Len(p) = Len(q) + 1
        /\ Sequential(p, since[s], seq + 1)
        /\ Gapless(q, since[s]) /\ Len(q) = seq - since[s] => Gapless(p, since[s])
    BY <1>1, <1>2, <1>5, PushSends
  <2> HIDE DEF p
  <2>6. /\ since[s] <= seq + 1
        /\ s \notin missed => Gapless(p, since[s]) /\ Len(p) = seq + 1 - since[s]
        /\ s \in missed => Len(p) >= BufSize
    <3>1. /\ s \notin missed => Gapless(q, since[s]) /\ Len(q) = seq - since[s]
          /\ s \in missed => Len(q) >= BufSize
      BY <1>5, <1>6
    <3> HIDE DEF q
    <3> QED BY <1>1, <1>5, <2>5, <3>1, RingAssumption
  <2>7. Sent(s)' = p
    BY <2>4 DEF p
  <2>8. pc'[s] # "new" /\ s \in subs' /\ seq' = seq + 1 /\ since'[s] = since[s]
    BY <1>3, <1>5, <1>6
  <2>9. Served(p, since'[s], seq', s \in subs', s \in missed', pc'[s] = "new")
    <3>1. Len(p) = seq' - since'[s] \/ s \in missed'
      BY <1>1, <2>1, <2>6, <2>8
    <3>2. since'[s] <= seq' /\ Sequential(p, since'[s], seq')
      BY <2>5, <2>6, <2>8
    <3>3. s \notin missed' => Gapless(p, since'[s])
      BY <2>1, <2>6, <2>8
    <3>4. s \in missed' => Len(p) >= BufSize
      BY <2>1, <2>6
    <3> QED BY <2>8, <3>1, <3>2, <3>3, <3>4 DEF Served
  <2> QED BY <2>7, <2>9
<1>7. CASE ~(s \in subs /\ Room(s))
  <2>1. chan'[s] = chan[s]
    BY <1>3, <1>7
  <2>2. Sent(s)' = Sent(s)
    BY <1>3, <2>1 DEF Sent
  <2>3. s \in subs => Len(chan[s]) >= BufSize
    BY <1>2, <1>7, RingAssumption DEF Room
  <2>4. s \in subs => Len(Sent(s)) >= BufSize
    <3> DEFINE n == Len(Sent(s))
               g == Len(got[s])
               c == Len(chan[s])
    <3>1. n = g + c /\ g \in Nat /\ c \in Nat /\ (s \in subs => c >= BufSize)
      BY <1>2, <2>3
    <3> HIDE DEF n, g, c
    <3>2. s \in subs => n >= BufSize
      BY <3>1, RingAssumption
    <3> QED BY <3>2 DEF n
  <2>5. /\ s \in subs => s \in missed'
        /\ s \in missed => s \in missed'
        /\ s \in missed' => s \in missed \/ s \in subs
    BY <1>3, <1>7
  <2>6. Sequential(Sent(s), since[s], seq + 1) /\ since[s] <= seq + 1
    <3> DEFINE q == Sent(s)
    <3>1. Sequential(q, since[s], seq) /\ since[s] <= seq
      BY <1>5
    <3> HIDE DEF q
    <3>2. Sequential(q, since[s], seq + 1) /\ since[s] <= seq + 1
      BY <1>1, <3>1 DEF Sequential
    <3> QED BY <3>2 DEF q
  <2> QED BY <1>3, <1>4, <1>5, <2>2, <2>4, <2>5, <2>6 DEF Served
<1> QED BY <1>6, <1>7

\* The other steps send nothing.
LEMMA CompleteNext ==
    TypeOK /\ Withdrawn /\ CompleteInv /\ [Next]_vars => CompleteInv'
<1> SUFFICES ASSUME TypeOK, Withdrawn, CompleteInv, [Next]_vars PROVE CompleteInv'
  OBVIOUS
<1>1. CASE Push
  BY <1>1, PushComplete
<1>2. CASE \E s \in Sub : Subscribe(s)
  <2>1. PICK x \in Sub : Subscribe(x)
    BY <1>2
  <2>2. /\ UNCHANGED <<seq, chan, got, missed>>
        /\ subs' = subs \cup {x} /\ pc[x] = "new"
        /\ pc' = [pc EXCEPT ![x] = "open"]
        /\ since' = [since EXCEPT ![x] = seq]
    BY <2>1 DEF Subscribe, ring
  <2>3. ASSUME NEW s \in Sub PROVE Sent(s)' = Sent(s)
    BY <2>2 DEF Sent
  <2>4. Sent(x) = <<>> /\ x \notin missed /\ Len(Sent(x)) = 0
    BY <2>2 DEF CompleteInv, Served
  <2>5. since'[x] = seq /\ seq \in Nat /\ pc'[x] = "open"
    BY <2>2 DEF TypeOK
  <2>6. ASSUME NEW s \in Sub, s # x
        PROVE  since'[s] = since[s] /\ pc'[s] = pc[s] /\ (s \in subs' <=> s \in subs)
    BY <2>2, <2>6 DEF TypeOK
  <2> QED BY <2>2, <2>3, <2>4, <2>5, <2>6 DEF CompleteInv, Served, Sequential, Gapless
<1>3. CASE \E s \in Sub : CancelFirst(s) \/ CancelThen(s)
  <2>1. PICK x \in Sub : CancelFirst(x) \/ CancelThen(x)
    BY <1>3
  <2>2. /\ UNCHANGED <<seq, chan, got, since, missed>> /\ subs' \subseteq subs
        /\ \A s \in Sub : pc'[s] = "new" => pc[s] = "new"
    BY <2>1 DEF CancelFirst, CancelThen, ring, TypeOK
  <2>3. ASSUME NEW s \in Sub PROVE Sent(s)' = Sent(s)
    BY <2>2 DEF Sent
  <2> QED BY <2>2, <2>3 DEF CompleteInv, Served, Sequential, Gapless
<1>4. CASE \E s \in Sub : Read(s)
  <2>1. PICK x \in Sub : Read(x)
    BY <1>4
  <2>2. UNCHANGED <<seq, subs, pc, since, missed>>
    BY <2>1 DEF Read, ring
  <2>3. ASSUME NEW s \in Sub PROVE Sent(s)' = Sent(s)
    <3>1. CASE s = x
      <4>1. chan[x] \in Seq(Nat) /\ got[x] \in Seq(Nat) /\ chan[x] # <<>>
        BY <2>1 DEF Read, TypeOK
      <4>2. got'[x] = Append(got[x], Head(chan[x])) /\ chan'[x] = Tail(chan[x])
        BY <2>1 DEF Read, TypeOK
      <4> QED BY <3>1, <4>1, <4>2, ReadSent DEF Sent
    <3>2. CASE s # x
      BY <2>1, <3>2 DEF Read, TypeOK, Sent
    <3> QED BY <3>1, <3>2
  <2> QED BY <2>2, <2>3 DEF CompleteInv, Served, Sequential, Gapless
<1>5. CASE UNCHANGED vars
  <2>1. UNCHANGED <<seq, chan, got, since, missed, subs, pc>>
    BY <1>5 DEF vars, ring
  <2>2. ASSUME NEW s \in Sub PROVE Sent(s)' = Sent(s)
    BY <2>1 DEF Sent
  <2> QED BY <2>1, <2>2 DEF CompleteInv, Served, Sequential, Gapless
<1> QED BY <1>1, <1>2, <1>3, <1>4, <1>5 DEF Next

\* Every subscription gets what was pushed after it, in order and each once,
\* and misses nothing unless its channel was found full (Push, Subscribe).
THEOREM CompleteCorrect == Spec => []Complete
<1>1. Init => Withdrawn
  BY DEF Init, Withdrawn
<1>2. Init => CompleteInv
  <2> SUFFICES ASSUME Init, NEW s \in Sub
               PROVE  Served(Sent(s), since[s], seq, s \in subs, s \in missed,
                             pc[s] = "new")
    BY DEF CompleteInv
  <2>1. got[s] = <<>> /\ chan[s] = <<>> /\ since[s] = 0 /\ seq = 0
        /\ s \notin missed /\ s \notin subs
    BY DEF Init
  <2>2. Sent(s) = <<>>
    BY <2>1 DEF Sent
  <2>3. Sequential(<<>>, 0, 0) /\ Gapless(<<>>, 0)
    BY DEF Sequential, Gapless
  <2> QED BY <2>1, <2>2, <2>3 DEF Served
<1>3. CompleteInv => Complete
  BY DEF CompleteInv, Served, Complete, Sequential, Gapless
<1> QED BY <1>1, <1>2, <1>3, RingInit, TypeNext, WithdrawnNext, CompleteNext, PTL DEF Spec

----------------------------------------------------------------------------
(* The feed. *)

\* A nonempty set of naturals has a least element.
LEMMA LeastNat ==
    ASSUME NEW S \in SUBSET Nat, S # {}
    PROVE  \E x \in S : \A y \in S : x <= y
<1> DEFINE R == {ss \in Nat \X Nat : ss[1] < ss[2]}
<1>1. IsWellFoundedOn(R, Nat)
  BY NatLessThanWellFounded DEF OpToRel
<1>2. PICK x \in S : \A y \in S : <<y, x>> \notin R
  <2> HIDE DEF R
  <2> QED BY <1>1, WFMin
<1>3. ASSUME NEW y \in S PROVE x <= y
  <2>1. x \in Nat /\ y \in Nat /\ <<y, x>> \notin R
    BY <1>2
  <2> QED BY <2>1
<1> QED BY <1>3

\* The events after b, k of them.
From(b, k) == [j \in 1..k |-> b + j]

LEMMA FromSeq ==
    ASSUME NEW b \in Nat, NEW k \in Nat
    PROVE  /\ From(b, k) \in Seq(Nat) /\ Len(From(b, k)) = k
           /\ \A i \in 1..k : From(b, k)[i] = b + i
           /\ k = 0 => From(b, k) = <<>>
<1>1. /\ From(b, k) \in Seq(Nat) /\ Len(From(b, k)) = k
      /\ \A i \in 1..k : From(b, k)[i] = b + i
  BY DEF From
<1> QED BY <1>1, EmptySeq

LEMMA FromExtends ==
    ASSUME NEW b \in Nat, NEW k \in Nat, NEW e, e = b + k + 1
    PROVE  Append(From(b, k), e) = From(b, k + 1)
<1> DEFINE p == Append(From(b, k), e)
           q == From(b, k + 1)
<1>1. k + 1 \in Nat /\ e \in Nat
  OBVIOUS
<1>2. /\ From(b, k) \in Seq(Nat) /\ Len(From(b, k)) = k
      /\ \A i \in 1..k : From(b, k)[i] = b + i
  BY FromSeq
<1>3. q \in Seq(Nat) /\ Len(q) = k + 1 /\ \A i \in 1..(k + 1) : q[i] = b + i
  BY <1>1, FromSeq
<1>4. p \in Seq(Nat) /\ Len(p) = k + 1 /\ p[k + 1] = e /\ \A i \in 1..k : p[i] = From(b, k)[i]
  BY <1>1, <1>2, AppendProperties
<1> HIDE DEF p, q
<1>5. \A i \in 1..(k + 1) : p[i] = q[i]
  BY <1>2, <1>3, <1>4
<1>6. p = q
  BY <1>3, <1>4, <1>5, SeqEqual
<1> QED BY <1>6 DEF p, q

LEMMA FromMoves ==
    ASSUME NEW b \in Nat, NEW k \in Nat, k # 0, NEW e, e = b + k + 1
    PROVE  Append(Tail(From(b, k)), e) = From(b + 1, k)
<1> DEFINE t == Tail(From(b, k))
           p == Append(t, e)
           q == From(b + 1, k)
<1>1. b + 1 \in Nat /\ e \in Nat
  OBVIOUS
<1>2. /\ From(b, k) \in Seq(Nat) /\ Len(From(b, k)) = k
      /\ \A i \in 1..k : From(b, k)[i] = b + i
  BY FromSeq
<1>3. q \in Seq(Nat) /\ Len(q) = k /\ \A i \in 1..k : q[i] = b + 1 + i
  BY <1>1, FromSeq
<1>4. From(b, k) # <<>>
  BY <1>2, EmptySeq
<1>5. t \in Seq(Nat) /\ Len(t) = k - 1 /\ \A i \in 1..(k - 1) : t[i] = From(b, k)[i + 1]
  BY <1>2, <1>4, HeadTailProperties
<1> HIDE DEF t
<1>6. p \in Seq(Nat) /\ Len(p) = k /\ p[k] = e /\ \A i \in 1..(k - 1) : p[i] = t[i]
  BY <1>1, <1>5, AppendProperties
<1> HIDE DEF p, q
<1>7. ASSUME NEW i \in 1..k PROVE p[i] = q[i]
  <2>1. CASE i = k
    BY <1>3, <1>6, <2>1
  <2>2. CASE i # k
    <3>1. i \in 1..(k - 1) /\ i + 1 \in 1..k
      BY <2>2
    <3> QED BY <1>2, <1>3, <1>5, <1>6, <3>1
  <2> QED BY <2>1, <2>2
<1>8. p = q
  BY <1>3, <1>6, <1>7, SeqEqual
<1> QED BY <1>8 DEF t, p, q

\* Recent(n) is the newest n events, or all of them if there are fewer.
Newest(n) == IF seq < n THEN From(0, seq) ELSE From(seq - n, n)

LEMMA RecentNewest ==
    ASSUME TypeOK, RecentExact, NEW n \in 1..Cap
    PROVE  Recent(n) = Newest(n)
<1> DEFINE E(i) == Entry(n, i - 1)
           F(g) == [i \in 0..n |-> IF i = 0 THEN <<>>
                                   ELSE IF E(i) = 0 THEN g[i - 1] ELSE Append(g[i - 1], E(i))]
           K == CHOOSE g : g = F(g)
           z == IF seq < n THEN n - seq ELSE 0
           b == IF seq < n THEN 0 ELSE seq - n
           w == [i \in 0..n |-> IF i <= z THEN <<>> ELSE From(b, i - z)]
<1>1. n \in Nat /\ seq \in Nat /\ Clamp(n) = n /\ n \in 0..(2 * Cap)
  BY RingAssumption DEF TypeOK, Clamp
<1>2. Recent(n) = K[n]
  BY <1>1 DEF Recent
<1>3. z \in Nat /\ b \in Nat /\ z <= n
  BY <1>1
<1>4. ASSUME NEW i \in 1..n PROVE E(i) = IF i <= z THEN 0 ELSE b + (i - z)
  <2>1. i - 1 \in 0..(Clamp(n) - 1)
    BY <1>1
  <2>2. E(i) = IF seq > n - i THEN seq - (n - i) ELSE 0
    BY <1>1, <2>1 DEF RecentExact
  <2> QED BY <1>1, <2>2
<1> HIDE DEF E, z, b
<1>5. w = F(w)
  <2> SUFFICES ASSUME NEW i \in 0..n PROVE w[i] = F(w)[i]
    OBVIOUS
  <2>1. CASE i = 0
    BY <1>3, <2>1
  <2>2. CASE i \in 1..z
    BY <1>3, <1>4, <2>2
  <2>3. CASE i > z
    <3>1. i \in 1..n /\ i - 1 \in 0..n /\ E(i) = b + (i - z) /\ E(i) # 0
      BY <1>3, <1>4, <2>3
    <3>2. i - 1 - z \in Nat /\ i - z = (i - 1 - z) + 1 /\ E(i) = b + (i - 1 - z) + 1
      BY <1>3, <2>3, <3>1
    <3>3. w[i - 1] = From(b, i - 1 - z)
      BY <1>3, <3>1, <3>2, FromSeq
    <3>4. Append(From(b, i - 1 - z), E(i)) = From(b, i - z)
      <4> DEFINE j == i - 1 - z
      <4>1. j \in Nat /\ b \in Nat /\ E(i) = b + j + 1 /\ i - z = j + 1
        BY <1>3, <3>2
      <4> HIDE DEF j
      <4>2. Append(From(b, j), E(i)) = From(b, j + 1)
        BY <4>1, FromExtends
      <4> QED BY <4>1, <4>2 DEF j
    <3>5. w[i] = From(b, i - z)
      BY <1>3, <2>3
    <3>6. F(w)[i] = Append(w[i - 1], E(i))
      BY <2>3, <1>3, <3>1
    <3> QED BY <3>3, <3>4, <3>5, <3>6
  <2> QED BY <1>3, <2>1, <2>2, <2>3
<1>6. K = F(K)
  <2> HIDE DEF w, F
  <2> QED BY <1>5
<1>11. \A g : /\ F(g)[0] = <<>>
              /\ \A i \in 1..n : F(g)[i] = IF E(i) = 0 THEN g[i - 1] ELSE Append(g[i - 1], E(i))
  BY <1>1
<1> HIDE DEF K, F
<1>7. \A i \in 0..n : K[i] = w[i]
  <2> DEFINE S == {i \in 0..n : K[i] # w[i]}
  <2>1. SUFFICES ASSUME S # {} PROVE FALSE
    OBVIOUS
  <2>2. PICK i \in S : \A j \in S : i <= j
    <3>1. S \in SUBSET Nat
      BY <1>1
    <3> HIDE DEF S
    <3> QED BY <2>1, <3>1, LeastNat
  <2>3. CASE i = 0
    <3>1. K[0] = <<>> /\ w[0] = <<>>
      <4>1. F(K)[0] = <<>> /\ F(w)[0] = <<>>
        BY <1>11
      <4> HIDE DEF w
      <4> QED BY <1>5, <1>6, <4>1
    <3> QED BY <2>3, <3>1
  <2>4. CASE i # 0
    <3> HIDE DEF w
    <3>1. i - 1 \in 0..n /\ i \in 1..n /\ K[i - 1] = w[i - 1] /\ K[i] # w[i]
      BY <2>2, <2>4, <1>1
    <3>2. F(K)[i] = F(w)[i]
      BY <1>11, <3>1
    <3> QED BY <1>5, <1>6, <3>1, <3>2
  <2> QED BY <2>3, <2>4
<1>8. K[n] = IF n <= z THEN <<>> ELSE From(b, n - z)
  BY <1>1, <1>7
<1>9. CASE seq < n
  BY <1>1, <1>2, <1>8, <1>9, FromSeq DEF Newest, z, b
<1>10. CASE ~(seq < n)
  BY <1>1, <1>2, <1>8, <1>10 DEF Newest, z, b
<1> QED BY <1>9, <1>10

\* Publishing moves the newest events on by one.
RecentIsNewest == Recent(Cap) = Newest(Cap)

LEMMA NewestPublish ==
    ASSUME seq \in Nat, seq' = seq + 1, RecentIsNewest, RecentIsNewest'
    PROVE  Log!Publish
<1>1. Cap \in Nat /\ Cap # 0
  BY RingAssumption
<1>2. Newest(Cap)' = IF Len(Newest(Cap)) < Cap THEN Append(Newest(Cap), seq')
                     ELSE Append(Tail(Newest(Cap)), seq')
  <2>1. CASE seq < Cap
    <3>1. Newest(Cap) = From(0, seq) /\ Len(From(0, seq)) = seq
      BY <2>1, FromSeq DEF Newest
    <3>2. Append(From(0, seq), seq') = From(0, seq + 1)
      <4>1. 0 \in Nat /\ seq' = 0 + seq + 1
        OBVIOUS
      <4> QED BY <4>1, FromExtends
    <3>3. Newest(Cap)' = From(0, seq + 1)
      BY <1>1, <2>1 DEF Newest
    <3> QED BY <2>1, <3>1, <3>2, <3>3
  <2>2. CASE ~(seq < Cap)
    <3>1. seq - Cap \in Nat /\ seq + 1 - Cap = (seq - Cap) + 1 /\ seq + 1 = (seq - Cap) + Cap + 1
      BY <1>1, <2>2
    <3>2. Newest(Cap) = From(seq - Cap, Cap) /\ Len(From(seq - Cap, Cap)) = Cap
      BY <1>1, <2>2, <3>1, FromSeq DEF Newest
    <3>3. Append(Tail(From(seq - Cap, Cap)), seq') = From(seq - Cap + 1, Cap)
      BY <1>1, <3>1, FromMoves
    <3>4. Newest(Cap)' = From(seq - Cap + 1, Cap)
      BY <1>1, <2>2, <3>1 DEF Newest
    <3>5. ~(Len(Newest(Cap)) < Cap)
      BY <1>1, <3>2
    <3> QED BY <3>2, <3>3, <3>4, <3>5
  <2> QED BY <2>1, <2>2
<1> QED BY <1>2 DEF Log!Publish, RecentIsNewest

\* The feed is the log of events it promises to be: the last Cap in the order of
\* publication, whatever subscribers do (Push, Recent).
THEOREM ImplementsCorrect == Spec => Implements
<1>1. TypeOK /\ RecentExact => RecentIsNewest
  BY RecentNewest, RingAssumption DEF RecentIsNewest
<1>2. Init /\ RecentIsNewest => Log!Init
  <2> SUFFICES ASSUME Init, RecentIsNewest PROVE Log!Init
    OBVIOUS
  <2>1. seq = 0 /\ Newest(Cap) = From(0, 0)
    BY RingAssumption DEF Init, Newest
  <2> QED BY <2>1, FromSeq DEF Log!Init, RecentIsNewest
<1>3. TypeOK /\ RecentIsNewest /\ RecentIsNewest' /\ [Next]_vars
        => [Log!Publish]_<<Recent(Cap), seq>>
  <2> SUFFICES ASSUME TypeOK, RecentIsNewest, RecentIsNewest', [Next]_vars
               PROVE  [Log!Publish]_<<Recent(Cap), seq>>
    OBVIOUS
  <2>1. CASE Push
    BY <2>1, NewestPublish DEF Push, TypeOK
  <2>2. CASE UNCHANGED ring
    BY <2>2 DEF ring, Newest, RecentIsNewest
  <2> QED BY <2>1, <2>2
          DEF Next, Subscribe, CancelFirst, CancelThen, Read, vars, ring
<1> QED BY <1>1, <1>2, <1>3, RingTypeCorrect, RecentCorrect, PTL DEF Spec, Implements, Log!Spec
=============================================================================
