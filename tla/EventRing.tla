----------------------------- MODULE EventRing -----------------------------
(***************************************************************************)
(* The ring of events of the control plane (internal/control/ring.go):     *)
(* a circular buffer of the last events, and subscribers with channels of  *)
(* their own.                                                              *)
(*                                                                         *)
(* Push, Recent and Subscribe hold the mutex throughout, so each is one    *)
(* step.  The cancel function of a subscription releases it before it      *)
(* closes the channel, so it is two.  An event is its id: what else it     *)
(* holds is not looked at.  Each subscriber subscribes once and cancels    *)
(* once; a second cancel would close a closed channel.                     *)
(***************************************************************************)
EXTENDS Integers, Sequences

CONSTANTS
    Cap,      \* capacity of the ring
    BufSize,  \* subBufSize, capacity of a subscriber's channel
    Sub,      \* subscriptions
    MaxPush   \* bound: events pushed

ASSUME RingAssumption ==
    Cap \in Nat \ {0} /\ BufSize \in Nat \ {0} /\ MaxPush \in Nat

VARIABLES
    slots,   \* r.events, by id; 0 is the zero Event
    next,    \* r.next
    seq,     \* r.seq
    subs,    \* keys of r.subs
    chan,    \* what each channel holds
    closed,  \* closed channels
    pc,      \* how far each subscription has come
    got,     \* what each reader has received
    since,   \* history: seq when the subscription was made
    missed,  \* history: subscriptions that an event found full
    panic    \* a send on a closed channel

ring == <<slots, next, seq>>
vars == <<ring, subs, chan, closed, pc, got, since, missed, panic>>

Slot == 0..(Cap - 1)

TypeOK ==
    /\ slots \in [Slot -> Nat] /\ next \in Slot /\ seq \in Nat
    /\ subs \subseteq Sub /\ closed \subseteq Sub /\ missed \subseteq Sub
    /\ chan \in [Sub -> Seq(Nat)] /\ got \in [Sub -> Seq(Nat)]
    /\ pc \in [Sub -> {"new", "open", "removed", "done"}]
    /\ since \in [Sub -> Nat]
    /\ panic \in BOOLEAN

Init ==
    /\ slots = [i \in Slot |-> 0] /\ next = 0 /\ seq = 0
    /\ subs = {} /\ closed = {} /\ missed = {}
    /\ chan = [s \in Sub |-> <<>>] /\ got = [s \in Sub |-> <<>>]
    /\ pc = [s \in Sub |-> "new"]
    /\ since = [s \in Sub |-> 0]
    /\ panic = FALSE

----------------------------------------------------------------------------
SlipAdvance == (next + 1) % (Cap + 1)
Advance == (next + 1) % Cap

SlipRoom(s) == Len(chan[s]) + 1 < BufSize
Room(s) == Len(chan[s]) < BufSize

\* The send to a full channel is given up, to a closed one it panics.
Push ==
    /\ ~panic /\ seq < MaxPush
    /\ seq' = seq + 1
    /\ slots' = [slots EXCEPT ![next] = seq']
    /\ next' = Advance
    /\ chan' = [s \in Sub |-> IF s \in subs \ closed /\ Room(s)
                              THEN Append(chan[s], seq') ELSE chan[s]]
    /\ missed' = missed \cup {s \in subs : ~Room(s)}
    /\ panic' = (subs \cap closed # {})
    /\ UNCHANGED <<subs, closed, pc, got, since>>

Subscribe(s) ==
    /\ ~panic /\ pc[s] = "new"
    /\ subs' = subs \cup {s}
    /\ pc' = [pc EXCEPT ![s] = "open"]
    /\ since' = [since EXCEPT ![s] = seq]
    /\ UNCHANGED <<ring, chan, closed, got, missed, panic>>

SlipCancelFirst(s) == \* closes before it removes
    /\ ~panic /\ pc[s] = "open"
    /\ closed' = closed \cup {s}
    /\ pc' = [pc EXCEPT ![s] = "removed"]
    /\ UNCHANGED <<ring, subs, chan, got, since, missed, panic>>
\* cancel, under the mutex, and after it.
CancelFirst(s) ==
    /\ ~panic /\ pc[s] = "open"
    /\ subs' = subs \ {s}
    /\ pc' = [pc EXCEPT ![s] = "removed"]
    /\ UNCHANGED <<ring, chan, closed, got, since, missed, panic>>

CancelThen(s) ==
    /\ ~panic /\ pc[s] = "removed"
    /\ closed' = closed \cup {s}
    /\ pc' = [pc EXCEPT ![s] = "done"]
    /\ UNCHANGED <<ring, subs, chan, got, since, missed, panic>>

\* The reader takes the oldest event, closed or not.
Read(s) ==
    /\ ~panic /\ chan[s] # <<>>
    /\ got' = [got EXCEPT ![s] = Append(@, Head(chan[s]))]
    /\ chan' = [chan EXCEPT ![s] = Tail(@)]
    /\ UNCHANGED <<ring, subs, closed, pc, since, missed, panic>>

Next ==
    \/ Push
    \/ \E s \in Sub : Subscribe(s) \/ CancelFirst(s) \/ CancelThen(s) \/ Read(s)

Spec == Init /\ [][Next]_vars

----------------------------------------------------------------------------
(* Recent(n), the only reader of the slots. *)

SlipClamp(n) == IF n >= Cap THEN Cap - 1 ELSE IF n < 1 THEN 1 ELSE n
Clamp(n) == IF n > Cap THEN Cap ELSE IF n < 1 THEN 1 ELSE n

SlipFirst(n) == IF next - n < 0 THEN next - n + Cap - 1 ELSE next - n
First(n) == IF next - n < 0 THEN next - n + Cap ELSE next - n

Entry(n, i) == slots[(First(n) + i) % Cap] \* the i-th slot it looks at, from 0

Recent(n) ==
    LET m == Clamp(n)
        res[i \in 0..m] == IF i = 0 THEN <<>>
                           ELSE IF Entry(m, i - 1) = 0 THEN res[i - 1]
                           ELSE Append(res[i - 1], Entry(m, i - 1))
    IN res[m]

----------------------------------------------------------------------------
(* Properties. *)

\* Recent walks the slots from the oldest of the last n events to the newest,
\* wherever the ring has wrapped, and meets empty slots only before the first
\* event there is.  It never looks at more events than the ring keeps.
RecentExact ==
    \A n \in 0..(2 * Cap) : \A i \in 0..(Clamp(n) - 1) :
        LET age == Clamp(n) - 1 - i
        IN Entry(Clamp(n), i) = IF seq > age THEN seq - age ELSE 0

\* Recent(Cap) is the tail of the abstract log of events.
Log == INSTANCE EventLog WITH tail <- Recent(Cap), count <- seq
Implements == Log!Spec

\* Nobody sends on a closed channel: cancel runs beside Push without the mutex
\* when it closes.
NoPanic == ~panic

\* All that was sent to s, received or not.
Sent(s) == got[s] \o chan[s]

\* A subscription is sent events made after it only, in order, each once.  It
\* misses none until it is BufSize events behind: never found full, it has been
\* sent every event up to the present or to its cancellation, and found full,
\* at least the first BufSize.
Complete ==
    \A s \in Sub :
        LET n == Len(Sent(s))
        IN /\ \A i \in 1..n : Sent(s)[i] \in (since[s] + i)..seq
           /\ \A i, j \in 1..n : i < j => Sent(s)[i] < Sent(s)[j]
           /\ s \notin missed => \A i \in 1..n : Sent(s)[i] = since[s] + i
           /\ s \in subs \ missed => n = seq - since[s]
           /\ s \in missed => n >= BufSize
=============================================================================
