--------------------------- MODULE ChannelsProofs ---------------------------
(***************************************************************************)
(* Channels for any threads, channels, capacities and number of calls:     *)
(* types and the bounds of queues and registry, that messages are received *)
(* once and in order, and that the Null of chan_recv is final.              *)
(***************************************************************************)
EXTENDS Channels, FiniteSetTheorems, SequenceTheorems, TLAPS

\* A call in progress, with its channels as a sequence.
Calls ==
    [at : {"idle", "create", "send", "lock_recv", "lock_try", "recv", "poll", "check", "sleep"},
     on : Seq(Ids), pos : 1..2, msg : 0..MaxCalls]

\* A call is about one channel or two that have been created, and stands at
\* one of them; chan_send has a message.
Sensible(call, next) ==
    /\ Len(call.on) <= 2
    /\ call.at # "idle" => call.pos <= Len(call.on)
    /\ call.at = "send" => call.msg > 0
    /\ \A i \in DOMAIN call.on : call.on[i] < next

TypeInv ==
    /\ CHANNEL_COUNTER \in 0..MaxIds
    /\ CHANNEL_REGISTRY \subseteq {Tx(c) : c \in Ids} \cup {Rx(c) : c \in Ids}
    /\ IsFiniteSet(CHANNEL_REGISTRY) /\ Cardinality(CHANNEL_REGISTRY) <= MAX_CHANNELS
    /\ cap \in [Ids -> Nat]
    /\ queue \in [Ids -> Seq(Messages)]
    /\ \A c \in Ids : cap[c] # Unbounded => Len(queue[c]) <= cap[c]
    /\ \A c \in Ids : c >= CHANNEL_COUNTER => queue[c] = << >>
    /\ th \in [Threads -> Calls]
    /\ \A t \in Threads : Sensible(th[t], CHANNEL_COUNTER)
    /\ known \subseteq Ids /\ \A c \in known : c < CHANNEL_COUNTER
    /\ calls \in 0..MaxCalls
    /\ got \in [Threads -> Seq([ch : Ids, m : Messages])]

LEMMA Constants ==
    /\ MAX_CHANNELS \in Nat /\ MaxIds \in Nat /\ MaxCalls \in Nat
    /\ Caps \subseteq Nat /\ Ids \subseteq Nat
BY ChannelsAssumption DEF Ids

LEMMA ShortSequences ==
    ASSUME NEW s \in Seq(Ids), Len(s) <= 2
    PROVE  s \in UNION {[1..n -> Ids] : n \in 0..2}
<1>1. Len(s) \in Nat /\ s \in [1..Len(s) -> Ids]
    BY LenProperties
<1>2. Len(s) \in 0..2
    BY <1>1
<1> QED
    BY <1>1, <1>2

LEMMA TypeInvImplies == TypeInv /\ ended \subseteq Ids => TypeOK
<1> SUFFICES ASSUME TypeInv, ended \subseteq Ids PROVE TypeOK
    OBVIOUS
<1>1. ASSUME NEW t \in Threads PROVE th[t] \in CallType
    <2>1. th[t] \in Calls /\ Len(th[t].on) <= 2
        BY DEF TypeInv, Sensible
    <2>2. th[t].on \in UNION {[1..n -> Ids] : n \in 0..2}
        BY <2>1, ShortSequences DEF Calls
    <2> QED
        BY <2>1, <2>2 DEF Calls, CallType
<1>2. th \in [Threads -> CallType]
    BY <1>1 DEF TypeInv
<1> QED
    BY <1>2 DEF TypeInv, TypeOK

-----------------------------------------------------------------------------
(* Sequences and calls.                                                    *)

LEMMA TailFacts ==
    ASSUME NEW S, NEW q \in Seq(S), q # << >>
    PROVE  /\ Tail(q) \in Seq(S) /\ Len(q) > 0 /\ Len(Tail(q)) = Len(q) - 1
           /\ Head(q) = q[1] /\ q[1] \in S
           /\ \A i \in 1..Len(Tail(q)) : i + 1 \in 1..Len(q) /\ Tail(q)[i] = q[i + 1]
OBVIOUS

LEMMA AppendFacts ==
    ASSUME NEW S, NEW q \in Seq(S), NEW m \in S
    PROVE  /\ Append(q, m) \in Seq(S) /\ Len(Append(q, m)) = Len(q) + 1
           /\ Append(q, m)[Len(q) + 1] = m
           /\ \A i \in 1..Len(q) : Append(q, m)[i] = q[i]
OBVIOUS

LEMMA CallFacts ==
    ASSUME NEW at, NEW on, NEW msg
    PROVE  /\ Call(at, on, msg).at = at /\ Call(at, on, msg).on = on
           /\ Call(at, on, msg).pos = 1 /\ Call(at, on, msg).msg = msg
BY DEF Call

LEMMA IdleType == TypeInv => Idle \in Calls /\ Sensible(Idle, CHANNEL_COUNTER) /\ Idle.at = "idle"
BY Constants DEF Idle, Call, Calls, Sensible

\* The call of thread t and the other calls, when only t's call changes.
LEMMA BecomeType ==
    ASSUME TypeInv, NEW t \in Threads, NEW call \in Calls, Become(t, call)
    PROVE  /\ th' \in [Threads -> Calls] /\ th'[t] = call
           /\ \A u \in Threads : u # t => th'[u] = th[u]
BY DEF TypeInv, Become

\* The first channel of a call in progress, and the one it stands at.
LEMMA OnTypes ==
    ASSUME TypeInv, NEW t \in Threads, th[t].at # "idle"
    PROVE  /\ th[t].on[1] \in Ids /\ th[t].on[1] < CHANNEL_COUNTER
           /\ Here(t) \in Ids /\ Here(t) < CHANNEL_COUNTER
           /\ 1 \in DOMAIN th[t].on /\ th[t].pos \in DOMAIN th[t].on
<1>1. /\ th[t].on \in Seq(Ids) /\ th[t].pos \in 1..2 /\ th[t].pos <= Len(th[t].on)
      /\ \A i \in DOMAIN th[t].on : th[t].on[i] < CHANNEL_COUNTER
    BY DEF TypeInv, Calls, Sensible
<1> QED
    BY <1>1 DEF Here

-----------------------------------------------------------------------------
(* The order of messages, for queues q and received messages g in which    *)
(* the numbers up to n have been given out.                                *)

Queues == [Ids -> Seq(Messages)]
Receipts == [Threads -> Seq([ch : Ids, m : Messages])]

\* Numbers are used once, in a queue, ...
QueuesDiffer(q) ==
    \A c, d \in Ids : \A i \in 1..Len(q[c]), j \in 1..Len(q[d]) : q[c][i].n = q[d][j].n => c = d /\ i = j
\* ... among what was received, ...
ReceiptsDiffer(g) ==
    \A t, u \in Threads : \A i \in 1..Len(g[t]), j \in 1..Len(g[u]) :
        g[t][i].m.n = g[u][j].m.n => t = u /\ i = j
\* ... and between the two.  What was received from a sender on a channel is
\* older than what it still has there.
ReceivedFirst(q, g) ==
    \A c \in Ids, t \in Threads : \A i \in 1..Len(q[c]), j \in 1..Len(g[t]) :
        /\ q[c][i].n # g[t][j].m.n
        /\ g[t][j].ch = c /\ g[t][j].m.from = q[c][i].from => g[t][j].m.n < q[c][i].n
\* The messages of a sender are in order, in a queue and among what was received.
QueuesSorted(q) ==
    \A c \in Ids : \A i, j \in 1..Len(q[c]) : i < j /\ q[c][i].from = q[c][j].from => q[c][i].n < q[c][j].n
ReceiptsSorted(g) ==
    \A t \in Threads : \A i, j \in 1..Len(g[t]) :
        i < j /\ g[t][i].ch = g[t][j].ch /\ g[t][i].m.from = g[t][j].m.from => g[t][i].m.n < g[t][j].m.n
Given(q, g, n) ==
    /\ \A c \in Ids : \A i \in 1..Len(q[c]) : q[c][i].n <= n
    /\ \A t \in Threads : \A j \in 1..Len(g[t]) : g[t][j].m.n <= n

Order(q, g, n) ==
    /\ QueuesDiffer(q) /\ ReceiptsDiffer(g) /\ ReceivedFirst(q, g)
    /\ QueuesSorted(q) /\ ReceiptsSorted(g) /\ Given(q, g, n)

\* A number that nobody has used and that is above all t has used.
New(q, g, t, k) ==
    /\ \A c \in Ids : \A i \in 1..Len(q[c]) : q[c][i].n # k /\ (q[c][i].from = t => q[c][i].n < k)
    /\ \A u \in Threads : \A j \in 1..Len(g[u]) : g[u][j].m.n # k /\ (g[u][j].m.from = t => g[u][j].m.n < k)

\* Queue c without its head, the head with thread t, and a message more in queue c.
Popped(q, c) == [q EXCEPT ![c] = Tail(@)]
Taken(q, g, t, c) == [g EXCEPT ![t] = Append(@, [ch |-> c, m |-> Head(q[c])])]
Pushed(q, c, m) == [q EXCEPT ![c] = Append(@, m)]

\* p is q with some queues emptied and the head of some queues taken off.
Shrunk(p, q) ==
    \A c \in Ids : \/ p[c] = q[c] \/ p[c] = << >>
                   \/ q[c] # << >> /\ p[c] = Tail(q[c])

\* Where the messages of p stood in q.
LEMMA ShrunkIndex ==
    ASSUME NEW p \in Queues, NEW q \in Queues, Shrunk(p, q), NEW c \in Ids
    PROVE  \E k \in 0..1 : \A i \in 1..Len(p[c]) : i + k \in 1..Len(q[c]) /\ p[c][i] = q[c][i + k]
<1>0. p[c] \in Seq(Messages) /\ q[c] \in Seq(Messages)
    BY DEF Queues
<1>1. CASE p[c] = q[c]
    <2>1. \A i \in 1..Len(p[c]) : i + 0 \in 1..Len(q[c]) /\ p[c][i] = q[c][i + 0]
        BY <1>0, <1>1
    <2> QED
        BY <2>1
<1>2. CASE p[c] = << >>
    BY <1>2
<1>3. CASE q[c] # << >> /\ p[c] = Tail(q[c])
    <2>1. \A i \in 1..Len(p[c]) : i + 1 \in 1..Len(q[c]) /\ p[c][i] = q[c][i + 1]
        BY <1>0, <1>3, TailFacts
    <2> QED
        BY <2>1
<1> QED
    BY <1>1, <1>2, <1>3 DEF Shrunk

LEMMA NewShrinks ==
    ASSUME NEW p \in Queues, NEW q \in Queues, NEW g \in Receipts, Shrunk(p, q),
           NEW t \in Threads, NEW k \in Nat, New(q, g, t, k)
    PROVE  New(p, g, t, k)
<1> SUFFICES ASSUME NEW c \in Ids, NEW i \in 1..Len(p[c])
             PROVE  p[c][i].n # k /\ (p[c][i].from = t => p[c][i].n < k)
    BY DEF New
<1>1. PICK x \in 0..1 : \A l \in 1..Len(p[c]) : l + x \in 1..Len(q[c]) /\ p[c][l] = q[c][l + x]
    BY ShrunkIndex
<1> QED
    BY <1>1 DEF New

LEMMA OrderShrinks ==
    ASSUME NEW p \in Queues, NEW q \in Queues, NEW g \in Receipts, NEW n \in Nat, Shrunk(p, q),
           Order(q, g, n)
    PROVE  Order(p, g, n)
<1>1. QueuesDiffer(p)
    <2> SUFFICES ASSUME NEW c \in Ids, NEW d \in Ids, NEW i \in 1..Len(p[c]), NEW j \in 1..Len(p[d]),
                        p[c][i].n = p[d][j].n
                 PROVE  c = d /\ i = j
        BY DEF QueuesDiffer
    <2>1. PICK x \in 0..1 : \A l \in 1..Len(p[c]) : l + x \in 1..Len(q[c]) /\ p[c][l] = q[c][l + x]
        BY ShrunkIndex
    <2>2. PICK y \in 0..1 : \A l \in 1..Len(p[d]) : l + y \in 1..Len(q[d]) /\ p[d][l] = q[d][l + y]
        BY ShrunkIndex
    <2>3. c = d /\ i + x = j + y
        <3>1. /\ i + x \in 1..Len(q[c]) /\ p[c][i] = q[c][i + x]
              /\ j + y \in 1..Len(q[d]) /\ p[d][j] = q[d][j + y]
            BY <2>1, <2>2
        <3>2. q[c][i + x].n = q[d][j + y].n
            BY <3>1
        <3> QED
            BY <3>1, <3>2 DEF Order, QueuesDiffer
    <2>4. CASE x = y
        BY <2>3, <2>4
    <2>5. CASE x # y
        <3>1. p[c] \in Seq(Messages) /\ q[c] \in Seq(Messages)
            BY DEF Queues
        <3>2. q[c][1 + x] = q[c][1 + y] /\ 1 + x \in 1..Len(q[c]) /\ 1 + y \in 1..Len(q[c])
            BY <2>1, <2>2, <2>3, <3>1
        <3> QED
            BY <2>5, <3>1, <3>2 DEF Order, QueuesDiffer
    <2> QED
        BY <2>4, <2>5
<1>2. QueuesSorted(p)
    <2> SUFFICES ASSUME NEW c \in Ids, NEW i \in 1..Len(p[c]), NEW j \in 1..Len(p[c]), i < j,
                        p[c][i].from = p[c][j].from
                 PROVE  p[c][i].n < p[c][j].n
        BY DEF QueuesSorted
    <2>1. PICK x \in 0..1 : \A l \in 1..Len(p[c]) : l + x \in 1..Len(q[c]) /\ p[c][l] = q[c][l + x]
        BY ShrunkIndex
    <2>2. i + x < j + x
        OBVIOUS
    <2> QED
        BY <2>1, <2>2 DEF Order, QueuesSorted
<1>3. ReceivedFirst(p, g)
    <2> SUFFICES ASSUME NEW c \in Ids, NEW t \in Threads, NEW i \in 1..Len(p[c]), NEW j \in 1..Len(g[t])
                 PROVE  /\ p[c][i].n # g[t][j].m.n
                        /\ g[t][j].ch = c /\ g[t][j].m.from = p[c][i].from => g[t][j].m.n < p[c][i].n
        BY DEF ReceivedFirst
    <2>1. PICK x \in 0..1 : \A l \in 1..Len(p[c]) : l + x \in 1..Len(q[c]) /\ p[c][l] = q[c][l + x]
        BY ShrunkIndex
    <2> QED
        BY <2>1, SMTT(30) DEF Order, ReceivedFirst
<1>4. Given(p, g, n)
    <2> SUFFICES ASSUME NEW c \in Ids, NEW i \in 1..Len(p[c]) PROVE p[c][i].n <= n
        BY DEF Given, Order
    <2>1. PICK x \in 0..1 : \A l \in 1..Len(p[c]) : l + x \in 1..Len(q[c]) /\ p[c][l] = q[c][l + x]
        BY ShrunkIndex
    <2> QED
        BY <2>1 DEF Order, Given
<1> QED
    BY <1>1, <1>2, <1>3, <1>4 DEF Order

\* The head of queue c goes to thread t.
LEMMA TakeFacts ==
    ASSUME NEW q \in Queues, NEW g \in Receipts, NEW t \in Threads, NEW c \in Ids, q[c] # << >>,
           NEW h, h = Taken(q, g, t, c)
    PROVE  /\ h \in Receipts /\ 1 \in 1..Len(q[c])
           /\ \A u \in Threads : u # t => h[u] = g[u]
           /\ Len(h[t]) = Len(g[t]) + 1 /\ Len(g[t]) \in Nat
           /\ h[t][Len(g[t]) + 1].ch = c /\ h[t][Len(g[t]) + 1].m = q[c][1]
           /\ \A i \in 1..Len(g[t]) : h[t][i] = g[t][i]
<1>1. q[c] \in Seq(Messages) /\ g[t] \in Seq([ch : Ids, m : Messages]) /\ Len(g[t]) \in Nat
    BY LenProperties DEF Queues, Receipts
<1>2. Head(q[c]) = q[c][1] /\ q[c][1] \in Messages /\ Len(q[c]) > 0 /\ Len(q[c]) \in Nat
    BY <1>1, TailFacts
<1> DEFINE r == [ch |-> c, m |-> q[c][1]]
<1>3. r \in [ch : Ids, m : Messages] /\ r.ch = c /\ r.m = q[c][1]
    BY <1>2
<1>4. h[t] = Append(g[t], r) /\ \A u \in Threads : u # t => h[u] = g[u]
    BY <1>2 DEF Receipts, Taken
<1> HIDE DEF r
<1>5. /\ Append(g[t], r) \in Seq([ch : Ids, m : Messages]) /\ Len(Append(g[t], r)) = Len(g[t]) + 1
      /\ Append(g[t], r)[Len(g[t]) + 1] = r /\ \A i \in 1..Len(g[t]) : Append(g[t], r)[i] = g[t][i]
    BY <1>1, <1>3, AppendFacts
<1>6. h \in Receipts
    BY <1>4, <1>5 DEF Receipts, Taken
<1> QED
    BY <1>1, <1>2, <1>3, <1>4, <1>5, <1>6

LEMMA TakenIndex ==
    ASSUME NEW q \in Queues, NEW c \in Ids, q[c] # << >>, NEW p \in Queues,
           p = Popped(q, c)
    PROVE  /\ Shrunk(p, q)
           /\ \A i \in 1..Len(p[c]) : i + 1 \in 1..Len(q[c]) /\ p[c][i] = q[c][i + 1]
           /\ \A d \in Ids : d # c => p[d] = q[d]
<1>1. p[c] = Tail(q[c]) /\ \A d \in Ids : d # c => p[d] = q[d]
    BY DEF Queues, Popped
<1>2. q[c] \in Seq(Messages)
    BY DEF Queues
<1>3. Shrunk(p, q)
    BY <1>1 DEF Shrunk
<1>4. \A i \in 1..Len(Tail(q[c])) : i + 1 \in 1..Len(q[c]) /\ Tail(q[c])[i] = q[c][i + 1]
    BY <1>2, TailFacts
<1> QED
    BY <1>1, <1>3, <1>4

LEMMA OrderTakes ==
    ASSUME NEW q \in Queues, NEW g \in Receipts, NEW n \in Nat, Order(q, g, n),
           NEW t \in Threads, NEW c \in Ids, q[c] # << >>,
           NEW p \in Queues, p = Popped(q, c),
           NEW h \in Receipts, h = Taken(q, g, t, c)
    PROVE  Order(p, h, n)
<1> DEFINE last == Len(g[t]) + 1
<1>1. /\ 1 \in 1..Len(q[c]) /\ Len(q[c]) \in Nat
      /\ \A u \in Threads : u # t => h[u] = g[u]
      /\ Len(h[t]) = last /\ Len(g[t]) \in Nat
      /\ h[t][last].ch = c /\ h[t][last].m = q[c][1]
      /\ \A i \in 1..Len(g[t]) : h[t][i] = g[t][i]
    <2>1. Len(q[c]) \in Nat
        BY LenProperties DEF Queues
    <2>2. 1 \in 1..Len(q[c])
        BY TakeFacts
    <2>3. \A u \in Threads : u # t => h[u] = g[u]
        BY TakeFacts
    <2>4. /\ Len(h[t]) = Len(g[t]) + 1 /\ Len(g[t]) \in Nat
          /\ h[t][Len(g[t]) + 1].ch = c /\ h[t][Len(g[t]) + 1].m = q[c][1]
        BY TakeFacts
    <2>5. \A i \in 1..Len(g[t]) : h[t][i] = g[t][i]
        BY TakeFacts
    <2> QED
        BY <2>1, <2>2, <2>3, <2>4, <2>5
<1>2. /\ Shrunk(p, q)
      /\ \A i \in 1..Len(p[c]) : i + 1 \in 1..Len(q[c]) /\ p[c][i] = q[c][i + 1]
      /\ \A d \in Ids : d # c => p[d] = q[d]
    BY TakenIndex
<1>3. Order(p, g, n)
    BY <1>2, OrderShrinks
<1>4. ASSUME NEW u \in Threads, NEW j \in 1..Len(h[u])
      PROVE  (u = t /\ j = last) \/ (j \in 1..Len(g[u]) /\ h[u][j] = g[u][j])
    BY <1>1, <1>4
<1>5. ASSUME NEW u \in Threads, NEW j \in 1..Len(g[u])
      PROVE  /\ g[u][j].m.n # q[c][1].n
             /\ g[u][j].ch = c /\ g[u][j].m.from = q[c][1].from => g[u][j].m.n < q[c][1].n
    BY <1>1, <1>5 DEF Order, ReceivedFirst
<1>6. ASSUME NEW d \in Ids, NEW i \in 1..Len(p[d])
      PROVE  /\ p[d][i].n # q[c][1].n
             /\ d = c /\ p[d][i].from = q[c][1].from => q[c][1].n < p[d][i].n
    <2>1. CASE d = c
        <3>1. i + 1 \in 1..Len(q[c]) /\ p[c][i] = q[c][i + 1] /\ 1 < i + 1
            BY <1>2, <1>6, <2>1
        <3>2. q[c][i + 1].n # q[c][1].n
            <4>1. q[c][i + 1].n = q[c][1].n => i + 1 = 1
                BY <1>1, <3>1 DEF Order, QueuesDiffer
            <4> QED
                BY <3>1, <4>1
        <3>3. q[c][i + 1].from = q[c][1].from => q[c][1].n < q[c][i + 1].n
            BY <1>1, <3>1 DEF Order, QueuesSorted
        <3> QED
            BY <2>1, <3>1, <3>2, <3>3
    <2>2. CASE d # c
        BY <1>1, <1>2, <1>6, <2>2 DEF Order, QueuesDiffer
    <2> QED
        BY <2>1, <2>2
<1> HIDE DEF last
<1>7. ReceiptsDiffer(h)
    <2> SUFFICES ASSUME NEW u \in Threads, NEW v \in Threads, NEW i \in 1..Len(h[u]), NEW j \in 1..Len(h[v]),
                        h[u][i].m.n = h[v][j].m.n
                 PROVE  u = v /\ i = j
        BY DEF ReceiptsDiffer
    <2>1. CASE u = t /\ i = last
        <3>1. h[v][j].m.n = q[c][1].n
            BY <1>1, <2>1 DEF last
        <3>2. ~(j \in 1..Len(g[v]) /\ h[v][j] = g[v][j])
            BY <1>5, <3>1
        <3> QED
            BY <1>4, <2>1, <3>2
    <2>2. CASE v = t /\ j = last
        <3>1. h[u][i].m.n = q[c][1].n
            BY <1>1, <2>2 DEF last
        <3>2. ~(i \in 1..Len(g[u]) /\ h[u][i] = g[u][i])
            BY <1>5, <3>1
        <3> QED
            BY <1>4, <2>2, <3>2
    <2>3. CASE i \in 1..Len(g[u]) /\ h[u][i] = g[u][i] /\ j \in 1..Len(g[v]) /\ h[v][j] = g[v][j]
        <3>1. g[u][i].m.n = g[v][j].m.n
            BY <2>3
        <3> QED
            BY <1>3, <2>3, <3>1 DEF Order, ReceiptsDiffer
    <2> QED
        BY <1>4, <2>1, <2>2, <2>3
<1>8. ReceiptsSorted(h)
    <2> SUFFICES ASSUME NEW u \in Threads, NEW i \in 1..Len(h[u]), NEW j \in 1..Len(h[u]), i < j,
                        h[u][i].ch = h[u][j].ch, h[u][i].m.from = h[u][j].m.from
                 PROVE  h[u][i].m.n < h[u][j].m.n
        BY DEF ReceiptsSorted
    <2>1. i \in 1..Len(g[u]) /\ h[u][i] = g[u][i]
        BY <1>1, <1>4 DEF last
    <2>2. CASE u = t /\ j = last
        BY <1>1, <1>5, <2>1, <2>2
    <2>3. CASE j \in 1..Len(g[u]) /\ h[u][j] = g[u][j]
        BY <1>3, <2>1, <2>3 DEF Order, ReceiptsSorted
    <2> QED
        BY <1>4, <2>2, <2>3
<1>9. ReceivedFirst(p, h)
    <2> SUFFICES ASSUME NEW d \in Ids, NEW u \in Threads, NEW i \in 1..Len(p[d]), NEW j \in 1..Len(h[u])
                 PROVE  /\ p[d][i].n # h[u][j].m.n
                        /\ h[u][j].ch = d /\ h[u][j].m.from = p[d][i].from => h[u][j].m.n < p[d][i].n
        BY DEF ReceivedFirst
    <2>1. CASE u = t /\ j = last
        <3>1. h[u][j].ch = c /\ h[u][j].m = q[c][1]
            BY <1>1, <2>1
        <3> QED
            BY <1>6, <3>1
    <2>2. CASE j \in 1..Len(g[u]) /\ h[u][j] = g[u][j]
        <3>1. /\ p[d][i].n # g[u][j].m.n
              /\ g[u][j].ch = d /\ g[u][j].m.from = p[d][i].from => g[u][j].m.n < p[d][i].n
            BY <1>3, <2>2 DEF Order, ReceivedFirst
        <3> QED
            BY <2>2, <3>1
    <2> QED
        BY <1>4, <2>1, <2>2
<1>10. Given(p, h, n)
    BY <1>1, <1>3, <1>4 DEF Order, Given
<1> QED
    BY <1>3, <1>7, <1>8, <1>9, <1>10 DEF Order

LEMMA NewTakes ==
    ASSUME NEW q \in Queues, NEW g \in Receipts, NEW s \in Threads, NEW k \in Nat, New(q, g, s, k),
           NEW t \in Threads, NEW c \in Ids, q[c] # << >>,
           NEW p \in Queues, p = Popped(q, c),
           NEW h \in Receipts, h = Taken(q, g, t, c)
    PROVE  New(p, h, s, k)
<1>1. /\ 1 \in 1..Len(q[c])
      /\ \A u \in Threads : u # t => h[u] = g[u]
      /\ Len(h[t]) = Len(g[t]) + 1 /\ Len(g[t]) \in Nat
      /\ h[t][Len(g[t]) + 1].m = q[c][1]
      /\ \A i \in 1..Len(g[t]) : h[t][i] = g[t][i]
    BY TakeFacts
<1>2. New(p, g, s, k)
    BY TakenIndex, NewShrinks
<1>3. ASSUME NEW u \in Threads, NEW j \in 1..Len(h[u])
      PROVE  h[u][j].m = q[c][1] \/ (j \in 1..Len(g[u]) /\ h[u][j] = g[u][j])
    BY <1>1, <1>3
<1>4. q[c][1].n # k /\ (q[c][1].from = s => q[c][1].n < k)
    BY <1>1 DEF New
<1> QED
    BY <1>2, <1>3, <1>4, SMTT(30) DEF New

\* A message of t with a new number enters queue c.
LEMMA PushFacts ==
    ASSUME NEW q \in Queues, NEW c \in Ids, NEW m \in Messages,
           NEW p \in Queues, p = Pushed(q, c, m)
    PROVE  \A d \in Ids : \A i \in 1..Len(p[d]) :
              \/ d = c /\ i = Len(q[c]) + 1 /\ p[d][i] = m
              \/ i \in 1..Len(q[d]) /\ p[d][i] = q[d][i]
<1>1. p[c] = Append(q[c], m) /\ \A d \in Ids : d # c => p[d] = q[d]
    BY DEF Queues, Pushed
<1>2. q[c] \in Seq(Messages) /\ Len(q[c]) \in Nat
    BY LenProperties DEF Queues
<1>3. /\ Len(Append(q[c], m)) = Len(q[c]) + 1 /\ Append(q[c], m)[Len(q[c]) + 1] = m
      /\ \A i \in 1..Len(q[c]) : Append(q[c], m)[i] = q[c][i]
    BY <1>2, AppendFacts
<1> QED
    BY <1>1, <1>2, <1>3

LEMMA OrderPushes ==
    ASSUME NEW q \in Queues, NEW g \in Receipts, NEW n \in Nat, Order(q, g, n),
           NEW t \in Threads, NEW k \in 1..MaxCalls, k <= n, New(q, g, t, k),
           NEW c \in Ids, NEW p \in Queues, p = Pushed(q, c, Msg(t, k))
    PROVE  Order(p, g, n)
<1>0. Msg(t, k) \in Messages /\ Msg(t, k).n = k /\ Msg(t, k).from = t
    BY DEF Msg, Messages
<1>1. ASSUME NEW d \in Ids, NEW i \in 1..Len(p[d])
      PROVE  \/ d = c /\ i = Len(q[c]) + 1 /\ p[d][i] = Msg(t, k)
             \/ i \in 1..Len(q[d]) /\ p[d][i] = q[d][i]
    BY <1>0, PushFacts
<1>2. Len(q[c]) \in Nat
    BY LenProperties DEF Queues
<1>3. QueuesDiffer(p)
    <2> SUFFICES ASSUME NEW d \in Ids, NEW e \in Ids, NEW i \in 1..Len(p[d]), NEW j \in 1..Len(p[e]),
                        p[d][i].n = p[e][j].n
                 PROVE  d = e /\ i = j
        BY DEF QueuesDiffer
    <2>1. \A b \in Ids : \A x \in 1..Len(q[b]) : q[b][x].n # k
        BY DEF New
    <2>2. CASE d = c /\ i = Len(q[c]) + 1 /\ p[d][i] = Msg(t, k)
        <3>1. p[e][j].n = k
            BY <1>0, <2>2
        <3>2. ~(j \in 1..Len(q[e]) /\ p[e][j] = q[e][j])
            BY <2>1, <3>1
        <3> QED
            BY <1>1, <2>2, <3>2
    <2>3. CASE e = c /\ j = Len(q[c]) + 1 /\ p[e][j] = Msg(t, k)
        <3>1. p[d][i].n = k
            BY <1>0, <2>3
        <3>2. ~(i \in 1..Len(q[d]) /\ p[d][i] = q[d][i])
            BY <2>1, <3>1
        <3> QED
            BY <1>1, <2>3, <3>2
    <2>4. CASE i \in 1..Len(q[d]) /\ p[d][i] = q[d][i] /\ j \in 1..Len(q[e]) /\ p[e][j] = q[e][j]
        <3>1. q[d][i].n = q[e][j].n
            BY <2>4
        <3> QED
            BY <2>4, <3>1 DEF Order, QueuesDiffer
    <2> QED
        BY <1>1, <2>2, <2>3, <2>4
<1>4. QueuesSorted(p)
    <2> SUFFICES ASSUME NEW d \in Ids, NEW i \in 1..Len(p[d]), NEW j \in 1..Len(p[d]), i < j,
                        p[d][i].from = p[d][j].from
                 PROVE  p[d][i].n < p[d][j].n
        BY DEF QueuesSorted
    <2>1. CASE j \in 1..Len(q[d]) /\ p[d][j] = q[d][j]
        <3>1. i \in 1..Len(q[d]) /\ p[d][i] = q[d][i]
            BY <1>1, <1>2, <2>1
        <3> QED
            BY <2>1, <3>1 DEF Order, QueuesSorted
    <2>2. CASE d = c /\ j = Len(q[c]) + 1 /\ p[d][j] = Msg(t, k)
        <3>0. i # Len(q[c]) + 1
            BY <1>2, <2>2
        <3>1. i \in 1..Len(q[d]) /\ p[d][i] = q[d][i]
            BY <1>1, <3>0
        <3> QED
            BY <1>0, <2>2, <3>1 DEF New
    <2> QED
        BY <1>1, <2>1, <2>2
<1>5. ReceivedFirst(p, g)
    <2> SUFFICES ASSUME NEW d \in Ids, NEW u \in Threads, NEW i \in 1..Len(p[d]), NEW j \in 1..Len(g[u])
                 PROVE  /\ p[d][i].n # g[u][j].m.n
                        /\ g[u][j].ch = d /\ g[u][j].m.from = p[d][i].from => g[u][j].m.n < p[d][i].n
        BY DEF ReceivedFirst
    <2>1. CASE i \in 1..Len(q[d]) /\ p[d][i] = q[d][i]
        BY <2>1 DEF Order, ReceivedFirst
    <2>2. CASE p[d][i] = Msg(t, k)
        BY <1>0, <2>2 DEF New
    <2> QED
        BY <1>1, <2>1, <2>2
<1>6. Given(p, g, n)
    BY <1>0, <1>1 DEF Order, Given
<1> QED
    BY <1>3, <1>4, <1>5, <1>6 DEF Order

LEMMA NewPushes ==
    ASSUME NEW q \in Queues, NEW g \in Receipts, NEW s \in Threads, NEW k \in Nat, New(q, g, s, k),
           NEW t \in Threads, NEW l \in 1..MaxCalls, t # s, l # k,
           NEW c \in Ids, NEW p \in Queues, p = Pushed(q, c, Msg(t, l))
    PROVE  New(p, g, s, k)
<1>0. Msg(t, l) \in Messages /\ Msg(t, l).n = l /\ Msg(t, l).from = t
    BY DEF Msg, Messages
<1>1. \A d \in Ids : \A i \in 1..Len(p[d]) :
              \/ d = c /\ i = Len(q[c]) + 1 /\ p[d][i] = Msg(t, l)
              \/ i \in 1..Len(q[d]) /\ p[d][i] = q[d][i]
    BY <1>0, PushFacts
<1> QED
    BY <1>0, <1>1 DEF New

\* The number of a call that begins is new, and raises the bound.
LEMMA OrderGrows ==
    ASSUME NEW q \in Queues, NEW g \in Receipts, NEW n \in 0..MaxCalls, Order(q, g, n)
    PROVE  Order(q, g, n + 1) /\ \A t \in Threads : New(q, g, t, n + 1)
<1>1. ASSUME NEW c \in Ids, NEW i \in 1..Len(q[c])
      PROVE  q[c][i].n <= n + 1 /\ q[c][i].n # n + 1 /\ q[c][i].n < n + 1
    <2>1. q[c] \in Seq(Messages) /\ q[c][i] \in Messages
        BY ElementOfSeq DEF Queues
    <2> QED
        BY <2>1, Constants DEF Order, Given, Messages
<1>2. ASSUME NEW u \in Threads, NEW j \in 1..Len(g[u])
      PROVE  g[u][j].m.n <= n + 1 /\ g[u][j].m.n # n + 1 /\ g[u][j].m.n < n + 1
    <2>1. g[u] \in Seq([ch : Ids, m : Messages]) /\ g[u][j] \in [ch : Ids, m : Messages]
        BY ElementOfSeq DEF Receipts
    <2> QED
        BY <2>1, Constants DEF Order, Given, Messages
<1> QED
    BY <1>1, <1>2 DEF Order, Given, New

-----------------------------------------------------------------------------
(* The steps, as what they do to calls, queues and receipts.               *)

\* Queues as TypeInv wants them.
QueueOK(q) ==
    /\ q \in Queues
    /\ \A c \in Ids : cap[c] # Unbounded => Len(q[c]) <= cap[c]
    /\ \A c \in Ids : c >= CHANNEL_COUNTER => q[c] = << >>

LEMMA QueuesBecomeType ==
    ASSUME TypeInv, NEW q, QueueOK(q), QueuesBecome(q)
    PROVE  QueueOK(queue') /\ \A c \in Ids : queue'[c] = q[c] \/ queue'[c] = << >>
<1>1. \A c \in Ids : queue'[c] = q[c] \/ queue'[c] = << >>
    BY DEF QueuesBecome
<1>2. DOMAIN queue' = Ids /\ queue' = [c \in Ids |-> queue'[c]]
    BY DEF QueuesBecome
<1>3. \A c \in Ids : queue'[c] \in Seq(Messages)
    BY <1>1, EmptySeq DEF QueueOK, Queues
<1>4. queue' \in Queues
    BY <1>2, <1>3 DEF Queues
<1>5. \A c \in Ids : cap[c] \in Nat
    BY DEF TypeInv
<1> QED
    BY <1>1, <1>4, <1>5 DEF QueueOK

LEMMA QueueNow == TypeInv => QueueOK(queue)
BY DEF TypeInv, QueueOK, Queues

LEMMA QueueTail ==
    ASSUME TypeInv, NEW c \in Ids, queue[c] # << >>
    PROVE  QueueOK(Popped(queue, c))
<1> DEFINE q == Popped(queue, c)
<1>1. q[c] = Tail(queue[c]) /\ \A d \in Ids : d # c => q[d] = queue[d]
    BY DEF TypeInv, Popped
<1>2. queue[c] \in Seq(Messages) /\ Len(queue[c]) \in Nat
    BY LenProperties DEF TypeInv
<1>3. Tail(queue[c]) \in Seq(Messages) /\ Len(Tail(queue[c])) = Len(queue[c]) - 1
    BY <1>2, TailFacts
<1>4. q \in Queues
    BY <1>1, <1>3 DEF TypeInv, Queues, Popped
<1>5. \A d \in Ids : cap[d] \in Nat
    BY DEF TypeInv
<1> HIDE DEF q
<1>6. ASSUME NEW d \in Ids, cap[d] # Unbounded PROVE Len(q[d]) <= cap[d]
    <2>1. Len(queue[d]) <= cap[d] /\ cap[d] \in Nat
        BY <1>5, <1>6 DEF TypeInv
    <2>2. CASE d = c
        <3>1. Len(q[d]) = Len(queue[d]) - 1 /\ Len(queue[d]) \in Nat
            BY <1>1, <1>2, <1>3, <2>2
        <3> QED
            BY <2>1, <3>1
    <2>3. CASE d # c
        BY <1>1, <2>1, <2>3
    <2> QED
        BY <2>2, <2>3
<1>7. ASSUME NEW d \in Ids, d >= CHANNEL_COUNTER PROVE q[d] = << >>
    BY <1>1, <1>7 DEF TypeInv
<1>8. QueueOK(q)
    BY <1>4, <1>6, <1>7 DEF QueueOK
<1> QED
    BY <1>8 DEF q

LEMMA QueuePush ==
    ASSUME TypeInv, NEW c \in Ids, NEW m \in Messages, c < CHANNEL_COUNTER,
           cap[c] = Unbounded \/ Len(queue[c]) < cap[c]
    PROVE  QueueOK(Pushed(queue, c, m))
<1> DEFINE q == Pushed(queue, c, m)
<1>1. q[c] = Append(queue[c], m) /\ \A d \in Ids : d # c => q[d] = queue[d]
    BY DEF TypeInv, Pushed
<1>2. queue[c] \in Seq(Messages) /\ Len(queue[c]) \in Nat
    BY LenProperties DEF TypeInv
<1>3. Append(queue[c], m) \in Seq(Messages) /\ Len(Append(queue[c], m)) = Len(queue[c]) + 1
    BY <1>2, AppendFacts
<1>4. q \in Queues
    BY <1>1, <1>3 DEF TypeInv, Queues, Pushed
<1>5. (\A d \in Ids : cap[d] \in Nat) /\ c \in Nat /\ CHANNEL_COUNTER \in Nat
    BY Constants DEF TypeInv
<1> HIDE DEF q
<1>6. ASSUME NEW d \in Ids, cap[d] # Unbounded PROVE Len(q[d]) <= cap[d]
    BY <1>1, <1>2, <1>3, <1>5, <1>6 DEF TypeInv
<1>7. ASSUME NEW d \in Ids, d >= CHANNEL_COUNTER PROVE q[d] = << >>
    BY <1>1, <1>5, <1>7 DEF TypeInv
<1>8. QueueOK(q)
    BY <1>4, <1>6, <1>7 DEF QueueOK
<1> QED
    BY <1>8 DEF q

\* What the steps after channel() have in common.
LEMMA TypeFrame ==
    ASSUME TypeInv, UNCHANGED <<CHANNEL_COUNTER, cap, known>>,
           CHANNEL_REGISTRY' \subseteq CHANNEL_REGISTRY, QueueOK(queue'),
           calls' \in 0..MaxCalls, got' \in Receipts,
           th' \in [Threads -> Calls], \A t \in Threads : Sensible(th'[t], CHANNEL_COUNTER)
    PROVE  TypeInv'
<1>1. IsFiniteSet(CHANNEL_REGISTRY') /\ Cardinality(CHANNEL_REGISTRY') <= MAX_CHANNELS
    <2>1. IsFiniteSet(CHANNEL_REGISTRY') /\ Cardinality(CHANNEL_REGISTRY') <= Cardinality(CHANNEL_REGISTRY)
        BY FS_Subset DEF TypeInv
    <2>2. Cardinality(CHANNEL_REGISTRY') \in Nat /\ Cardinality(CHANNEL_REGISTRY) \in Nat
        BY <2>1, FS_CardinalityType DEF TypeInv
    <2> QED
        BY <2>1, <2>2, Constants DEF TypeInv
<1> QED
    BY <1>1 DEF TypeInv, QueueOK, Queues, Receipts

LEMMA BecomeFrame ==
    ASSUME TypeInv, NEW t \in Threads, NEW call \in Calls, Sensible(call, CHANNEL_COUNTER), Become(t, call)
    PROVE  /\ th' \in [Threads -> Calls] /\ \A u \in Threads : Sensible(th'[u], CHANNEL_COUNTER)
           /\ th'[t] = call /\ \A u \in Threads : u # t => th'[u] = th[u]
<1>1. /\ th' \in [Threads -> Calls] /\ th'[t] = call
      /\ \A u \in Threads : u # t => th'[u] = th[u]
    BY BecomeType
<1> QED
    BY <1>1 DEF TypeInv

\* A receive or a select gets the head of queue c and returns.
LEMMA TakeType ==
    ASSUME TypeInv, NEW t \in Threads, NEW c \in Ids, queue[c] # << >>, Take(t, c), Return(t),
           UNCHANGED <<CHANNEL_COUNTER, CHANNEL_REGISTRY, cap, known, calls>>
    PROVE  TypeInv'
<1>1. QueueOK(queue')
    BY QueueTail, QueuesBecomeType DEF Take, Popped
<1>2. queue \in Queues /\ got \in Receipts
    BY DEF TypeInv, Queues, Receipts
<1>3. got' \in Receipts
    <2>1. got' = Taken(queue, got, t, c)
        BY DEF Take, Taken
    <2> QED
        BY <1>2, <2>1, TakeFacts
<1>4. th' \in [Threads -> Calls] /\ \A u \in Threads : Sensible(th'[u], CHANNEL_COUNTER)
    BY IdleType, BecomeFrame DEF Return
<1>5. calls' \in 0..MaxCalls
    BY DEF TypeInv
<1> QED
    BY <1>1, <1>3, <1>4, <1>5, TypeFrame

LEMMA StoreType ==
    ASSUME TypeInv, NEW c \in Ids, NEW e \in {Tx(c), Rx(c)}, NEW ok, channel_store(e, ok)
    PROVE  /\ CHANNEL_REGISTRY' \subseteq {Tx(d) : d \in Ids} \cup {Rx(d) : d \in Ids}
           /\ IsFiniteSet(CHANNEL_REGISTRY') /\ Cardinality(CHANNEL_REGISTRY') <= MAX_CHANNELS
<1>1. IsFiniteSet(CHANNEL_REGISTRY) /\ Cardinality(CHANNEL_REGISTRY) \in Nat /\ MAX_CHANNELS \in Nat
    BY FS_CardinalityType, Constants DEF TypeInv
<1>2. CASE UNCHANGED CHANNEL_REGISTRY
    BY <1>2 DEF TypeInv
<1>3. CASE Cardinality(CHANNEL_REGISTRY) < MAX_CHANNELS /\ CHANNEL_REGISTRY' = CHANNEL_REGISTRY \cup {e}
    <2>1. /\ IsFiniteSet(CHANNEL_REGISTRY \cup {e})
          /\ \/ Cardinality(CHANNEL_REGISTRY \cup {e}) = Cardinality(CHANNEL_REGISTRY)
             \/ Cardinality(CHANNEL_REGISTRY \cup {e}) = Cardinality(CHANNEL_REGISTRY) + 1
        BY <1>1, FS_AddElement
    <2> QED
        BY <1>1, <1>3, <2>1, SMTT(30) DEF TypeInv
<1> QED
    BY <1>1, <1>2, <1>3 DEF channel_store

\* Steps that neither send nor receive a message; some lose messages.
QuietStep ==
    /\ Shrunk(queue', queue) /\ got' = got /\ calls' \in {calls, calls + 1}
    /\ \A u \in Threads : At(u, "send")' => At(u, "send") /\ th'[u].msg = th[u].msg

LEMMA ChannelStep ==
    ASSUME TypeInv, NEW t \in Threads, NEW k \in Caps, Channel(t, k)
    PROVE  TypeInv' /\ QuietStep
<1> DEFINE c == CHANNEL_COUNTER
           n == CHANNEL_COUNTER + 1
           call == Call("create", <<c>>, 0)
<1>1. c \in Ids /\ c \in Nat /\ n \in 0..MaxIds /\ k \in Nat
    BY Constants DEF TypeInv, Channel, Ids
<1>2. CHANNEL_COUNTER' = n /\ cap' = [cap EXCEPT ![c] = k] /\ UNCHANGED <<queue, known, calls, got>>
    BY DEF Channel
<1>3. /\ CHANNEL_REGISTRY' \subseteq {Tx(d) : d \in Ids} \cup {Rx(d) : d \in Ids}
      /\ IsFiniteSet(CHANNEL_REGISTRY') /\ Cardinality(CHANNEL_REGISTRY') <= MAX_CHANNELS
    <2>1. CASE UNCHANGED CHANNEL_REGISTRY
        BY <2>1 DEF TypeInv
    <2>2. CASE \E ok \in BOOLEAN : channel_store(Tx(c), ok)
        BY <1>1, <2>2, StoreType
    <2> QED
        BY <2>1, <2>2 DEF Channel
<1>4. cap' \in [Ids -> Nat] /\ \A d \in Ids : cap'[d] # Unbounded => Len(queue[d]) <= cap'[d]
    <2>1. queue[c] = << >> /\ cap'[c] = k /\ \A d \in Ids : d # c => cap'[d] = cap[d]
        BY <1>1, <1>2 DEF TypeInv
    <2>2. Len(<< >>) = 0
        OBVIOUS
    <2> QED
        BY <1>1, <1>2, <2>1, <2>2 DEF TypeInv
<1>5. /\ call \in Calls /\ Sensible(call, n) /\ call.at = "create"
    <2>1. /\ <<c>> \in Seq(Ids) /\ Len(<<c>>) = 1
          /\ \A i \in DOMAIN <<c>> : <<c>>[i] = c
        BY <1>1
    <2>2. call.at = "create" /\ call.on = <<c>> /\ call.pos = 1 /\ call.msg = 0
        BY CallFacts
    <2>3. call \in Calls
        BY <2>1, Constants DEF Call, Calls
    <2> HIDE DEF call
    <2> QED
        BY <1>1, <2>1, <2>2, <2>3 DEF Sensible
<1> HIDE DEF call
<1>6. \A u \in Threads : Sensible(th[u], n)
    <2> SUFFICES ASSUME NEW u \in Threads PROVE Sensible(th[u], n)
        OBVIOUS
    <2>1. th[u].on \in Seq(Ids) /\ Sensible(th[u], c)
        BY DEF TypeInv, Calls
    <2>2. ASSUME NEW i \in DOMAIN th[u].on PROVE th[u].on[i] < n
        <3>1. th[u].on[i] \in Nat
            <4>1. i \in 1..Len(th[u].on)
                BY <2>1, <2>2
            <4> QED
                BY <2>1, <4>1, ElementOfSeq, Constants
        <3>2. th[u].on[i] < c
            BY <2>1 DEF Sensible
        <3> QED
            BY <1>1, <3>1, <3>2
    <2> QED
        BY <2>1, <2>2 DEF Sensible
<1>7. UNCHANGED th \/ Become(t, call)
    BY DEF Channel, call
<1>8. /\ th' \in [Threads -> Calls] /\ \A u \in Threads : Sensible(th'[u], n)
      /\ \A u \in Threads : th'[u].at = "send" => th'[u] = th[u]
    <2>1. CASE UNCHANGED th
        BY <1>6, <2>1 DEF TypeInv
    <2>2. CASE Become(t, call)
        <3>1. /\ th' \in [Threads -> Calls] /\ th'[t] = call
              /\ \A u \in Threads : u # t => th'[u] = th[u]
            BY <1>5, <2>2, BecomeType
        <3> QED
            BY <1>5, <1>6, <3>1
    <2> QED
        BY <1>7, <2>1, <2>2
<1>9. (\A d \in Ids : d >= n => queue[d] = << >>) /\ \A d \in known : d < n
    BY <1>1, Constants DEF TypeInv
<1> HIDE DEF c, n
<1>10. TypeInv'
    BY <1>1, <1>2, <1>3, <1>4, <1>8, <1>9 DEF TypeInv
<1> QED
    BY <1>2, <1>8, <1>10 DEF QuietStep, Shrunk, At

LEMMA StoreRxStep ==
    ASSUME TypeInv, NEW t \in Threads, ChannelStoreRx(t)
    PROVE  TypeInv' /\ QuietStep
<1>1. PICK c \in Ids : c = th[t].on[1] /\ c < CHANNEL_COUNTER
    BY OnTypes DEF ChannelStoreRx, At
<1>2. /\ CHANNEL_REGISTRY' \subseteq {Tx(d) : d \in Ids} \cup {Rx(d) : d \in Ids}
      /\ IsFiniteSet(CHANNEL_REGISTRY') /\ Cardinality(CHANNEL_REGISTRY') <= MAX_CHANNELS
    BY <1>1, StoreType DEF ChannelStoreRx
<1>3. known' \subseteq Ids /\ \A d \in known' : d < CHANNEL_COUNTER
    BY <1>1 DEF ChannelStoreRx, TypeInv
<1>4. /\ th' \in [Threads -> Calls] /\ \A u \in Threads : Sensible(th'[u], CHANNEL_COUNTER)
      /\ th'[t] = Idle /\ \A u \in Threads : u # t => th'[u] = th[u]
    BY IdleType, BecomeFrame DEF ChannelStoreRx, Return
<1>5. UNCHANGED <<CHANNEL_COUNTER, cap, queue, calls, got>>
    BY DEF ChannelStoreRx
<1>6. TypeInv'
    BY <1>2, <1>3, <1>4, <1>5 DEF TypeInv
<1> QED
    BY <1>4, <1>5, <1>6, IdleType DEF QuietStep, Shrunk, At

\* Steps in which thread t's call becomes one that is no chan_send, and the
\* queues keep what is left of them.
LEMMA QuietMove ==
    ASSUME TypeInv, NEW t \in Threads, NEW call \in Calls, Sensible(call, CHANNEL_COUNTER),
           call.at # "send", Become(t, call),
           UNCHANGED <<CHANNEL_COUNTER, CHANNEL_REGISTRY, cap, known, got>>,
           calls' \in {calls, calls + 1}, calls' \in 0..MaxCalls,
           QueueOK(queue'), Shrunk(queue', queue)
    PROVE  TypeInv' /\ QuietStep
<1>1. /\ th' \in [Threads -> Calls] /\ \A u \in Threads : Sensible(th'[u], CHANNEL_COUNTER)
      /\ th'[t] = call /\ \A u \in Threads : u # t => th'[u] = th[u]
    BY BecomeFrame
<1>2. got' \in Receipts
    BY DEF TypeInv, Receipts
<1>3. TypeInv'
    BY <1>1, <1>2, TypeFrame
<1> QED
    BY <1>1, <1>3 DEF QuietStep, At

LEMMA QueueSame ==
    ASSUME TypeInv
    PROVE  /\ QueueOK(queue) /\ Shrunk(queue, queue) /\ calls \in 0..MaxCalls
           /\ (QueuesBecome(queue) => QueueOK(queue') /\ Shrunk(queue', queue))
<1>1. QueueOK(queue)
    BY QueueNow
<1>2. Shrunk(queue, queue)
    BY DEF Shrunk
<1>3. QueuesBecome(queue) => QueueOK(queue') /\ \A c \in Ids : queue'[c] = queue[c] \/ queue'[c] = << >>
    BY <1>1, QueuesBecomeType
<1> QED
    BY <1>1, <1>2, <1>3 DEF Shrunk, TypeInv

\* The call a builtin begins with.
LEMMA CallType1 ==
    ASSUME TypeInv, NEW at \in {"send", "lock_recv", "lock_try", "poll"}, NEW on \in Seq(Ids),
           1 <= Len(on), Len(on) <= 2, \A i \in DOMAIN on : on[i] < CHANNEL_COUNTER,
           NEW msg \in 0..MaxCalls, at = "send" => msg > 0
    PROVE  Call(at, on, msg) \in Calls /\ Sensible(Call(at, on, msg), CHANNEL_COUNTER)
<1> DEFINE call == Call(at, on, msg)
<1>1. call.at = at /\ call.on = on /\ call.pos = 1 /\ call.msg = msg
    BY CallFacts
<1>2. call \in Calls
    BY DEF Call, Calls
<1> HIDE DEF call
<1>3. Sensible(call, CHANNEL_COUNTER)
    <2>1. Len(call.on) <= 2 /\ call.pos <= Len(call.on) /\ \A i \in DOMAIN call.on : call.on[i] < CHANNEL_COUNTER
        BY <1>1
    <2>2. call.at = "send" => call.msg > 0
        BY <1>1
    <2> QED
        BY <2>1, <2>2 DEF Sensible
<1> QED
    BY <1>2, <1>3 DEF call

\* A call that goes on, at another place.
Moved(call, at, pos) == [call EXCEPT !.pos = pos, !.at = at]

LEMMA MovedType ==
    ASSUME TypeInv, NEW t \in Threads, th[t].at # "idle",
           NEW at \in {"recv", "poll", "check", "sleep"}, NEW pos \in DOMAIN th[t].on
    PROVE  /\ Moved(th[t], at, pos) \in Calls /\ Sensible(Moved(th[t], at, pos), CHANNEL_COUNTER)
           /\ Moved(th[t], at, pos).at = at
<1> DEFINE call == Moved(th[t], at, pos)
<1>1. th[t] \in Calls /\ Sensible(th[t], CHANNEL_COUNTER)
    BY DEF TypeInv
<1>2. call.at = at /\ call.on = th[t].on /\ call.pos = pos /\ call.msg = th[t].msg
    BY <1>1 DEF Moved, Calls
<1>3. th[t].on \in Seq(Ids) /\ Len(th[t].on) \in Nat /\ Len(th[t].on) <= 2
    BY <1>1, LenProperties DEF Calls, Sensible
<1>4. pos \in 1..2 /\ pos <= Len(th[t].on)
    BY <1>3
<1>5. call \in Calls
    BY <1>1, <1>4 DEF Moved, Calls
<1> HIDE DEF call
<1>6. Sensible(call, CHANNEL_COUNTER)
    BY <1>1, <1>2, <1>4 DEF Sensible
<1> QED
    BY <1>2, <1>5, <1>6 DEF call

LEMMA CallingFacts ==
    ASSUME TypeInv, NEW t \in Threads, NEW op, NEW c \in Ids, Calling(t, op, c)
    PROVE  /\ th[t].at = "idle" /\ c < CHANNEL_COUNTER /\ calls' = calls + 1
           /\ calls' \in 1..MaxCalls /\ calls \in 0..MaxCalls
<1>1. th[t].at = "idle"
    BY IdleType DEF Calling, IsIdle
<1> QED
    BY <1>1, Constants DEF Calling, TypeInv

LEMMA StartReceiveStep ==
    ASSUME TypeInv, NEW t \in Threads, NEW c \in Ids, NEW op, NEW at \in {"lock_recv", "lock_try"},
           StartReceive(t, c, op, at)
    PROVE  TypeInv' /\ QuietStep
<1>1. c < CHANNEL_COUNTER /\ calls' = calls + 1 /\ calls' \in 0..MaxCalls
    BY CallingFacts DEF StartReceive
<1>2. <<c>> \in Seq(Ids) /\ 1 <= Len(<<c>>) /\ Len(<<c>>) <= 2 /\ \A i \in DOMAIN <<c>> : <<c>>[i] < CHANNEL_COUNTER
    BY <1>1
<1>3. Call(at, <<c>>, 0) \in Calls /\ Sensible(Call(at, <<c>>, 0), CHANNEL_COUNTER)
    <2>1. 0 \in 0..MaxCalls /\ at \in {"send", "lock_recv", "lock_try", "poll"} /\ at # "send"
        BY Constants
    <2>2. PICK on \in Seq(Ids) : on = <<c>>
        BY <1>2
    <2> QED
        BY <1>2, <2>1, <2>2, CallType1
<1>4. Call(at, <<c>>, 0).at # "send"
    BY CallFacts
<1>5. QueueOK(queue') /\ Shrunk(queue', queue)
    BY QueueSame DEF StartReceive
<1> QED
    BY <1>1, <1>3, <1>4, <1>5, QuietMove DEF StartReceive

LEMMA SelectStep ==
    ASSUME TypeInv, NEW t \in Threads, NEW on \in Seq(Ids), 1 <= Len(on), Len(on) <= 2, Select(t, on)
    PROVE  TypeInv' /\ QuietStep
<1>1. \A i \in DOMAIN on : on[i] \in Range(on)
    BY DEF Range
<1>2. \A i \in DOMAIN on : on[i] \in Ids /\ Calling(t, "select", on[i])
    BY <1>1 DEF Select
<1>3. \A i \in DOMAIN on : on[i] < CHANNEL_COUNTER
    BY <1>2, CallingFacts
<1>4. calls' = calls + 1 /\ calls' \in 0..MaxCalls
    <2>1. 1 \in DOMAIN on
        OBVIOUS
    <2>2. calls' = calls + 1 /\ calls' \in 1..MaxCalls
        BY <1>2, <2>1, CallingFacts
    <2> QED
        BY <2>2
<1>5. Call("poll", on, 0) \in Calls /\ Sensible(Call("poll", on, 0), CHANNEL_COUNTER)
    BY <1>3, CallType1, Constants
<1>6. Call("poll", on, 0).at # "send"
    BY CallFacts
<1>7. QueueOK(queue') /\ Shrunk(queue', queue)
    BY QueueSame DEF Select
<1> QED
    BY <1>4, <1>5, <1>6, <1>7, QuietMove DEF Select

LEMMA LockForRecvStep ==
    ASSUME TypeInv, NEW t \in Threads, LockForRecv(t)
    PROVE  TypeInv' /\ QuietStep
<1>1. th[t].at # "idle" /\ th[t].pos \in DOMAIN th[t].on
    BY OnTypes DEF LockForRecv, At
<1>2. Become(t, Moved(th[t], "recv", th[t].pos))
    BY DEF TypeInv, Calls, LockForRecv, Become, Moved
<1>3. QueueOK(queue') /\ Shrunk(queue', queue) /\ calls' \in 0..MaxCalls
    BY QueueSame DEF LockForRecv
<1> QED
    BY <1>1, <1>2, <1>3, MovedType, QuietMove DEF LockForRecv

\* A call that returns without a message.
LEMMA ReturnStep ==
    ASSUME TypeInv, NEW t \in Threads, Return(t),
           UNCHANGED <<CHANNEL_COUNTER, CHANNEL_REGISTRY, cap, known, calls, got>>,
           UNCHANGED queue \/ QueuesBecome(queue)
    PROVE  TypeInv' /\ QuietStep
<1>1. QueueOK(queue') /\ Shrunk(queue', queue) /\ calls' \in 0..MaxCalls
    BY QueueSame
<1> QED
    BY <1>1, IdleType, QuietMove DEF Return

LEMMA ChanCloseStep ==
    ASSUME TypeInv, NEW t \in Threads, NEW e, ChanClose(t, e)
    PROVE  TypeInv' /\ QuietStep
<1>1. QueueOK(queue') /\ Shrunk(queue', queue) /\ calls' \in 0..MaxCalls
    BY QueueSame DEF ChanClose
<1>2. /\ UNCHANGED <<CHANNEL_COUNTER, cap, known, calls, got, th>>
      /\ CHANNEL_REGISTRY' \subseteq CHANNEL_REGISTRY
    BY DEF ChanClose
<1>3. TypeInv'
    BY <1>1, <1>2, TypeFrame DEF TypeInv, Receipts
<1> QED
    BY <1>1, <1>2, <1>3 DEF QuietStep, At

\* select goes to its next channel, or from the last one to place at.
LEMMA WalkFacts ==
    ASSUME TypeInv, NEW t \in Threads, th[t].at # "idle", th[t].at = "poll" \/ th[t].at = "check",
           Walk(t, "check")
    PROVE  \E at \in {"poll", "check"}, pos \in DOMAIN th[t].on : Become(t, Moved(th[t], at, pos))
<1>1. th[t] \in Calls /\ th[t].on \in Seq(Ids) /\ th[t].pos \in DOMAIN th[t].on /\ 1 \in DOMAIN th[t].on
    BY OnTypes DEF TypeInv, Calls
<1>2. CASE th[t].pos < Len(th[t].on)
    <2>1. [th[t] EXCEPT !.pos = @ + 1] = Moved(th[t], th[t].at, th[t].pos + 1)
        BY <1>1 DEF Moved, Calls
    <2>2. th[t].pos + 1 \in DOMAIN th[t].on
        BY <1>1, <1>2
    <2> QED
        BY <1>2, <2>1, <2>2 DEF Walk
<1>3. CASE ~(th[t].pos < Len(th[t].on))
    BY <1>1, <1>3 DEF Walk, Moved
<1> QED
    BY <1>2, <1>3

LEMMA WalkStep ==
    ASSUME TypeInv, NEW t \in Threads, th[t].at = "poll" \/ th[t].at = "check", Walk(t, "check"),
           UNCHANGED <<CHANNEL_COUNTER, CHANNEL_REGISTRY, cap, queue, known, calls, got>>
    PROVE  TypeInv' /\ QuietStep
<1>1. PICK at \in {"poll", "check"}, pos \in DOMAIN th[t].on : Become(t, Moved(th[t], at, pos))
    BY WalkFacts
<1>2. QueueOK(queue') /\ Shrunk(queue', queue) /\ calls' \in 0..MaxCalls
    BY QueueSame
<1> QED
    BY <1>1, <1>2, MovedType, QuietMove

LEMMA SelectCheckStep ==
    ASSUME TypeInv, NEW t \in Threads, SelectCheck(t)
    PROVE  TypeInv' /\ QuietStep
<1>1. th[t].at = "check" /\ UNCHANGED <<CHANNEL_COUNTER, CHANNEL_REGISTRY, cap, known, calls, got>>
    BY DEF SelectCheck, At
<1>2. PICK c \in Ids : c = Here(t)
    BY <1>1, OnTypes
<1>3. CASE Return(t) /\ QueuesBecome(queue)
    BY <1>1, <1>3, ReturnStep
<1>4. CASE Walk(t, "check") /\ UNCHANGED queue
    BY <1>1, <1>4, WalkStep
<1>5. CASE /\ Become(t, [th[t] EXCEPT !.pos = 1, !.at = "sleep"])
           /\ QueuesBecome([queue EXCEPT ![c] = IF @ = << >> THEN @ ELSE Tail(@)])
    <2>1. Become(t, Moved(th[t], "sleep", 1)) /\ 1 \in DOMAIN th[t].on
        BY <1>1, <1>5, OnTypes DEF Moved
    <2>2. QueueOK(queue') /\ Shrunk(queue', queue)
        <3>1. CASE queue[c] = << >>
            <4>1. [queue EXCEPT ![c] = IF @ = << >> THEN @ ELSE Tail(@)] = queue
                BY <3>1 DEF TypeInv
            <4> QED
                BY <1>5, <4>1, QueueSame
        <3>2. CASE queue[c] # << >>
            <4>1. [queue EXCEPT ![c] = IF @ = << >> THEN @ ELSE Tail(@)] = Popped(queue, c)
                BY <3>2 DEF TypeInv, Popped
            <4>2. QueueOK(Popped(queue, c)) /\ queue \in Queues
                BY <3>2, QueueTail DEF TypeInv, Queues
            <4>3. Shrunk(Popped(queue, c), queue)
                BY <3>2, <4>2, TakenIndex DEF QueueOK
            <4>4. QueueOK(queue') /\ \A d \in Ids : queue'[d] = Popped(queue, c)[d] \/ queue'[d] = << >>
                BY <1>5, <4>1, <4>2, QueuesBecomeType
            <4> QED
                BY <4>3, <4>4 DEF Shrunk
        <3> QED
            BY <3>1, <3>2
    <2>3. calls' \in 0..MaxCalls
        BY <1>1, QueueSame
    <2> QED
        BY <1>1, <2>1, <2>2, <2>3, MovedType, QuietMove
<1> QED
    BY <1>2, <1>3, <1>4, <1>5 DEF SelectCheck

LEMMA SelectAgainStep ==
    ASSUME TypeInv, NEW t \in Threads, SelectAgain(t)
    PROVE  TypeInv' /\ QuietStep
<1>1. th[t].at # "idle" /\ th[t].pos \in DOMAIN th[t].on
    BY OnTypes DEF SelectAgain, At
<1>2. Become(t, Moved(th[t], "poll", th[t].pos))
    BY DEF TypeInv, Calls, SelectAgain, Become, Moved
<1>3. QueueOK(queue') /\ Shrunk(queue', queue) /\ calls' \in 0..MaxCalls
    BY QueueSame DEF SelectAgain
<1> QED
    BY <1>1, <1>2, <1>3, MovedType, QuietMove DEF SelectAgain

-----------------------------------------------------------------------------
(* The order of messages in the states of the program.  The number of a    *)
(* bounded send that still waits is given out but not used, and stays      *)
(* above everything its thread has sent.                                   *)

Pending(q, g, n, calling) ==
    /\ \A t \in Threads : calling[t].at = "send" => calling[t].msg <= n /\ New(q, g, t, calling[t].msg)
    /\ \A t, u \in Threads :
          t # u /\ calling[t].at = "send" /\ calling[u].at = "send" => calling[t].msg # calling[u].msg

OrderInv == Order(queue, got, calls) /\ Pending(queue, got, calls, th)

LEMMA StateTypes ==
    TypeInv => /\ queue \in Queues /\ got \in Receipts /\ calls \in 0..MaxCalls /\ calls \in Nat
               /\ MaxCalls \in Nat /\ \A t \in Threads : th[t].msg \in 0..MaxCalls /\ th[t].msg \in Nat
<1> SUFFICES ASSUME TypeInv
             PROVE  /\ queue \in Queues /\ got \in Receipts /\ calls \in 0..MaxCalls /\ calls \in Nat
                    /\ MaxCalls \in Nat /\ \A t \in Threads : th[t].msg \in 0..MaxCalls /\ th[t].msg \in Nat
    OBVIOUS
<1>1. queue \in Queues /\ got \in Receipts /\ calls \in 0..MaxCalls /\ calls \in Nat /\ MaxCalls \in Nat
    <2>1. queue \in Queues /\ got \in Receipts /\ calls \in 0..MaxCalls
        BY DEF TypeInv, Queues, Receipts
    <2> QED
        BY <2>1, Constants
<1>2. ASSUME NEW t \in Threads PROVE th[t].msg \in 0..MaxCalls
    <2>1. th[t] \in Calls
        BY DEF TypeInv
    <2> QED
        BY <2>1 DEF Calls
<1> QED
    BY <1>1, <1>2

LEMMA QuietOrder ==
    ASSUME TypeInv, TypeInv', OrderInv, QuietStep
    PROVE  OrderInv'
<1>1. /\ queue \in Queues /\ got \in Receipts /\ calls \in 0..MaxCalls /\ calls \in Nat
      /\ \A u \in Threads : th[u].msg \in Nat
    BY StateTypes
<1>2. queue' \in Queues /\ calls' \in Nat /\ calls' \in 0..MaxCalls
    BY StateTypes, Constants DEF TypeInv, Queues
<1>3. Shrunk(queue', queue) /\ got' = got /\ calls' \in {calls, calls + 1}
    BY DEF QuietStep
<1>4. Order(queue, got, calls')
    BY <1>1, <1>3, OrderGrows DEF OrderInv
<1>5. Order(queue', got, calls')
    BY <1>1, <1>2, <1>3, <1>4, OrderShrinks
<1>6. ASSUME NEW u \in Threads, th'[u].at = "send"
      PROVE  /\ th[u].at = "send" /\ th'[u].msg = th[u].msg
             /\ th'[u].msg <= calls' /\ New(queue', got, u, th'[u].msg)
    <2>1. th[u].at = "send" /\ th'[u].msg = th[u].msg
        BY <1>6 DEF QuietStep, At
    <2>2. th[u].msg <= calls /\ New(queue, got, u, th[u].msg)
        BY <2>1 DEF OrderInv, Pending
    <2>3. New(queue', got, u, th[u].msg)
        BY <1>1, <1>2, <1>3, <2>2, NewShrinks
    <2>4. th[u].msg <= calls'
        BY <1>1, <1>3, <2>2
    <2> QED
        BY <2>1, <2>3, <2>4
<1>7. Pending(queue', got, calls', th')
    BY <1>6 DEF OrderInv, Pending
<1> QED
    BY <1>3, <1>5, <1>7 DEF OrderInv

LEMMA TakeOrder ==
    ASSUME TypeInv, TypeInv', OrderInv, NEW t \in Threads, NEW c \in Ids, queue[c] # << >>,
           Take(t, c), Return(t), calls' = calls
    PROVE  OrderInv'
<1> DEFINE p == Popped(queue, c)
<1>1. /\ queue \in Queues /\ got \in Receipts /\ calls \in Nat
      /\ \A u \in Threads : th[u].msg \in Nat
    BY StateTypes
<1>2. queue' \in Queues /\ got' \in Receipts
    BY DEF TypeInv, Queues, Receipts
<1>3. QueueOK(p) /\ p \in Queues
    BY QueueTail DEF QueueOK
<1>4. got' = Taken(queue, got, t, c)
    BY DEF Take, Taken
<1>5. Shrunk(queue', p)
    <2>1. QueuesBecome(p)
        BY DEF Take, Popped
    <2> QED
        BY <1>3, <2>1, QueuesBecomeType DEF Shrunk
<1>6. Order(p, got', calls)
    BY <1>1, <1>2, <1>3, <1>4, OrderTakes DEF OrderInv
<1>7. Order(queue', got', calls)
    BY <1>1, <1>2, <1>3, <1>5, <1>6, OrderShrinks
<1>8. /\ th'[t] = Idle /\ Idle.at = "idle" /\ \A u \in Threads : u # t => th'[u] = th[u]
    BY IdleType, BecomeType DEF Return
<1>9. ASSUME NEW u \in Threads, th'[u].at = "send"
      PROVE  u # t /\ th'[u] = th[u] /\ th[u].msg <= calls /\ New(queue', got', u, th[u].msg)
    <2>1. u # t /\ th'[u] = th[u]
        BY <1>8, <1>9
    <2>2. th[u].msg <= calls /\ New(queue, got, u, th[u].msg) /\ th[u].msg \in Nat
        BY <1>1, <1>9, <2>1 DEF OrderInv, Pending
    <2>3. New(p, got', u, th[u].msg)
        BY <1>1, <1>2, <1>3, <1>4, <2>2, NewTakes
    <2> QED
        BY <1>2, <1>3, <1>5, <2>1, <2>2, <2>3, NewShrinks
<1>10. Pending(queue', got', calls, th')
    BY <1>9 DEF OrderInv, Pending
<1> QED
    BY <1>7, <1>10 DEF OrderInv

\* A message with number k of thread t enters queue c; no other call waits
\* with that number, and t's call is not, or no longer, a waiting send.
LEMMA PushOrder ==
    ASSUME TypeInv, TypeInv', NEW n \in Nat, Order(queue, got, n), Pending(queue, got, n, th),
           NEW t \in Threads, NEW k \in 1..MaxCalls, k <= n, New(queue, got, t, k),
           NEW c \in Ids, NEW p \in Queues, p = Pushed(queue, c, Msg(t, k)), Shrunk(queue', p),
           got' = got, calls' = n,
           th'[t].at = "idle", \A u \in Threads : u # t => th'[u] = th[u],
           \A u \in Threads : u # t /\ th[u].at = "send" => th[u].msg # k
    PROVE  OrderInv'
<1>1. /\ queue \in Queues /\ got \in Receipts
      /\ \A u \in Threads : th[u].msg \in Nat
    BY StateTypes
<1>2. queue' \in Queues
    BY DEF TypeInv, Queues
<1>3. Order(p, got, n)
    BY <1>1, OrderPushes
<1>4. Order(queue', got, n)
    BY <1>1, <1>2, <1>3, OrderShrinks
<1>5. ASSUME NEW u \in Threads, th'[u].at = "send"
      PROVE  u # t /\ th'[u] = th[u] /\ th[u].msg <= n /\ New(queue', got, u, th[u].msg)
    <2>1. u # t /\ th'[u] = th[u]
        BY <1>5
    <2>2. th[u].msg <= n /\ New(queue, got, u, th[u].msg) /\ th[u].msg \in Nat /\ th[u].msg # k
        BY <1>1, <1>5, <2>1 DEF Pending
    <2>3. New(p, got, u, th[u].msg)
        BY <1>1, <2>1, <2>2, NewPushes
    <2> QED
        BY <1>1, <1>2, <2>1, <2>2, <2>3, NewShrinks
<1>6. Pending(queue', got, n, th')
    BY <1>5 DEF Pending
<1> QED
    BY <1>4, <1>6 DEF OrderInv

\* A call that sends has the next number.
LEMMA NextNumber ==
    ASSUME TypeInv, OrderInv
    PROVE  /\ Order(queue, got, calls + 1) /\ Pending(queue, got, calls + 1, th)
           /\ \A u \in Threads : New(queue, got, u, calls + 1)
           /\ \A u \in Threads : th[u].at = "send" => th[u].msg # calls + 1
<1>1. /\ queue \in Queues /\ got \in Receipts /\ calls \in 0..MaxCalls /\ calls \in Nat
      /\ \A u \in Threads : th[u].msg \in Nat
    BY StateTypes
<1>2. Order(queue, got, calls + 1) /\ \A u \in Threads : New(queue, got, u, calls + 1)
    BY <1>1, OrderGrows DEF OrderInv
<1>3. ASSUME NEW u \in Threads, th[u].at = "send"
      PROVE  th[u].msg <= calls + 1 /\ th[u].msg # calls + 1 /\ New(queue, got, u, th[u].msg)
    <2>1. th[u].msg <= calls /\ New(queue, got, u, th[u].msg)
        BY <1>3 DEF OrderInv, Pending
    <2> QED
        BY <1>1, <2>1
<1> QED
    BY <1>2, <1>3 DEF OrderInv, Pending

LEMMA ChanSendStep ==
    ASSUME TypeInv, OrderInv, NEW t \in Threads, NEW c \in Ids, ChanSend(t, c)
    PROVE  TypeInv' /\ OrderInv'
<1>1. /\ th[t].at = "idle" /\ c < CHANNEL_COUNTER /\ calls' = calls + 1
      /\ calls' \in 1..MaxCalls /\ calls \in 0..MaxCalls
    BY CallingFacts DEF ChanSend
<1>2. UNCHANGED <<CHANNEL_COUNTER, CHANNEL_REGISTRY, cap, known, got>>
    BY DEF ChanSend
<1>3. PICK k \in 1..MaxCalls : k = calls' /\ k = calls + 1
    BY <1>1
<1>4. k \in Nat /\ k \in 0..MaxCalls /\ k > 0
    BY <1>3, Constants
<1>5. got' \in Receipts
    BY <1>2, StateTypes
<1>6. /\ Order(queue, got, k) /\ Pending(queue, got, k, th)
      /\ \A u \in Threads : New(queue, got, u, k)
      /\ \A u \in Threads : th[u].at = "send" => th[u].msg # k
    BY <1>3, NextNumber
<1>7. CASE cap[c] = Unbounded /\ queue' = [queue EXCEPT ![c] = Append(@, Msg(t, calls'))] /\ UNCHANGED th
    <2> DEFINE p == Pushed(queue, c, Msg(t, k))
    <2>1. Msg(t, k) \in Messages
        BY DEF Msg, Messages
    <2>2. QueueOK(p) /\ p \in Queues
        BY <1>1, <1>7, <2>1, QueuePush DEF QueueOK
    <2>3. queue' = p
        BY <1>3, <1>7 DEF Pushed
    <2>4. TypeInv'
        <3>1. th' \in [Threads -> Calls] /\ \A u \in Threads : Sensible(th'[u], CHANNEL_COUNTER)
            BY <1>7 DEF TypeInv
        <3>2. QueueOK(queue')
            BY <2>2, <2>3
        <3>3. calls' \in 0..MaxCalls
            BY <1>3, <1>4
        <3> HIDE DEF p
        <3> QED
            BY <1>2, <1>5, <3>1, <3>2, <3>3, TypeFrame
    <2>5. Shrunk(queue', p)
        BY <2>3 DEF Shrunk
    <2>6. k <= k
        BY <1>4
    <2>7. th'[t].at = "idle" /\ \A u \in Threads : u # t => th'[u] = th[u]
        BY <1>1, <1>7
    <2> QED
        BY <1>2, <1>3, <1>4, <1>6, <2>2, <2>4, <2>5, <2>6, <2>7, PushOrder
<1>8. CASE UNCHANGED <<queue, th>>
    <2>1. TypeInv'
        BY <1>2, <1>3, <1>4, <1>5, <1>8, QueueNow, TypeFrame DEF TypeInv
    <2> QED
        BY <1>2, <1>3, <1>6, <1>8, <2>1 DEF OrderInv
<1>9. CASE Become(t, Call("send", <<c>>, calls')) /\ UNCHANGED queue
    <2>0. <<c>> \in Seq(Ids)
        OBVIOUS
    <2>1. PICK on \in Seq(Ids) : on = <<c>>
        BY <2>0
    <2>2. 1 <= Len(on) /\ Len(on) <= 2 /\ \A i \in DOMAIN on : on[i] < CHANNEL_COUNTER
        BY <1>1, <2>1
    <2>3. Call("send", on, k) \in Calls /\ Sensible(Call("send", on, k), CHANNEL_COUNTER)
        BY <1>4, <2>2, CallType1
    <2>4. Become(t, Call("send", on, k))
        BY <1>3, <1>9, <2>1
    <2>5. /\ th' \in [Threads -> Calls] /\ \A u \in Threads : Sensible(th'[u], CHANNEL_COUNTER)
          /\ th'[t] = Call("send", on, k) /\ \A u \in Threads : u # t => th'[u] = th[u]
        BY <2>3, <2>4, BecomeFrame
    <2>6. TypeInv'
        BY <1>2, <1>3, <1>4, <1>5, <1>9, <2>5, QueueNow, TypeFrame
    <2>7. th'[t].msg = k
        BY <2>5, CallFacts
    <2>8. k <= k
        BY <1>4
    <2>9. Pending(queue, got, k, th')
        BY <1>6, <2>5, <2>7, <2>8 DEF Pending
    <2> QED
        BY <1>2, <1>3, <1>6, <1>9, <2>6, <2>9 DEF OrderInv
<1> QED
    BY <1>7, <1>8, <1>9 DEF ChanSend

LEMMA SyncSendStep ==
    ASSUME TypeInv, OrderInv, NEW t \in Threads, SyncSend(t)
    PROVE  TypeInv' /\ OrderInv'
<1>1. th[t].at = "send" /\ Return(t) /\ UNCHANGED <<CHANNEL_COUNTER, CHANNEL_REGISTRY, cap, known, calls, got>>
    BY DEF SyncSend, At
<1>2. PICK c \in Ids : c = th[t].on[1] /\ c < CHANNEL_COUNTER
    BY <1>1, OnTypes
<1>3. PICK k \in 1..MaxCalls : k = th[t].msg
    <2>1. th[t].msg \in 0..MaxCalls /\ th[t].msg \in Nat /\ MaxCalls \in Nat /\ th[t].msg > 0
        BY <1>1, StateTypes DEF TypeInv, Sensible
    <2> QED
        BY <2>1
<1>4. CASE UNCHANGED queue
    <2>1. TypeInv' /\ QuietStep
        BY <1>1, <1>4, ReturnStep
    <2> QED
        BY <2>1, QuietOrder
<1>5. CASE Len(queue[c]) < cap[c] /\ QueuesBecome([queue EXCEPT ![c] = Append(@, Msg(t, th[t].msg))])
    <2> DEFINE p == Pushed(queue, c, Msg(t, k))
    <2>1. Msg(t, k) \in Messages
        BY DEF Msg, Messages
    <2>2. QueueOK(p) /\ p \in Queues
        BY <1>2, <1>5, <2>1, QueuePush DEF QueueOK
    <2>3. QueuesBecome(p)
        BY <1>3, <1>5 DEF Pushed
    <2>4. QueueOK(queue') /\ Shrunk(queue', p)
        BY <2>2, <2>3, QueuesBecomeType DEF Shrunk
    <2>5. /\ th' \in [Threads -> Calls] /\ \A u \in Threads : Sensible(th'[u], CHANNEL_COUNTER)
          /\ th'[t] = Idle /\ \A u \in Threads : u # t => th'[u] = th[u]
        BY <1>1, IdleType, BecomeFrame DEF Return
    <2>6. calls' \in 0..MaxCalls /\ calls' \in Nat /\ got' \in Receipts /\ calls \in Nat
        BY <1>1, StateTypes
    <2> HIDE DEF p
    <2>7. TypeInv'
        BY <1>1, <2>4, <2>5, <2>6, TypeFrame
    <2>8. k <= calls /\ New(queue, got, t, k) /\ \A u \in Threads : u # t /\ th[u].at = "send" => th[u].msg # k
        BY <1>1, <1>3 DEF OrderInv, Pending
    <2>9. th'[t].at = "idle"
        BY <2>5, IdleType
    <2> QED
        BY <1>1, <2>2, <2>4, <2>5, <2>6, <2>7, <2>8, <2>9, PushOrder DEF OrderInv, p
<1> QED
    BY <1>2, <1>4, <1>5 DEF SyncSend

\* A receive or a select that gets a message.
LEMMA TakeStep ==
    ASSUME TypeInv, OrderInv, NEW t \in Threads, NEW c \in Ids, queue[c] # << >>, Take(t, c), Return(t),
           UNCHANGED <<CHANNEL_COUNTER, CHANNEL_REGISTRY, cap, known, calls>>
    PROVE  TypeInv' /\ OrderInv'
<1>1. TypeInv'
    BY TakeType
<1> QED
    BY <1>1, TakeOrder

LEMMA ReceiveStep ==
    ASSUME TypeInv, OrderInv, NEW t \in Threads, Recv(t) \/ TryRecv(t)
    PROVE  TypeInv' /\ OrderInv'
<1>1. th[t].at # "idle" /\ Return(t) /\ UNCHANGED <<CHANNEL_COUNTER, CHANNEL_REGISTRY, cap, known, calls>>
    BY DEF Recv, TryRecv, At
<1>2. PICK c \in Ids : c = th[t].on[1]
    BY <1>1, OnTypes
<1>3. CASE queue[c] # << >> /\ Take(t, c)
    BY <1>1, <1>3, TakeStep
<1>4. CASE QueuesBecome(queue) /\ UNCHANGED got
    BY <1>1, <1>4, ReturnStep, QuietOrder
<1> QED
    BY <1>2, <1>3, <1>4 DEF Recv, TryRecv

LEMMA SelectPollStep ==
    ASSUME TypeInv, OrderInv, NEW t \in Threads, SelectPoll(t)
    PROVE  TypeInv' /\ OrderInv'
<1>1. th[t].at = "poll" /\ UNCHANGED <<CHANNEL_COUNTER, CHANNEL_REGISTRY, cap, known, calls>>
    BY DEF SelectPoll, At
<1>2. PICK c \in Ids : c = Here(t)
    BY <1>1, OnTypes
<1>3. CASE queue[c] # << >> /\ Return(t) /\ Take(t, c)
    BY <1>1, <1>3, TakeStep
<1>4. CASE Walk(t, "check") /\ UNCHANGED <<queue, got>>
    BY <1>1, <1>4, WalkStep, QuietOrder
<1> QED
    BY <1>2, <1>3, <1>4 DEF SelectPoll

LEMMA StartStep ==
    ASSUME TypeInv, OrderInv, NEW t \in Threads, Start(t)
    PROVE  TypeInv' /\ OrderInv'
<1>1. ASSUME NEW k \in Caps, Channel(t, k) PROVE TypeInv' /\ OrderInv'
    BY <1>1, ChannelStep, QuietOrder
<1>2. ASSUME NEW c \in Ids, ChanSend(t, c) PROVE TypeInv' /\ OrderInv'
    BY <1>2, ChanSendStep
<1>3. ASSUME NEW c \in Ids, ChanRecv(t, c) \/ ChanTryRecv(t, c) PROVE TypeInv' /\ OrderInv'
    BY <1>3, StartReceiveStep, QuietOrder DEF ChanRecv, ChanTryRecv
<1>4. ASSUME NEW c \in Ids, NEW d \in Ids, Select(t, <<c>>) \/ Select(t, <<c, d>>)
      PROVE  TypeInv' /\ OrderInv'
    <2>1. \A on \in Seq(Ids) : 1 <= Len(on) /\ Len(on) <= 2 /\ Select(t, on) => TypeInv' /\ OrderInv'
        BY SelectStep, QuietOrder
    <2>2. <<c>> \in Seq(Ids) /\ 1 <= Len(<<c>>) /\ Len(<<c>>) <= 2
        OBVIOUS
    <2>3. <<c, d>> \in Seq(Ids) /\ 1 <= Len(<<c, d>>) /\ Len(<<c, d>>) <= 2
        OBVIOUS
    <2> QED
        BY <1>4, <2>1, <2>2, <2>3
<1>5. ASSUME NEW e, ChanClose(t, e) PROVE TypeInv' /\ OrderInv'
    BY <1>5, ChanCloseStep, QuietOrder
<1> QED
    BY <1>1, <1>2, <1>3, <1>4, <1>5 DEF Start

LEMMA ContinueStep ==
    ASSUME TypeInv, OrderInv, NEW t \in Threads, Continue(t)
    PROVE  TypeInv' /\ OrderInv'
<1>1. CASE ChannelStoreRx(t)
    BY <1>1, StoreRxStep, QuietOrder
<1>2. CASE SyncSend(t)
    BY <1>2, SyncSendStep
<1>3. CASE LockForRecv(t)
    BY <1>3, LockForRecvStep, QuietOrder
<1>4. CASE Recv(t) \/ TryRecv(t)
    BY <1>4, ReceiveStep
<1>5. CASE SelectPoll(t)
    BY <1>5, SelectPollStep
<1>6. CASE SelectCheck(t)
    BY <1>6, SelectCheckStep, QuietOrder
<1>7. CASE SelectTimeout(t)
    BY <1>7, ReturnStep, QuietOrder DEF SelectTimeout
<1>8. CASE SelectAgain(t)
    BY <1>8, SelectAgainStep, QuietOrder
<1> QED
    BY <1>1, <1>2, <1>3, <1>4, <1>5, <1>6, <1>7, <1>8 DEF Continue

LEMMA Initially == Init => TypeInv /\ OrderInv
<1> SUFFICES ASSUME Init PROVE TypeInv /\ OrderInv
    OBVIOUS
<1>1. Idle \in Calls /\ Sensible(Idle, 0) /\ Idle.at = "idle"
    BY Constants DEF Idle, Call, Calls, Sensible
<1>2. IsFiniteSet({}) /\ Cardinality({}) = 0
    BY FS_EmptySet
<1>3. << >> \in Seq(Messages) /\ << >> \in Seq([ch : Ids, m : Messages]) /\ Len(<< >>) = 0
    OBVIOUS
<1>4. \A t \in Threads : th[t] = Idle /\ got[t] = << >>
    BY DEF Init
<1>5. \A c \in Ids : cap[c] = 0 /\ queue[c] = << >>
    BY DEF Init
<1>6. /\ cap \in [Ids -> Nat] /\ queue \in [Ids -> Seq(Messages)] /\ th \in [Threads -> Calls]
      /\ got \in [Threads -> Seq([ch : Ids, m : Messages])]
    BY <1>1, <1>3 DEF Init
<1>7. TypeInv
    BY <1>1, <1>2, <1>3, <1>4, <1>5, <1>6, Constants DEF Init, TypeInv
<1>8. (\A t \in Threads : 1..Len(got[t]) = {}) /\ \A c \in Ids : 1..Len(queue[c]) = {}
    BY <1>3, <1>4, <1>5
<1>9. Order(queue, got, calls)
    BY <1>8 DEF Order, QueuesDiffer, ReceiptsDiffer, ReceivedFirst, QueuesSorted, ReceiptsSorted, Given
<1>10. Pending(queue, got, calls, th)
    BY <1>1, <1>4 DEF Pending
<1> QED
    BY <1>7, <1>9, <1>10 DEF OrderInv

\* A step of Spec is a step of the program that also keeps the history.
LEMMA StepsOfSpec == [Next /\ Remember]_<<vars, ended>> => [Next]_vars
OBVIOUS

LEMMA Always == Spec => [](TypeInv /\ OrderInv)
<1>1. TypeInv /\ OrderInv /\ [Next]_vars => (TypeInv /\ OrderInv)'
    <2> SUFFICES ASSUME TypeInv, OrderInv, [Next]_vars PROVE TypeInv' /\ OrderInv'
        OBVIOUS
    <2>1. CASE Next
        BY <2>1, StartStep, ContinueStep DEF Next
    <2>2. CASE UNCHANGED vars
        <3>1. TypeInv'
            BY <2>2 DEF vars, TypeInv
        <3>2. QuietStep
            BY <2>2 DEF vars, QuietStep, Shrunk, At
        <3> QED
            BY <3>1, <3>2, QuietOrder
    <2> QED
        BY <2>1, <2>2
<1> QED
    BY <1>1, Initially, StepsOfSpec, PTL DEF Spec, Patient

-----------------------------------------------------------------------------
LEMMA OrderSuffices == TypeInv /\ OrderInv => InOrderOnce
<1> SUFFICES ASSUME TypeInv, OrderInv, NEW t \in Threads, NEW u \in Threads,
                    NEW i \in DOMAIN got[t], NEW j \in DOMAIN got[u]
             PROVE  /\ got[t][i] = got[u][j] => t = u /\ i = j
                    /\ (t = u /\ i < j /\ got[t][i].ch = got[t][j].ch /\ got[t][i].m.from = got[t][j].m.from)
                          => got[t][i].m.n < got[t][j].m.n
    BY DEF InOrderOnce
<1>1. i \in 1..Len(got[t]) /\ j \in 1..Len(got[u])
    <2>1. got[t] \in Seq([ch : Ids, m : Messages]) /\ got[u] \in Seq([ch : Ids, m : Messages])
        BY DEF TypeInv
    <2> QED
        BY <2>1, LenProperties
<1>2. got[t][i] = got[u][j] => t = u /\ i = j
    <2> SUFFICES ASSUME got[t][i] = got[u][j] PROVE t = u /\ i = j
        OBVIOUS
    <2>1. got[t][i].m.n = got[u][j].m.n
        OBVIOUS
    <2> QED
        BY <1>1, <2>1 DEF OrderInv, Order, ReceiptsDiffer
<1>3. (t = u /\ i < j /\ got[t][i].ch = got[t][j].ch /\ got[t][i].m.from = got[t][j].m.from)
          => got[t][i].m.n < got[t][j].m.n
    BY <1>1 DEF OrderInv, Order, ReceiptsSorted
<1> QED
    BY <1>2, <1>3

\* No message is received twice, and a sender's messages on a channel arrive
\* in the order of its chan_send calls, whichever of chan_recv, chan_try_recv
\* and select receive them and however the bounded sends overlap.
THEOREM ReceivedOnce == Spec => []InOrderOnce
BY Always, OrderSuffices, PTL

-----------------------------------------------------------------------------
(* The Null of chan_recv.                                                  *)

LEMMA OthersStay ==
    ASSUME TypeInv, NEW u \in Threads, Start(u) \/ Continue(u), NEW t \in Threads, t # u
    PROVE  th'[t] = th[t]
<1>1. ASSUME NEW call, Become(u, call) PROVE th'[t] = th[t]
    BY <1>1 DEF TypeInv, Become
<1>2. CASE Start(u)
    BY <1>1, <1>2 DEF Start, Channel, ChanSend, ChanRecv, ChanTryRecv, StartReceive, Select, ChanClose
<1>3. ASSUME LockForRecv(u) PROVE th'[t] = th[t]
    BY <1>3 DEF TypeInv, LockForRecv
<1>4. CASE Continue(u)
    BY <1>1, <1>3, <1>4 DEF Continue, ChannelStoreRx, SyncSend, Recv, TryRecv, SelectPoll, SelectCheck,
                            SelectTimeout, SelectAgain, Walk, Return
<1> QED
    BY <1>2, <1>4

LEMMA OnlyRecvEnds ==
    ASSUME TypeInv, NEW t \in Threads, At(t, "recv"), Start(t) \/ Continue(t)
    PROVE  Recv(t)
<1>1. th[t].at = "recv" /\ ~IsIdle(t)
    BY IdleType DEF At, IsIdle
<1>2. ~Start(t)
    <2>1. ASSUME NEW cs, cs[1] \in Range(cs) PROVE ~Select(t, cs)
        BY <1>1, <2>1 DEF Select, Calling
    <2>2. ASSUME NEW c \in Ids, NEW d \in Ids PROVE ~Select(t, <<c>>) /\ ~Select(t, <<c, d>>)
        <3>1. <<c>>[1] \in Range(<<c>>) /\ <<c, d>>[1] \in Range(<<c, d>>)
            BY DEF Range
        <3> QED
            BY <2>1, <3>1
    <2>3. ASSUME NEW c \in Ids PROVE ~ChanSend(t, c) /\ ~ChanRecv(t, c) /\ ~ChanTryRecv(t, c)
        BY <1>1 DEF ChanSend, ChanRecv, ChanTryRecv, StartReceive, Calling
    <2>4. ASSUME NEW x PROVE ~Channel(t, x) /\ ~ChanClose(t, x)
        BY <1>1 DEF Channel, ChanClose
    <2> QED
        BY <2>2, <2>3, <2>4 DEF Start
<1> QED
    BY <1>1, <1>2 DEF Continue, At, ChannelStoreRx, SyncSend, LockForRecv, TryRecv, SelectPoll, SelectCheck,
                      SelectTimeout, SelectAgain

LEMMA EndStep ==
    ASSUME TypeInv, [Next]_vars, NEW t \in Threads, ReturnsNull(t)
    PROVE  th[t].on[1] \in Ids /\ th[t].on[1] < CHANNEL_COUNTER /\ Disconnected(th[t].on[1])
<1>1. th[t].at = "recv" /\ th'[t] = Idle /\ Idle.at = "idle" /\ got'[t] = got[t]
    BY IdleType DEF ReturnsNull, At, IsIdle
<1>2. th'[t] # th[t]
    BY <1>1
<1>3. Recv(t)
    <2>1. Next
        BY <1>2 DEF vars
    <2>2. PICK u \in Threads : Start(u) \/ Continue(u)
        BY <2>1 DEF Next
    <2>3. u = t
        BY <1>2, <2>2, OthersStay
    <2> QED
        BY <1>1, <2>2, <2>3, OnlyRecvEnds DEF At
<1>4. th[t].on[1] \in Ids /\ th[t].on[1] < CHANNEL_COUNTER
    BY <1>1, OnTypes
<1>5. PICK c \in Ids : c = th[t].on[1]
    BY <1>4
<1>6. ~Take(t, c)
    <2> SUFFICES ASSUME Take(t, c) PROVE FALSE
        OBVIOUS
    <2>1. got'[t] = Append(got[t], [ch |-> c, m |-> Head(queue[c])])
        BY DEF Take, TypeInv
    <2>2. got[t] \in Seq([ch : Ids, m : Messages])
        BY DEF TypeInv
    <2>3. Len(Append(got[t], [ch |-> c, m |-> Head(queue[c])])) = Len(got[t]) + 1 /\ Len(got[t]) \in Nat
        BY <2>2, LenProperties
    <2> QED
        BY <1>1, <2>1, <2>3
<1>7. Disconnected(c)
    BY <1>3, <1>5, <1>6 DEF Recv
<1> QED
    BY <1>4, <1>5, <1>7

\* Once the senders of a channel are gone no step brings one back: its number
\* is not given out again, and chan_send needs a registered sender.
LEMMA SendersGone ==
    ASSUME TypeInv, NEW u \in Threads, Start(u) \/ Continue(u),
           NEW c \in Ids, c < CHANNEL_COUNTER, ~SenderAlive(c)
    PROVE  ~SenderAlive(c)'
<1>1. Tx(c) \notin CHANNEL_REGISTRY /\ \A t \in Threads : ~(At(t, "send") /\ On(t, c))
    BY DEF SenderAlive
<1>2. Tx(c) # Tx(CHANNEL_COUNTER) /\ \A d : Tx(c) # Rx(d)
    BY Constants DEF Tx, Rx, TypeInv
<1>3. Tx(c) \notin CHANNEL_REGISTRY'
    <2>1. CASE Start(u)
        BY <1>1, <1>2, <2>1 DEF Start, Channel, channel_store, ChanSend, ChanRecv, ChanTryRecv, StartReceive,
                                Select, ChanClose
    <2>2. CASE Continue(u)
        BY <1>1, <1>2, <2>2 DEF Continue, ChannelStoreRx, channel_store, SyncSend, LockForRecv, Recv, TryRecv,
                                SelectPoll, SelectCheck, SelectTimeout, SelectAgain
    <2> QED
        BY <2>1, <2>2
<1>4. ASSUME NEW t \in Threads, th'[t] = th[t] PROVE ~(At(t, "send")' /\ On(t, c)')
    BY <1>1, <1>4 DEF At, On
<1>5. ASSUME NEW call, Become(u, call), call.at # "send" PROVE ~At(u, "send")'
    BY <1>5 DEF TypeInv, Become, At
<1>6. ~(At(u, "send")' /\ On(u, c)')
    <2>1. CASE th'[u] = th[u]
        BY <1>4, <2>1
    <2>2. CASE Start(u)
        <3>1. ASSUME NEW d \in Ids, ChanSend(u, d) PROVE ~(At(u, "send")' /\ On(u, c)')
            <4>1. CASE th' = th
                BY <1>4, <4>1
            <4>2. CASE Become(u, Call("send", <<d>>, calls'))
                <5>1. th'[u].on = <<d>> /\ d # c
                    BY <1>1, <3>1, <4>2 DEF TypeInv, Become, Call, ChanSend
                <5> QED
                    BY <5>1 DEF On, Range
            <4> QED
                BY <3>1, <4>1, <4>2 DEF ChanSend
        <3>2. ASSUME NEW k, Channel(u, k) PROVE ~(At(u, "send")' /\ On(u, c)')
            BY <1>4, <1>5, <3>2 DEF Channel, Call
        <3>3. ASSUME NEW d, ChanRecv(u, d) \/ ChanTryRecv(u, d) PROVE ~At(u, "send")'
            BY <1>5, <3>3 DEF ChanRecv, ChanTryRecv, StartReceive, Call
        <3>4. ASSUME NEW ds, Select(u, ds) PROVE ~At(u, "send")'
            BY <1>5, <3>4 DEF Select, Call
        <3>5. ASSUME NEW e, ChanClose(u, e) PROVE ~(At(u, "send")' /\ On(u, c)')
            BY <1>4, <3>5 DEF ChanClose
        <3> QED
            BY <2>2, <3>1, <3>2, <3>3, <3>4, <3>5 DEF Start
    <2>3. CASE Continue(u)
        <3>1. Idle.at # "send"
            BY DEF Idle, Call
        <3>2. CASE Return(u)
            BY <1>5, <3>1, <3>2 DEF Return
        <3>3. CASE LockForRecv(u) \/ SelectAgain(u)
            BY <3>3 DEF LockForRecv, SelectAgain, Become, TypeInv, Calls, At
        <3>4. ASSUME Walk(u, "check"), ~At(u, "send") PROVE ~At(u, "send")'
            BY <3>4 DEF Walk, Become, TypeInv, Calls, At
        <3>5. CASE SelectPoll(u) \/ SelectCheck(u)
            BY <3>2, <3>4, <3>5 DEF SelectPoll, SelectCheck, Become, TypeInv, Calls, At
        <3> QED
            BY <2>3, <3>2, <3>3, <3>5 DEF Continue, ChannelStoreRx, SyncSend, Recv, TryRecv, SelectTimeout
    <2> QED
        BY <2>2, <2>3
<1>7. ASSUME NEW t \in Threads PROVE ~(At(t, "send")' /\ On(t, c)')
    <2>1. CASE t = u
        BY <1>6, <2>1
    <2>2. CASE t # u
        BY <1>4, <2>2, OthersStay
    <2> QED
        BY <2>1, <2>2
<1> QED
    BY <1>3, <1>7 DEF SenderAlive

LEMMA TakesOther ==
    ASSUME TypeInv, NEW u \in Threads, NEW c \in Ids, NEW d \in Ids,
           queue[c] = << >>, queue[d] # << >>, Take(u, d)
    PROVE  queue'[c] = << >> /\ \A t \in Threads : got'[t] # got[t] => Last(got'[t]).ch # c
<1>1. d # c
    OBVIOUS
<1>2. queue'[c] = << >>
    BY <1>1 DEF Take, QueuesBecome, TypeInv
<1>3. ASSUME NEW t \in Threads, got'[t] # got[t] PROVE Last(got'[t]).ch # c
    <2>1. t = u /\ got'[u] = Append(got[u], [ch |-> d, m |-> Head(queue[d])])
        BY <1>3 DEF Take, TypeInv
    <2>2. got[u] \in Seq([ch : Ids, m : Messages])
        BY DEF TypeInv
    <2>3. PICK r : r = [ch |-> d, m |-> Head(queue[d])]
        OBVIOUS
    <2>4. Head(queue[d]) \in Messages
        BY DEF TypeInv
    <2>5. r \in [ch : Ids, m : Messages] /\ r.ch = d
        BY <2>3, <2>4
    <2>6. Last(Append(got[u], r)) = r
        BY <2>2, <2>5 DEF Last
    <2> QED
        BY <1>1, <2>1, <2>3, <2>5, <2>6
<1> QED
    BY <1>2, <1>3


LEMMA StaysDisconnected ==
    ASSUME TypeInv, [Next]_vars, NEW c \in Ids, c < CHANNEL_COUNTER, Disconnected(c)
    PROVE  Disconnected(c)' /\ \A t \in Threads : got'[t] # got[t] => Last(got'[t]).ch # c
<1>1. ~SenderAlive(c) /\ queue[c] = << >>
    BY DEF Disconnected
<1>2. CASE UNCHANGED vars
    <2>1. Disconnected(c)' = Disconnected(c)
        BY <1>2 DEF vars, Disconnected, SenderAlive, At, On
    <2> QED
        BY <1>2, <2>1 DEF vars
<1>3. ASSUME NEW u \in Threads, Start(u) \/ Continue(u)
      PROVE  queue'[c] = << >> /\ \A t \in Threads : got'[t] # got[t] => Last(got'[t]).ch # c
    <2>1. Tx(c) \notin CHANNEL_REGISTRY /\ ~(At(u, "send") /\ On(u, c))
        BY <1>1 DEF SenderAlive
    <2>2. CASE UNCHANGED <<queue, got>>
        BY <1>1, <2>2
    <2>3. ASSUME NEW d \in Ids, NEW q, q = [queue EXCEPT ![d] = IF @ = << >> THEN @ ELSE Tail(@)],
                 QueuesBecome(q), got' = got
          PROVE  queue'[c] = << >>
        BY <1>1, <2>3 DEF QueuesBecome, TypeInv
    <2>4. ASSUME QueuesBecome(queue), got' = got PROVE queue'[c] = << >>
        BY <1>1, <2>4 DEF QueuesBecome, TypeInv
    <2>5. CASE Start(u)
        <3>1. ASSUME NEW d \in Ids, ChanSend(u, d) PROVE queue'[c] = << >> /\ got' = got
            BY <1>1, <2>1, <3>1 DEF ChanSend, TypeInv
        <3>2. ASSUME NEW e, ChanClose(u, e) PROVE queue'[c] = << >> /\ got' = got
            BY <2>4, <3>2 DEF ChanClose
        <3> QED
            BY <2>2, <2>5, <3>1, <3>2 DEF Start, Channel, ChanRecv, ChanTryRecv, StartReceive, Select
    <2>6. CASE SyncSend(u)
        <3>1. th[u].at = "send"
            BY <2>6 DEF SyncSend, At
        <3>2. PICK d \in Ids : d = th[u].on[1] /\ 1 \in DOMAIN th[u].on
            BY <3>1, OnTypes
        <3>3. d # c
            BY <2>1, <3>1, <3>2 DEF At, On, Range
        <3>4. CASE UNCHANGED queue
            BY <1>1, <2>6, <3>4 DEF SyncSend
        <3>5. CASE QueuesBecome([queue EXCEPT ![d] = Append(@, Msg(u, th[u].msg))])
            BY <1>1, <2>6, <3>3, <3>5 DEF SyncSend, QueuesBecome, TypeInv
        <3> QED
            BY <2>6, <3>2, <3>4, <3>5 DEF SyncSend
    <2>7. CASE Recv(u) \/ TryRecv(u)
        <3>1. th[u].at # "idle"
            BY <2>7 DEF Recv, TryRecv, At
        <3>2. PICK d \in Ids : d = th[u].on[1]
            BY <3>1, OnTypes
        <3>3. \/ queue[d] # << >> /\ Take(u, d)
              \/ QueuesBecome(queue) /\ got' = got
            BY <2>7, <3>2 DEF Recv, TryRecv
        <3> QED
            BY <1>1, <2>4, <3>3, TakesOther
    <2>8. CASE SelectPoll(u)
        <3>1. th[u].at # "idle"
            BY <2>8 DEF SelectPoll, At
        <3>2. PICK d \in Ids : d = Here(u)
            BY <3>1, OnTypes
        <3>3. (queue[d] # << >> /\ Take(u, d)) \/ UNCHANGED <<queue, got>>
            BY <2>8, <3>2 DEF SelectPoll
        <3> QED
            BY <1>1, <2>2, <3>3, TakesOther
    <2>9. CASE SelectCheck(u)
        <3>1. th[u].at # "idle"
            BY <2>9 DEF SelectCheck, At
        <3>2. PICK d \in Ids : d = Here(u)
            BY <3>1, OnTypes
        <3>3. /\ got' = got
              /\ \/ QueuesBecome(queue)
                 \/ UNCHANGED queue
                 \/ QueuesBecome([queue EXCEPT ![d] = IF @ = << >> THEN @ ELSE Tail(@)])
            BY <2>9, <3>2 DEF SelectCheck
        <3> QED
            BY <1>1, <2>3, <2>4, <3>3
    <2>10. CASE SelectTimeout(u)
        BY <2>4, <2>10 DEF SelectTimeout
    <2> QED
        BY <1>3, <2>2, <2>5, <2>6, <2>7, <2>8, <2>9, <2>10 DEF Continue, ChannelStoreRx, LockForRecv, SelectAgain
<1>4. ASSUME Next PROVE Disconnected(c)' /\ \A t \in Threads : got'[t] # got[t] => Last(got'[t]).ch # c
    <2>1. PICK u \in Threads : Start(u) \/ Continue(u)
        BY <1>4 DEF Next
    <2>2. ~SenderAlive(c)'
        BY <1>1, <2>1, SendersGone
    <2> QED
        BY <1>3, <2>1, <2>2 DEF Disconnected
<1> QED
    BY <1>2, <1>4

\* Where Null has been returned the channel is empty and has no sender left.
EndedInv ==
    ended \subseteq Ids /\ \A c \in ended : c < CHANNEL_COUNTER /\ Disconnected(c)

LEMMA CounterGrows ==
    ASSUME TypeInv, [Next]_vars
    PROVE  CHANNEL_COUNTER \in Nat /\ CHANNEL_COUNTER' \in {CHANNEL_COUNTER, CHANNEL_COUNTER + 1}
<1>1. CHANNEL_COUNTER \in Nat
    BY Constants DEF TypeInv
<1>2. CHANNEL_COUNTER' \in {CHANNEL_COUNTER, CHANNEL_COUNTER + 1}
    BY DEF vars, Next, Start, Continue, Channel, ChanSend, ChanRecv, ChanTryRecv, StartReceive, Select, ChanClose,
           ChannelStoreRx, SyncSend, LockForRecv, Recv, TryRecv, SelectPoll, SelectCheck, SelectTimeout, SelectAgain
<1> QED
    BY <1>1, <1>2

LEMMA EndedStep ==
    ASSUME TypeInv, EndedInv, [Next /\ Remember]_<<vars, ended>>
    PROVE  EndedInv'
<1>1. [Next]_vars
    BY StepsOfSpec
<1>2. CHANNEL_COUNTER \in Nat /\ CHANNEL_COUNTER' \in {CHANNEL_COUNTER, CHANNEL_COUNTER + 1}
    BY <1>1, CounterGrows
<1>3. ASSUME NEW c \in ended' PROVE c \in Ids /\ c < CHANNEL_COUNTER /\ Disconnected(c)
    <2>1. CASE c \in ended
        BY <2>1 DEF EndedInv
    <2>2. CASE c \notin ended
        <3>1. PICK t \in Threads : ReturnsNull(t) /\ c = th[t].on[1]
            BY <1>3, <2>2 DEF Remember
        <3> QED
            BY <1>1, <3>1, EndStep
    <2> QED
        BY <2>1, <2>2
<1>4. ASSUME NEW c \in ended' PROVE c < CHANNEL_COUNTER' /\ Disconnected(c)'
    <2>1. c \in Nat
        BY <1>3, <1>4, Constants
    <2> QED
        BY <1>1, <1>2, <1>3, <1>4, <2>1, StaysDisconnected
<1>5. EndedInv' = (ended' \subseteq Ids /\ \A c \in ended' : c < CHANNEL_COUNTER' /\ Disconnected(c)')
    BY DEF EndedInv
<1> QED
    BY <1>3, <1>4, <1>5

LEMMA AlwaysEnded == Spec => []EndedInv
<1>1. Init => EndedInv
    BY DEF EndedInv, Init
<1>2. TypeInv /\ EndedInv /\ [Next /\ Remember]_<<vars, ended>> => EndedInv'
    BY EndedStep
<1> QED
    BY <1>1, <1>2, Always, PTL DEF Spec, Patient


\* Types, and the limits the code has to keep under any interleaving: the
\* registry never exceeds MAX_CHANNELS although channel() stores two endpoints
\* under one check each (channel_store), and a bounded queue never exceeds its capacity
\* although a sender waits outside the registry lock.
THEOREM TypeCorrect == Spec => []TypeOK
<1>1. TypeInv /\ EndedInv => TypeOK
    BY TypeInvImplies DEF EndedInv
<1> QED
    BY <1>1, Always, AlwaysEnded, PTL

\* Once chan_recv has returned Null, the channel stays empty and nothing is
\* received from it any more, by any builtin and whatever is opened, closed or sent
\* afterwards.  The clone of a bounded send counts as a sender when chan_close
\* has removed the registered one, and no channel number is used twice.
THEOREM NullStands == Spec => NullIsFinal
<1>1. TypeInv /\ EndedInv /\ [Next /\ Remember]_<<vars, ended>>
      => [\A c \in ended :
            /\ queue'[c] = << >>
            /\ \A t \in Threads : got'[t] # got[t] => Last(got'[t]).ch # c]_<<vars, ended>>
    <2> SUFFICES ASSUME TypeInv, EndedInv, [Next /\ Remember]_<<vars, ended>>, NEW c \in ended
                 PROVE  /\ queue'[c] = << >>
                        /\ \A t \in Threads : got'[t] # got[t] => Last(got'[t]).ch # c
        OBVIOUS
    <2>1. [Next]_vars
        BY StepsOfSpec
    <2>2. c \in Ids /\ c < CHANNEL_COUNTER /\ Disconnected(c)
        BY DEF EndedInv
    <2>3. Disconnected(c)' /\ \A t \in Threads : got'[t] # got[t] => Last(got'[t]).ch # c
        BY <2>1, <2>2, StaysDisconnected
    <2> QED
        BY <2>3 DEF Disconnected
<1> QED
    BY <1>1, Always, AlwaysEnded, PTL DEF Spec, Patient, NullIsFinal

=============================================================================
