------------------------------ MODULE Channels ------------------------------
(***************************************************************************)
(* Channels between the OS threads of one magi program: the process-wide   *)
(* CHANNEL_REGISTRY and the builtins channel, chan_send, chan_recv,        *)
(* chan_try_recv, chan_close and select (src/src/syntax/interpreter.rs).   *)
(*                                                                         *)
(* An endpoint stays usable after chan_close has removed it from the       *)
(* registry while a call that looked it up before is still running: a      *)
(* bounded send works on a clone of the SyncSender, a receive on a clone   *)
(* of the Arc around the receiver, whose mutex it holds while it waits.    *)
(* The registry lock is never held across a step that can block, so every  *)
(* section under it is one step here.  std::sync::mpsc is external.        *)
(***************************************************************************)
EXTENDS Naturals, Sequences, FiniteSets, SequencesExt

CONSTANTS
    Threads,       \* the main thread and the spawned ones
    Caps,          \* capacities the program asks for; Unbounded for none
    Ops,           \* the builtins the program calls, out of OpNames
    MAX_CHANNELS,  \* 4096 in the code: endpoints in the registry
    MaxIds,        \* bound of the model: channel() calls
    MaxCalls       \* bound of the model: calls that send or receive

OpNames == {"send", "recv", "try_recv", "close", "select"}
Unbounded == 1000000
Ids == 0 .. MaxIds - 1

ASSUME ChannelsAssumption ==
    /\ Caps \subseteq Nat
    /\ Ops \subseteq OpNames
    /\ {MAX_CHANNELS, MaxIds, MaxCalls} \subseteq Nat

VARIABLES
    CHANNEL_COUNTER,   \* the next channel number
    CHANNEL_REGISTRY,  \* the endpoints <<"tx", c>>, <<"rx", c>> that are stored
    cap,               \* channel -> capacity
    queue,             \* channel -> messages accepted and not yet taken
    th,                \* thread -> the call it is executing
    known,             \* the channels whose ids channel() has returned
    calls,             \* calls so far that send or receive; numbers the messages
    got,               \* thread -> the messages it has received, in order
    ended              \* history: the channels on which a chan_recv has returned Null

vars == <<CHANNEL_COUNTER, CHANNEL_REGISTRY, cap, queue, th, known, calls, got>>

Tx(c) == <<"tx", c>>
Rx(c) == <<"rx", c>>
Msg(t, n) == [from |-> t, n |-> n]

\* at: where in the builtin; on: the channels of the call; pos: the position
\* of select's walk over them; msg: what chan_send sends (0 otherwise).
Call(at, on, msg) == [at |-> at, on |-> on, pos |-> 1, msg |-> msg]
Idle == Call("idle", << >>, 0)
IsIdle(t) == th[t] = Idle
At(t, at) == th[t].at = at
On(t, c) == c \in Range(th[t].on)
Become(t, call) == th' = [th EXCEPT ![t] = call]
Return(t) == Become(t, Idle)

-----------------------------------------------------------------------------
(* mpsc: who still holds an end of channel c.                              *)

\* Wrong variant: the clone of a send in progress does not count.
SenderAliveInRegistry(c) == Tx(c) \in CHANNEL_REGISTRY

SenderAlive(c) == Tx(c) \in CHANNEL_REGISTRY \/ \E t \in Threads : At(t, "send") /\ On(t, c)

ReceiverAlive(c) ==
    \/ Rx(c) \in CHANNEL_REGISTRY
    \/ \E t \in Threads :
          th[t].at \in {"create", "lock_recv", "lock_try", "recv", "poll", "check", "sleep"} /\ On(t, c)

\* Wrong variant: a waiting receiver is not told that the senders are gone.
DisconnectedUnnoticed(c) == ~SenderAlive(c) /\ Rx(c) \notin CHANNEL_REGISTRY /\ queue[c] = << >>

\* recv and try_recv report a disconnection once the queue is empty.
Disconnected(c) == ~SenderAlive(c) /\ queue[c] = << >>

\* The messages go with the last handle of the receiver.  Called with the
\* queues of the step, after the registry and the calls are primed.
QueuesBecome(q) == queue' = [c \in Ids |-> IF ReceiverAlive(c)' THEN q[c] ELSE << >>]

\* A chan_recv holds the receiver's mutex for as long as it waits.
Locked(c) == \E t \in Threads : At(t, "recv") /\ On(t, c)

\* Wrong variant: the message stays in the queue.
TakePeeks(t, c) ==
    /\ got' = [got EXCEPT ![t] = Append(@, [ch |-> c, m |-> Head(queue[c])])]
    /\ QueuesBecome(queue)

\* Thread t takes the oldest message.
Take(t, c) ==
    /\ got' = [got EXCEPT ![t] = Append(@, [ch |-> c, m |-> Head(queue[c])])]
    /\ QueuesBecome([queue EXCEPT ![c] = Tail(@)])

-----------------------------------------------------------------------------
(* channel(): two insertions, each under the registry lock.                *)

\* Wrong variant: no limit.
channel_storeUnlimited(e, ok) == ok /\ CHANNEL_REGISTRY' = CHANNEL_REGISTRY \cup {e}

channel_store(e, ok) ==
    IF Cardinality(CHANNEL_REGISTRY) >= MAX_CHANNELS
    THEN ~ok /\ UNCHANGED CHANNEL_REGISTRY
    ELSE ok /\ CHANNEL_REGISTRY' = CHANNEL_REGISTRY \cup {e}

\* The number is used up whatever happens next.
Channel(t, k) ==
    LET c == CHANNEL_COUNTER IN
    /\ IsIdle(t) /\ CHANNEL_COUNTER < MaxIds
    /\ CHANNEL_COUNTER' = CHANNEL_COUNTER + 1
    /\ cap' = [cap EXCEPT ![c] = k]
    /\ \/ k = 0 /\ UNCHANGED <<CHANNEL_REGISTRY, th>>
       \/ /\ k > 0
          /\ \E ok \in BOOLEAN :
                /\ channel_store(Tx(c), ok)
                /\ IF ok THEN Become(t, Call("create", <<c>>, 0)) ELSE UNCHANGED th
    /\ UNCHANGED <<queue, known, calls, got>>

\* When the second insertion fails the sender stays registered, and the
\* receiver is dropped.
ChannelStoreRx(t) ==
    LET c == th[t].on[1] IN
    /\ At(t, "create")
    /\ \E ok \in BOOLEAN :
          /\ channel_store(Rx(c), ok)
          /\ known' = IF ok THEN known \cup {c} ELSE known
    /\ Return(t)
    /\ UNCHANGED <<CHANNEL_COUNTER, cap, queue, calls, got>>

-----------------------------------------------------------------------------
(* chan_send.  A call on an endpoint that is not registered is an error    *)
(* that changes nothing, here and below; the ids a program passes are ids  *)
(* that channel() has returned.                                            *)

Calling(t, op, c) ==
    /\ IsIdle(t) /\ op \in Ops /\ c \in known
    /\ calls < MaxCalls /\ calls' = calls + 1

\* An unbounded send happens under the registry lock; a bounded one clones
\* the sender and releases the lock.
ChanSend(t, c) ==
    /\ Calling(t, "send", c)
    /\ Tx(c) \in CHANNEL_REGISTRY
    /\ \/ /\ cap[c] = Unbounded /\ ReceiverAlive(c)
          /\ queue' = [queue EXCEPT ![c] = Append(@, Msg(t, calls'))]
          /\ UNCHANGED th
       \/ cap[c] = Unbounded /\ ~ReceiverAlive(c) /\ UNCHANGED <<queue, th>>
       \/ cap[c] # Unbounded /\ Become(t, Call("send", <<c>>, calls')) /\ UNCHANGED queue
    /\ UNCHANGED <<CHANNEL_COUNTER, CHANNEL_REGISTRY, cap, known, got>>

\* Wrong variant: a send that waits for room never learns that the receiver
\* has gone.
SyncSendWaits(t) ==
    LET c == th[t].on[1] IN
    /\ At(t, "send") /\ Len(queue[c]) < cap[c]
    /\ UNCHANGED <<CHANNEL_COUNTER, CHANNEL_REGISTRY, cap, known, calls, got>>
    /\ ReceiverAlive(c)
    /\ Return(t)
    /\ QueuesBecome([queue EXCEPT ![c] = Append(@, Msg(t, th[t].msg))])

\* SyncSender::send: waits for room, or fails because the receiver is gone.
SyncSend(t) ==
    LET c == th[t].on[1] IN
    /\ At(t, "send")
    /\ UNCHANGED <<CHANNEL_COUNTER, CHANNEL_REGISTRY, cap, known, calls, got>>
    /\ Return(t)
    /\ \/ ~ReceiverAlive(c) /\ UNCHANGED queue
       \/ /\ ReceiverAlive(c) /\ Len(queue[c]) < cap[c]
          /\ QueuesBecome([queue EXCEPT ![c] = Append(@, Msg(t, th[t].msg))])

-----------------------------------------------------------------------------
(* chan_recv and chan_try_recv.                                            *)

\* Both clone the Arc under the registry lock, then go for the mutex.
StartReceive(t, c, op, at) ==
    /\ Calling(t, op, c)
    /\ Rx(c) \in CHANNEL_REGISTRY
    /\ Become(t, Call(at, <<c>>, 0))
    /\ UNCHANGED <<CHANNEL_COUNTER, CHANNEL_REGISTRY, cap, queue, known, got>>
ChanRecv(t, c) == StartReceive(t, c, "recv", "lock_recv")
ChanTryRecv(t, c) == StartReceive(t, c, "try_recv", "lock_try")

LockForRecv(t) ==
    /\ At(t, "lock_recv") /\ ~Locked(th[t].on[1])
    /\ th' = [th EXCEPT ![t].at = "recv"]
    /\ UNCHANGED <<CHANNEL_COUNTER, CHANNEL_REGISTRY, cap, queue, known, calls, got>>

\* recv() returns a message, or Null when every sender is gone.
Recv(t) ==
    LET c == th[t].on[1] IN
    /\ At(t, "recv")
    /\ UNCHANGED <<CHANNEL_COUNTER, CHANNEL_REGISTRY, cap, known, calls>>
    /\ Return(t)
    /\ \/ queue[c] # << >> /\ Take(t, c)
       \/ Disconnected(c) /\ QueuesBecome(queue) /\ UNCHANGED got

\* try_recv() under the mutex: a message, or Null.
TryRecv(t) ==
    LET c == th[t].on[1] IN
    /\ At(t, "lock_try") /\ ~Locked(c)
    /\ UNCHANGED <<CHANNEL_COUNTER, CHANNEL_REGISTRY, cap, known, calls>>
    /\ Return(t)
    /\ \/ queue[c] # << >> /\ Take(t, c)
       \/ queue[c] = << >> /\ QueuesBecome(queue) /\ UNCHANGED got

ChanClose(t, e) ==
    /\ IsIdle(t) /\ "close" \in Ops /\ e[2] \in known
    /\ e \in CHANNEL_REGISTRY
    /\ UNCHANGED <<CHANNEL_COUNTER, cap, known, calls, got>>
    /\ CHANNEL_REGISTRY' = CHANNEL_REGISTRY \ {e}
    /\ UNCHANGED th
    /\ QueuesBecome(queue)

-----------------------------------------------------------------------------
(* select: poll every receiver, ask whether all are disconnected, look at  *)
(* the clock, sleep, again.                                                *)

Select(t, cs) ==
    /\ \A c \in Range(cs) : Calling(t, "select", c) /\ Rx(c) \in CHANNEL_REGISTRY
    /\ Become(t, Call("poll", cs, 0))
    /\ UNCHANGED <<CHANNEL_COUNTER, CHANNEL_REGISTRY, cap, queue, known, got>>

Here(t) == th[t].on[th[t].pos]
Walk(t, at) ==
    Become(t, IF th[t].pos < Len(th[t].on) THEN [th[t] EXCEPT !.pos = @ + 1]
              ELSE [th[t] EXCEPT !.pos = 1, !.at = at])

SelectPoll(t) ==
    /\ At(t, "poll") /\ ~Locked(Here(t))
    /\ UNCHANGED <<CHANNEL_COUNTER, CHANNEL_REGISTRY, cap, known, calls>>
    /\ \/ queue[Here(t)] # << >> /\ Return(t) /\ Take(t, Here(t))
       \/ queue[Here(t)] = << >> /\ Walk(t, "check") /\ UNCHANGED <<queue, got>>

\* The second round of try_recv only asks for a disconnection: a message it
\* takes is dropped, and the walk stops at the first channel still connected.
SelectCheck(t) ==
    LET c == Here(t) IN
    /\ At(t, "check") /\ ~Locked(c)
    /\ UNCHANGED <<CHANNEL_COUNTER, CHANNEL_REGISTRY, cap, known, calls, got>>
    /\ \/ /\ Disconnected(c) /\ th[t].pos = Len(th[t].on)
          /\ Return(t) /\ QueuesBecome(queue)
       \/ /\ Disconnected(c) /\ th[t].pos < Len(th[t].on)
          /\ Walk(t, "check") /\ UNCHANGED queue
       \/ /\ ~Disconnected(c)
          /\ Become(t, [th[t] EXCEPT !.pos = 1, !.at = "sleep"])
          /\ QueuesBecome([queue EXCEPT ![c] = IF @ = << >> THEN @ ELSE Tail(@)])

\* [-1, null] if the deadline has passed, another round if not.
SelectTimeout(t) ==
    /\ At(t, "sleep")
    /\ UNCHANGED <<CHANNEL_COUNTER, CHANNEL_REGISTRY, cap, known, calls, got>>
    /\ Return(t)
    /\ QueuesBecome(queue)

SelectAgain(t) ==
    /\ At(t, "sleep")
    /\ Become(t, [th[t] EXCEPT !.at = "poll"])
    /\ UNCHANGED <<CHANNEL_COUNTER, CHANNEL_REGISTRY, cap, queue, known, calls, got>>

-----------------------------------------------------------------------------
Init ==
    /\ CHANNEL_COUNTER = 0
    /\ CHANNEL_REGISTRY = {}
    /\ cap = [c \in Ids |-> 0]
    /\ queue = [c \in Ids |-> << >>]
    /\ th = [t \in Threads |-> Idle]
    /\ known = {}
    /\ calls = 0
    /\ got = [t \in Threads |-> << >>]
    /\ ended = {}

\* What a program may do next.
Start(t) ==
    \/ \E k \in Caps : Channel(t, k)
    \/ \E c \in Ids : ChanSend(t, c) \/ ChanRecv(t, c) \/ ChanTryRecv(t, c)
    \/ \E c, d \in Ids : Select(t, <<c>>) \/ (c # d /\ Select(t, <<c, d>>))
    \/ \E c \in Ids : ChanClose(t, Tx(c)) \/ ChanClose(t, Rx(c))

\* What a call in progress does next.
Continue(t) ==
    \/ ChannelStoreRx(t)
    \/ SyncSend(t)
    \/ LockForRecv(t) \/ Recv(t) \/ TryRecv(t)
    \/ SelectPoll(t) \/ SelectCheck(t) \/ SelectTimeout(t) \/ SelectAgain(t)

Next == \E t \in Threads : Start(t) \/ Continue(t)

\* A chan_recv returns without a message: its result is Null.
ReturnsNull(t) == At(t, "recv") /\ IsIdle(t)' /\ got'[t] = got[t]
Remember == ended' = ended \cup {th[t].on[1] : t \in {u \in Threads : ReturnsNull(u)}}

\* The scheduler runs every thread that can run; that a program makes another
\* call is not assumed.
Scheduled == \A t \in Threads : WF_vars(Continue(t))

\* Deadlines may be as far away as the program likes.
Patient == Init /\ [][Next /\ Remember]_<<vars, ended>> /\ Scheduled

\* A select that goes round and round meets its deadline.
Spec == Patient /\ \A t \in Threads : SF_vars(SelectTimeout(t))

-----------------------------------------------------------------------------
CallType ==
    [at : {"idle", "create", "send", "lock_recv", "lock_try", "recv", "poll", "check", "sleep"},
     on : UNION {[1..n -> Ids] : n \in 0..2}, pos : 1..2, msg : 0..MaxCalls]
Messages == [from : Threads, n : 1..MaxCalls]

\* Types.  The registry never holds more than MAX_CHANNELS endpoints, whatever calls of
\* channel() race for the last one, and a bounded queue never more than its capacity.
TypeOK ==
    /\ CHANNEL_COUNTER \in 0..MaxIds
    /\ CHANNEL_REGISTRY \subseteq {Tx(c) : c \in Ids} \cup {Rx(c) : c \in Ids}
    /\ Cardinality(CHANNEL_REGISTRY) <= MAX_CHANNELS
    /\ cap \in [Ids -> Nat]
    /\ queue \in [Ids -> Seq(Messages)]
    /\ \A c \in Ids : cap[c] # Unbounded => Len(queue[c]) <= cap[c]
    /\ th \in [Threads -> CallType]
    /\ known \subseteq Ids
    /\ calls \in 0..MaxCalls
    /\ got \in [Threads -> Seq([ch : Ids, m : Messages])]
    /\ ended \subseteq Ids

\* No message is received twice, by any two of chan_recv, chan_try_recv and
\* select, and the messages one thread sends on a channel reach any receiver
\* in the order they were sent.
InOrderOnce ==
    \A t, u \in Threads : \A i \in DOMAIN got[t], j \in DOMAIN got[u] :
        /\ got[t][i] = got[u][j] => t = u /\ i = j
        /\ (t = u /\ i < j /\ got[t][i].ch = got[t][j].ch /\ got[t][i].m.from = got[t][j].m.from)
              => got[t][i].m.n < got[t][j].m.n

\* Null from chan_recv is final: once it has been returned, no chan_send puts
\* another message into that channel and nobody receives one from it, though
\* the sender may have been closed under a send in progress and other threads
\* go on opening, closing and selecting.
NullIsFinal ==
    [][\A c \in ended :
         /\ queue'[c] = << >>
         /\ \A t \in Threads : got'[t] # got[t] => Last(got'[t]).ch # c]_<<vars, ended>>

\* A chan_recv or chan_try_recv returns once the sender is closed, even from
\* behind the mutex of another receive that waits.
RecvWakes ==
    \A t \in Threads, c \in Ids :
        (th[t].at \in {"lock_recv", "lock_try", "recv"} /\ On(t, c) /\ Tx(c) \notin CHANNEL_REGISTRY)
            ~> IsIdle(t)

\* A chan_send that waits for room returns once the receiver is closed, or
\* some select keeps the receiver in use.
SendWakes ==
    \A t \in Threads, c \in Ids :
        (At(t, "send") /\ On(t, c) /\ Rx(c) \notin CHANNEL_REGISTRY)
            ~> (IsIdle(t) \/ \E u \in Threads : th[u].at \in {"poll", "check", "sleep"} /\ On(u, c))

\* A select returns when the senders of all its channels are closed, however
\* far its deadline is, though they are closed one at a time and it looks at
\* one channel after the other.
SelectEnds ==
    \A t \in Threads :
        (th[t].at \in {"poll", "check", "sleep"} /\ \A c \in Range(th[t].on) : Tx(c) \notin CHANNEL_REGISTRY)
            ~> IsIdle(t)

\* The comment on select: it "returns whichever has data first".  A step of a
\* select takes a message only to return it.
SelectKeepsMessages ==
    [][\A t \in Threads, c \in Ids :
         (At(t, "check") /\ At(t, "sleep")' /\ ReceiverAlive(c)) => Len(queue'[c]) >= Len(queue[c])]_vars

\* The comment on select: "[-1, null] on timeout".
SelectTimesOut ==
    \A t \in Threads : th[t].at \in {"poll", "check", "sleep"} ~> IsIdle(t)
=============================================================================
