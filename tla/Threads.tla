------------------------------- MODULE Threads -------------------------------
(***************************************************************************)
(* The OS threads of one magi program: spawn and await over the            *)
(* process-wide TASK_REGISTRY, and the builtins through which threads meet *)
(* each other: wait_group_add/done/wait, and those that hand a value from  *)
(* one thread to another, rwlock_read/write and chan_send/chan_recv        *)
(* (src/src/syntax/interpreter.rs).                                        *)
(*                                                                         *)
(* Every registry lock is released before a step that can block, so each   *)
(* section under a lock is one step.  What a thread computes is left open; *)
(* what matters of its data is which futures it holds, because a thread    *)
(* can only await a future it holds.  Threads and Condvar of std are       *)
(* external.                                                               *)
(***************************************************************************)
EXTENDS Integers, FiniteSets, Sequences

CONSTANTS
    MAX_TASKS,  \* 4096 in the code: join handles in the registry
    Groups,     \* the wait groups of the program
    Deltas,     \* what it passes to wait_group_add
    MaxSpawns,  \* bound of the model: spawn expressions evaluated
    MaxCalls    \* bound of the model: calls of the other builtins

Tasks == 0 .. MaxSpawns - 1
Main == -1
AllThreads == Tasks \cup {Main}

ASSUME ThreadsAssumption ==
    /\ {MAX_TASKS, MaxSpawns, MaxCalls} \subseteq Nat
    /\ Deltas \subseteq Int

VARIABLES
    TASK_COUNTER,   \* the next task number
    TASK_REGISTRY,  \* the tasks whose join handle is stored
    th,             \* thread -> where it is, and what it waits for there
    result,         \* task -> what its closure returned
    knows,          \* thread -> the futures its variables hold
    cell,           \* what the read-write lock holds: futures
    mail,           \* the messages sent and not received: futures
    count,          \* wait group -> its counter
    calls,          \* builtin calls so far
    refused,        \* history: tasks whose handle task_store refused
    joins,          \* history: task -> how often its result was collected
    silent,         \* history: groups that wait_group_add took to zero
    passed          \* history: a future came to a thread through lock or channel

taskVars == <<TASK_COUNTER, TASK_REGISTRY, result, refused, joins>>
syncVars == <<count, silent>>
cellVars == <<cell, mail, passed>>
vars == <<taskVars, syncVars, cellVars, th, knows, calls>>

\* Results: a value or a resolved future, an error or a rejected future or a
\* panic, and the future of another task.
Ok == [kind |-> "ok", task |-> Main]
Err == [kind |-> "err", task |-> Main]
Pending(k) == [kind |-> "pending", task |-> k]
NoResult == [kind |-> "none", task |-> Main]
Results == {NoResult, Ok, Err} \cup {Pending(k) : k \in Tasks}

\* at "store" a thread is about to store the handle of task on; at "join" and
\* "nested" it is inside JoinHandle::join of task on; "asleep" on a wait group
\* it is inside Condvar::wait, "check" it is about to look at the counter.
Place(at, on) == [at |-> at, on |-> on]
Running == Place("run", Main)
At(t, at) == th[t].at = at
Become(t, p) == th' = [th EXCEPT ![t] = p]
Runs(t) == th[t] = Running
Joining(t) == th[t].at \in {"join", "nested"}
WaitingFor(t, w) == th[t].at \in {"asleep", "check"} /\ th[t].on = w

Init ==
    /\ TASK_COUNTER = 0 /\ TASK_REGISTRY = {}
    /\ th = [t \in AllThreads |-> IF t = Main THEN Running ELSE Place("none", Main)]
    /\ result = [k \in Tasks |-> NoResult]
    /\ knows = [t \in AllThreads |-> {}]
    /\ cell = {} /\ mail = <<>> /\ passed = FALSE
    /\ count = [w \in Groups |-> 0] /\ silent = {}
    /\ calls = 0 /\ refused = {} /\ joins = [k \in Tasks |-> 0]

-----------------------------------------------------------------------------
(* spawn: the thread is started on a copy of the visible variables, and    *)
(* only then is its handle stored.                                         *)

\* Wrong variant: the future is bound before the variables are copied.
SpawnAfterBinding(t) ==
    LET k == TASK_COUNTER IN
    /\ Runs(t) /\ k < MaxSpawns
    /\ TASK_COUNTER' = k + 1
    /\ th' = [th EXCEPT ![t] = Place("store", k), ![k] = Running]
    /\ knows' = [knows EXCEPT ![k] = knows[t] \cup {k}]
    /\ UNCHANGED <<TASK_REGISTRY, result, refused, joins, syncVars, cellVars, calls>>

Spawn(t) ==
    LET k == TASK_COUNTER IN
    /\ Runs(t) /\ k < MaxSpawns
    /\ TASK_COUNTER' = k + 1
    /\ th' = [th EXCEPT ![t] = Place("store", k), ![k] = Running]
    /\ knows' = [knows EXCEPT ![k] = knows[t]]
    /\ UNCHANGED <<TASK_REGISTRY, result, refused, joins, syncVars, cellVars, calls>>

\* Wrong variant: the limit is compared with > instead of >=.
task_storeOneMore(k) ==
    IF Cardinality(TASK_REGISTRY) > MAX_TASKS
    THEN refused' = refused \cup {k} /\ UNCHANGED TASK_REGISTRY
    ELSE TASK_REGISTRY' = TASK_REGISTRY \cup {k} /\ UNCHANGED refused

task_store(k) ==
    IF Cardinality(TASK_REGISTRY) >= MAX_TASKS
    THEN refused' = refused \cup {k} /\ UNCHANGED TASK_REGISTRY
    ELSE TASK_REGISTRY' = TASK_REGISTRY \cup {k} /\ UNCHANGED refused

\* A refused handle is dropped: the spawn is an error, the thread goes on.
StoreTask(t) ==
    LET k == th[t].on IN
    /\ At(t, "store")
    /\ task_store(k)
    /\ Become(t, Running)
    /\ knows' = [knows EXCEPT ![t] = @ \cup (TASK_REGISTRY' \cap {k})]
    /\ UNCHANGED <<TASK_COUNTER, result, joins, syncVars, cellVars, calls>>

\* The closure of task t returns r; its variables go, but for what the value
\* holds.  When main returns the process ends, and
\* nothing happens any more.
Finish(t, r) ==
    /\ Runs(t) /\ t # Main
    /\ r.kind = "pending" => r.task \in knows[t]
    /\ Become(t, Place("done", Main))
    /\ result' = [result EXCEPT ![t] = r]
    /\ knows' = [knows EXCEPT ![t] = IF r = Err THEN {} ELSE @]
    /\ UNCHANGED <<TASK_COUNTER, TASK_REGISTRY, refused, joins, syncVars, cellVars, calls>>

-----------------------------------------------------------------------------
(* await.  A future whose task is not in the registry is an error that     *)
(* changes nothing, and so is the await of a value.                        *)

\* Wrong variant: the handle stays in the registry.
task_joinKeeps(t, k, at) == k \in TASK_REGISTRY /\ Become(t, Place(at, k)) /\ UNCHANGED TASK_REGISTRY

task_join(t, k, at) ==
    /\ k \in TASK_REGISTRY
    /\ TASK_REGISTRY' = TASK_REGISTRY \ {k}
    /\ Become(t, Place(at, k))

Await(t, k) ==
    /\ Runs(t) /\ k \in knows[t]
    /\ task_join(t, k, "join")
    /\ UNCHANGED <<TASK_COUNTER, result, refused, joins, knows, syncVars, cellVars, calls>>

\* Wrong variant: the join of a thread that failed never returns.
CollectValues(t, k) ==
    /\ Joining(t) /\ th[t].on = k
    /\ result[k].kind \in {"ok", "pending"}
    /\ joins' = [joins EXCEPT ![k] = @ + 1]

\* join returns once the thread of task k has finished.
Collect(t, k) ==
    /\ Joining(t) /\ th[t].on = k
    /\ result[k] # NoResult
    /\ joins' = [joins EXCEPT ![k] = @ + 1]

\* A value brings the futures in it; the future of another task is joined
\* in turn when it is the outer result, and is the value of await as it is
\* when it is the inner one.
Join(t) ==
    LET k == th[t].on  r == result[k] IN
    /\ Collect(t, k)
    /\ \/ /\ At(t, "join") /\ r.kind = "pending" /\ task_join(t, r.task, "nested")
          /\ UNCHANGED knows
       \/ /\ At(t, "join") /\ r.kind = "pending" /\ r.task \notin TASK_REGISTRY
          /\ Become(t, Running) /\ UNCHANGED <<knows, TASK_REGISTRY>>
       \/ /\ r.kind = "ok" \/ (At(t, "nested") /\ r.kind = "pending")
          /\ knows' = [knows EXCEPT ![t] = @ \cup knows[k], ![k] = {}]
          /\ Become(t, Running) /\ UNCHANGED TASK_REGISTRY
       \/ r.kind = "err" /\ Become(t, Running) /\ UNCHANGED <<knows, TASK_REGISTRY>>
    /\ UNCHANGED <<TASK_COUNTER, result, refused, syncVars, cellVars, calls>>

-----------------------------------------------------------------------------
(* Wait groups, the read-write lock and a channel.                         *)

Calling(t) == Runs(t) /\ calls < MaxCalls /\ calls' = calls + 1

\* wait_group_add notifies nobody, whatever it makes of the counter.
WaitGroupAdd(t, w, delta) ==
    /\ Calling(t)
    /\ count' = [count EXCEPT ![w] = @ + delta]
    /\ silent' = IF count'[w] <= 0 THEN silent \cup {w} ELSE silent \ {w}
    /\ UNCHANGED <<taskVars, cellVars, th, knows>>

NotifyAll(w) ==
    th' = [t \in AllThreads |-> IF th[t] = Place("asleep", w) THEN Place("check", w) ELSE th[t]]

\* Wrong variant: one of the sleeping threads is told (notify_one).
WaitGroupDoneOne(t, w) ==
    /\ Calling(t)
    /\ count' = [count EXCEPT ![w] = @ - 1]
    /\ \/ /\ count'[w] <= 0 /\ silent' = silent \ {w}
          /\ IF \E u \in AllThreads : th[u] = Place("asleep", w)
             THEN \E u \in AllThreads : th[u] = Place("asleep", w) /\ Become(u, Place("check", w))
             ELSE UNCHANGED th
       \/ count'[w] > 0 /\ UNCHANGED <<th, silent>>
    /\ UNCHANGED <<taskVars, cellVars, knows>>

WaitGroupDone(t, w) ==
    /\ Calling(t)
    /\ count' = [count EXCEPT ![w] = @ - 1]
    /\ \/ count'[w] <= 0 /\ NotifyAll(w) /\ silent' = silent \ {w}
       \/ count'[w] > 0 /\ UNCHANGED <<th, silent>>
    /\ UNCHANGED <<taskVars, cellVars, knows>>

\* The registry lock is dropped before the group's own mutex is taken.
WaitGroupWait(t, w) ==
    /\ Calling(t)
    /\ Become(t, Place("check", w))
    /\ UNCHANGED <<taskVars, cellVars, knows, syncVars>>

\* The head of the waiting loop, under the group's mutex.
WaitGroupCheck(t) ==
    /\ At(t, "check")
    /\ Become(t, IF count[th[t].on] > 0 THEN Place("asleep", th[t].on) ELSE Running)
    /\ UNCHANGED <<calls, taskVars, cellVars, knows, syncVars>>

\* A condition variable may wake up by itself.
SpuriousWakeup(t) ==
    /\ At(t, "asleep")
    /\ Become(t, Place("check", th[t].on))
    /\ UNCHANGED <<calls, taskVars, cellVars, knows, syncVars>>

\* What thread t holds once it has been handed a value with the futures v.
Receive(t, v) ==
    /\ knows' = [knows EXCEPT ![t] = @ \cup v]
    /\ passed' = (passed \/ ~(v \subseteq knows[t]))

\* A value that a thread writes or sends holds some of the thread's futures.
\* The map of expvar_set and expvar_get is one more cell of this kind.
RwlockWrite(t, v) ==
    /\ Calling(t) /\ v \subseteq knows[t]
    /\ cell' = v
    /\ UNCHANGED <<taskVars, syncVars, th, knows, mail, passed>>

\* Reading a value without futures changes nothing.
RwlockRead(t) ==
    /\ Calling(t) /\ cell # {}
    /\ Receive(t, cell)
    /\ UNCHANGED <<taskVars, syncVars, th, cell, mail>>

\* Of chan_send and chan_recv, what they do to futures: the capacity, the
\* waits and the closing of a channel are those of module Channels.
ChanSend(t, v) ==
    /\ Calling(t) /\ v \subseteq knows[t] /\ v # {}
    /\ mail' = Append(mail, v)
    /\ UNCHANGED <<taskVars, syncVars, th, knows, cell, passed>>

ChanRecv(t) ==
    /\ Calling(t) /\ mail # <<>>
    /\ Receive(t, Head(mail))
    /\ mail' = Tail(mail)
    /\ UNCHANGED <<taskVars, syncVars, th, cell>>

-----------------------------------------------------------------------------

\* What a thread does inside a builtin it has called; the scheduler runs it.
Continue(t) == StoreTask(t) \/ Join(t) \/ WaitGroupCheck(t)

\* What the program does next.
Program(t) ==
    \/ Spawn(t)
    \/ \E r \in Results \ {NoResult} : Finish(t, r)
    \/ \E k \in Tasks : Await(t, k)
    \/ \E v \in SUBSET Tasks : RwlockWrite(t, v) \/ ChanSend(t, v)
    \/ RwlockRead(t)
    \/ ChanRecv(t)
    \/ \E w \in Groups :
          \/ \E delta \in Deltas : WaitGroupAdd(t, w, delta)
          \/ WaitGroupDone(t, w)
          \/ WaitGroupWait(t, w)

Next == \E t \in AllThreads : Continue(t) \/ Program(t) \/ SpuriousWakeup(t)

\* The operating system runs every thread that can run.  Nothing is assumed
\* about what the program does next, nor about spurious wake-ups.
Spec == Init /\ [][Next]_vars /\ \A t \in AllThreads : WF_vars(Continue(t))

-----------------------------------------------------------------------------

Places ==
    {Running} \cup [at : {"none", "done"}, on : {Main}]
        \cup [at : {"store", "join", "nested"}, on : Tasks]
        \cup [at : {"asleep", "check"}, on : Groups]

\* Types; the registry never holds more than MAX_TASKS handles, whatever
\* spawns race for the last slot.
TypeOK ==
    /\ TASK_COUNTER \in 0 .. MaxSpawns
    /\ TASK_REGISTRY \in SUBSET Tasks /\ Cardinality(TASK_REGISTRY) <= MAX_TASKS
    /\ th \in [AllThreads -> Places]
    /\ result \in [Tasks -> Results]
    /\ knows \in [AllThreads -> SUBSET Tasks]
    /\ cell \in SUBSET Tasks /\ mail \in Seq(SUBSET Tasks) /\ passed \in BOOLEAN
    /\ count \in [Groups -> Int] /\ silent \in SUBSET Groups
    /\ calls \in 0 .. MaxCalls
    /\ refused \in SUBSET Tasks /\ joins \in [Tasks -> Nat]

Joiners(k) == {t \in AllThreads : Joining(t) /\ th[t].on = k}
Storers(k) == {t \in AllThreads : th[t] = Place("store", k)}

\* A task's handle is in exactly one place: with the spawner that is about to
\* store it, in the registry, with the one thread that joins it, or gone, because
\* it was refused or because its result was collected, which happens
\* once.  So the future that several threads hold yields its result to the
\* first that awaits it and an error to the others (task_join).
HandleOnce ==
    \A k \in 0 .. TASK_COUNTER - 1 :
       Cardinality(Storers(k)) + Cardinality(TASK_REGISTRY \cap {k}) + Cardinality(Joiners(k))
         + joins[k] + Cardinality(refused \cap {k}) = 1

\* Awaits never wait in a circle, as long as no thread has been handed a future it did
\* not hold by a lock or a channel: a task is started on its spawner's variables as they
\* were before its own future existed, and learns of others only from those it awaits.
NoCircularAwait ==
    passed \/ \A S \in (SUBSET AllThreads) \ {{}} : \E t \in S : ~(Joining(t) /\ th[t].on \in S)

\* No lost wake-up: a thread sleeps on a wait group only while there is work to
\* wait for, unless the group was last taken to zero by wait_group_add, which notifies nobody.
NoLostWakeup ==
    \A t \in AllThreads : At(t, "asleep") => count[th[t].on] > 0 \/ th[t].on \in silent

\* What t waits for has happened: the task it joins has finished, or the
\* group it waits for has no work left and somebody was told.
Due(t) ==
    \/ Joining(t) /\ At(th[t].on, "done")
    \/ \E w \in Groups : WaitingFor(t, w) /\ count[w] <= 0 /\ w \notin silent

\* No thread waits forever for what has happened: an await of a task that ends, by
\* a value, an error or a panic, comes back or goes on to the future it was given,
\* and wait_group_wait returns once the group stays without work.
WaitsEnd == \A t \in AllThreads : []<>~Due(t)
=============================================================================
