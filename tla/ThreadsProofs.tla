--------------------------- MODULE ThreadsProofs ---------------------------
(***************************************************************************)
(* Spawn, await and the wait groups for any number of tasks, any limit of  *)
(* the registry and any groups: types, where every join handle is, that no *)
(* wake-up is lost and that awaits form no circle.                         *)
(***************************************************************************)
EXTENDS Threads, FiniteSetTheorems, TLAPS

\* The places of a thread that are not a step of a builtin on a task.
LEMMA PlaceTypes ==
    /\ Running \in Places
    /\ Place("none", Main) \in Places /\ Place("done", Main) \in Places
    /\ \A k \in Tasks : \A at \in {"store", "join", "nested"} : Place(at, k) \in Places
    /\ \A w \in Groups : \A at \in {"asleep", "check"} : Place(at, w) \in Places
    /\ \A p \in Places :
          /\ p.at \in {"store", "join", "nested"} => p.on \in Tasks
          /\ p.at \in {"asleep", "check"} => p.on \in Groups
          /\ p = Place(p.at, p.on)
BY DEF Places, Place, Running

LEMMA ResultTypes ==
    /\ {NoResult, Ok, Err} \subseteq Results
    /\ \A k \in Tasks : Pending(k) \in Results
    /\ \A r \in Results : r.kind = "pending" => r.task \in Tasks /\ r = Pending(r.task)
    /\ \A r \in Results : r.kind = "ok" => r = Ok
    /\ \A r \in Results : r.kind = "err" => r = Err
    /\ NoResult.kind = "none"
<1>1. {NoResult, Ok, Err} \subseteq Results /\ \A k \in Tasks : Pending(k) \in Results
    BY DEF Results
<1>2. ASSUME NEW r \in Results
      PROVE  r \in {NoResult, Ok, Err} \/ \E k \in Tasks : r = Pending(k)
    BY DEF Results
<1>3. \A k \in Tasks : Pending(k).kind = "pending" /\ Pending(k).task = k
    BY DEF Pending
<1>4. NoResult.kind = "none" /\ Ok.kind = "ok" /\ Err.kind = "err"
    BY DEF NoResult, Ok, Err
<1> QED
    BY <1>1, <1>2, <1>3, <1>4

LEMMA FiniteTasks ==
    /\ IsFiniteSet(Tasks)
    /\ IsFiniteSet(AllThreads)
    /\ Main \notin Tasks /\ Main \in Int /\ Tasks \subseteq Nat
<1>1. IsFiniteSet(Tasks)
    BY ThreadsAssumption, FS_Interval DEF Tasks
<1>2. IsFiniteSet(AllThreads)
    BY <1>1, FS_AddElement DEF AllThreads
<1> QED
    BY <1>1, <1>2, ThreadsAssumption DEF Tasks, Main

\* Leaving the registry and entering it below the limit keep its bound.
LEMMA RegistryBound ==
    ASSUME NEW R \in SUBSET Tasks, NEW k \in Tasks, Cardinality(R) <= MAX_TASKS
    PROVE  /\ Cardinality(R \ {k}) <= MAX_TASKS
           /\ Cardinality(R) < MAX_TASKS => Cardinality(R \cup {k}) <= MAX_TASKS
           /\ Cardinality(R) \in Nat
<1>1. IsFiniteSet(R)
    BY FiniteTasks, FS_Subset
<1>2. Cardinality(R) \in Nat
    BY <1>1, FS_CardinalityType
<1>3. /\ IsFiniteSet(R \ {k})
      /\ Cardinality(R \ {k}) = IF k \in R THEN Cardinality(R) - 1 ELSE Cardinality(R)
    BY <1>1, FS_RemoveElement
<1>4. Cardinality(R \cup {k}) = IF k \in R THEN Cardinality(R) ELSE Cardinality(R) + 1
    BY <1>1, FS_AddElement
<1>5. MAX_TASKS \in Nat
    BY ThreadsAssumption
<1> QED
    BY <1>2, <1>3, <1>4, <1>5

-----------------------------------------------------------------------------
\* The part of the types that task_store changes.
LEMMA StoreType ==
    ASSUME TypeOK, NEW k \in Tasks, task_store(k)
    PROVE  /\ TASK_REGISTRY' \in SUBSET Tasks /\ Cardinality(TASK_REGISTRY') <= MAX_TASKS
           /\ refused' \in SUBSET Tasks
<1>1. MAX_TASKS \in Nat /\ TASK_REGISTRY \in SUBSET Tasks
    BY ThreadsAssumption DEF TypeOK
<1>2. Cardinality(TASK_REGISTRY) \in Nat /\ Cardinality(TASK_REGISTRY) <= MAX_TASKS
    BY <1>1, RegistryBound DEF TypeOK
<1>3. CASE Cardinality(TASK_REGISTRY) >= MAX_TASKS
    BY <1>2, <1>3 DEF TypeOK, task_store
<1>4. CASE Cardinality(TASK_REGISTRY) < MAX_TASKS
    <2>1. TASK_REGISTRY' = TASK_REGISTRY \cup {k} /\ UNCHANGED refused
        BY <1>1, <1>2, <1>4 DEF task_store
    <2> QED
        BY <1>1, <1>2, <1>4, <2>1, RegistryBound DEF TypeOK
<1> QED
    BY <1>1, <1>2, <1>3, <1>4

LEMMA JoinType ==
    ASSUME TypeOK, NEW t \in AllThreads, NEW k \in Tasks, NEW at \in {"join", "nested"},
           task_join(t, k, at)
    PROVE  /\ TASK_REGISTRY' \in SUBSET Tasks /\ Cardinality(TASK_REGISTRY') <= MAX_TASKS
           /\ th' \in [AllThreads -> Places]
BY RegistryBound, PlaceTypes DEF TypeOK, task_join, Become

LEMMA ReceiveType ==
    ASSUME TypeOK, NEW t \in AllThreads, NEW v \in SUBSET Tasks, Receive(t, v)
    PROVE  knows' \in [AllThreads -> SUBSET Tasks] /\ passed' \in BOOLEAN
<1>1. knows' \in [AllThreads -> SUBSET Tasks]
    BY DEF Receive, TypeOK
<1>2. passed' \in BOOLEAN
    BY Zenon DEF Receive
<1> QED
    BY <1>1, <1>2

LEMMA TypeStep ==
    ASSUME TypeOK, [Next]_vars
    PROVE  TypeOK'
<1> USE DEF taskVars, syncVars, cellVars
<1>1. CASE UNCHANGED vars
    BY <1>1 DEF vars, TypeOK
<1>2. ASSUME NEW t \in AllThreads, Spawn(t) PROVE TypeOK'
    <2>1. TASK_COUNTER \in Tasks /\ TASK_COUNTER \in AllThreads /\ TASK_COUNTER' \in 0 .. MaxSpawns
        BY <1>2, ThreadsAssumption DEF Spawn, TypeOK, Tasks, AllThreads
    <2>2. th' \in [AllThreads -> Places] /\ knows' \in [AllThreads -> SUBSET Tasks]
        BY <1>2, <2>1, PlaceTypes DEF Spawn, TypeOK
    <2> QED
        BY <1>2, <2>1, <2>2 DEF Spawn, TypeOK
<1>3. ASSUME NEW t \in AllThreads, StoreTask(t) PROVE TypeOK'
    <2>1. th[t].on \in Tasks
        BY <1>3, PlaceTypes DEF StoreTask, At, TypeOK
    <2>2. th' \in [AllThreads -> Places]
        BY <1>3, PlaceTypes DEF StoreTask, Become, TypeOK
    <2>3. knows' \in [AllThreads -> SUBSET Tasks]
        BY <1>3, <2>1 DEF StoreTask, TypeOK
    <2> QED
        BY <1>3, <2>1, <2>2, <2>3, StoreType DEF StoreTask, TypeOK
<1>4. ASSUME NEW t \in AllThreads, NEW r \in Results, Finish(t, r) PROVE TypeOK'
    <2>1. t \in Tasks
        BY <1>4 DEF Finish, AllThreads
    <2>2. th' \in [AllThreads -> Places] /\ result' \in [Tasks -> Results]
        BY <1>4, <2>1, PlaceTypes DEF Finish, Become, TypeOK
    <2>3. knows' \in [AllThreads -> SUBSET Tasks]
        BY <1>4 DEF Finish, TypeOK
    <2> QED
        BY <1>4, <2>2, <2>3 DEF Finish, TypeOK
<1>5. ASSUME NEW t \in AllThreads, NEW k \in Tasks, Await(t, k) PROVE TypeOK'
    BY <1>5, JoinType DEF Await, TypeOK
<1>6. ASSUME NEW t \in AllThreads, Join(t) PROVE TypeOK'
    <2> DEFINE k == th[t].on
    <2>1. k \in Tasks
        BY <1>6, PlaceTypes DEF Join, Collect, Joining, TypeOK
    <2>2. joins' \in [Tasks -> Nat]
        BY <1>6, <2>1 DEF Join, Collect, TypeOK
    <2>3. result[k].kind = "pending" => result[k].task \in Tasks
        BY <2>1, ResultTypes DEF TypeOK
    <2>4. knows' \in [AllThreads -> SUBSET Tasks]
        <3>1. knows \in [AllThreads -> SUBSET Tasks]
            BY DEF TypeOK
        <3>2. \/ UNCHANGED knows
              \/ knows' = [knows EXCEPT ![t] = @ \cup knows[k], ![k] = {}]
            BY <1>6 DEF Join
        <3> QED
            BY <2>1, <3>1, <3>2 DEF AllThreads
    <2>5. /\ TASK_REGISTRY' \in SUBSET Tasks /\ Cardinality(TASK_REGISTRY') <= MAX_TASKS
          /\ th' \in [AllThreads -> Places]
        <3>1. CASE task_join(t, result[k].task, "nested") /\ result[k].kind = "pending"
            BY <3>1, <2>3, JoinType
        <3>2. CASE Become(t, Running) /\ UNCHANGED TASK_REGISTRY
            BY <3>2, PlaceTypes DEF Become, TypeOK
        <3> QED
            BY <1>6, <3>1, <3>2 DEF Join
    <2> QED
        BY <1>6, <2>2, <2>4, <2>5 DEF Join, TypeOK
<1>7. ASSUME NEW t \in AllThreads, NEW w \in Groups, NEW delta \in Deltas, WaitGroupAdd(t, w, delta)
      PROVE  TypeOK'
    <2>1. count' \in [Groups -> Int] /\ silent' \in SUBSET Groups
        BY <1>7, ThreadsAssumption DEF WaitGroupAdd, TypeOK
    <2>2. calls' \in 0 .. MaxCalls
        BY <1>7, ThreadsAssumption DEF WaitGroupAdd, Calling, TypeOK
    <2> QED
        BY <1>7, <2>1, <2>2 DEF WaitGroupAdd, TypeOK
<1>8. ASSUME NEW t \in AllThreads, NEW w \in Groups, WaitGroupDone(t, w) PROVE TypeOK'
    <2>1. count' \in [Groups -> Int] /\ silent' \in SUBSET Groups
        BY <1>8 DEF WaitGroupDone, TypeOK
    <2>2. calls' \in 0 .. MaxCalls
        BY <1>8, ThreadsAssumption DEF WaitGroupDone, Calling, TypeOK
    <2>3. th' \in [AllThreads -> Places]
        BY <1>8, PlaceTypes DEF WaitGroupDone, NotifyAll, TypeOK
    <2> QED
        BY <1>8, <2>1, <2>2, <2>3 DEF WaitGroupDone, TypeOK
<1>9. ASSUME NEW t \in AllThreads, NEW w \in Groups, WaitGroupWait(t, w) PROVE TypeOK'
    <2>1. calls' \in 0 .. MaxCalls
        BY <1>9, ThreadsAssumption DEF WaitGroupWait, Calling, TypeOK
    <2>2. th' \in [AllThreads -> Places]
        BY <1>9, PlaceTypes DEF WaitGroupWait, Become, TypeOK
    <2> QED
        BY <1>9, <2>1, <2>2 DEF WaitGroupWait, TypeOK
<1>10. ASSUME NEW t \in AllThreads, WaitGroupCheck(t) \/ SpuriousWakeup(t) PROVE TypeOK'
    <2>1. th[t].on \in Groups
        BY <1>10, PlaceTypes DEF WaitGroupCheck, SpuriousWakeup, At, TypeOK
    <2>2. th' \in [AllThreads -> Places]
        BY <1>10, <2>1, PlaceTypes DEF WaitGroupCheck, SpuriousWakeup, Become, TypeOK
    <2> QED
        BY <1>10, <2>2 DEF WaitGroupCheck, SpuriousWakeup, TypeOK
<1>11. ASSUME NEW t \in AllThreads, NEW v \in SUBSET Tasks, RwlockWrite(t, v) PROVE TypeOK'
    <2>1. calls' \in 0 .. MaxCalls
        BY <1>11, ThreadsAssumption DEF RwlockWrite, Calling, TypeOK
    <2> QED
        BY <1>11, <2>1 DEF RwlockWrite, TypeOK
<1>12. ASSUME NEW t \in AllThreads, RwlockRead(t) PROVE TypeOK'
    <2>1. calls' \in 0 .. MaxCalls
        BY <1>12, ThreadsAssumption DEF RwlockRead, Calling, TypeOK
    <2>2. cell \in SUBSET Tasks
        BY DEF TypeOK
    <2>3. knows' \in [AllThreads -> SUBSET Tasks] /\ passed' \in BOOLEAN
        BY <1>12, <2>2, ReceiveType DEF RwlockRead
    <2> QED
        BY <1>12, <2>1, <2>3 DEF RwlockRead, TypeOK
<1>13. ASSUME NEW t \in AllThreads, NEW v \in SUBSET Tasks, ChanSend(t, v) PROVE TypeOK'
    <2>1. calls' \in 0 .. MaxCalls
        BY <1>13, ThreadsAssumption DEF ChanSend, Calling, TypeOK
    <2>2. mail' \in Seq(SUBSET Tasks)
        BY <1>13 DEF ChanSend, TypeOK
    <2> QED
        BY <1>13, <2>1, <2>2 DEF ChanSend, TypeOK
<1>14. ASSUME NEW t \in AllThreads, ChanRecv(t) PROVE TypeOK'
    <2>1. calls' \in 0 .. MaxCalls
        BY <1>14, ThreadsAssumption DEF ChanRecv, Calling, TypeOK
    <2>2. Head(mail) \in SUBSET Tasks /\ mail' \in Seq(SUBSET Tasks)
        BY <1>14 DEF ChanRecv, TypeOK
    <2>3. knows' \in [AllThreads -> SUBSET Tasks] /\ passed' \in BOOLEAN
        BY <1>14, <2>2, ReceiveType DEF ChanRecv
    <2> QED
        BY <1>14, <2>1, <2>2, <2>3 DEF ChanRecv, TypeOK
<1> QED
    BY <1>1, <1>2, <1>3, <1>4, <1>5, <1>6, <1>7, <1>8, <1>9, <1>10, <1>11, <1>12,
       <1>13, <1>14
    DEF Next, Continue, Program

\* Types (TypeOK): in particular the registry never holds more than MAX_TASKS
\* handles, for any limit and any number of racing spawns.
THEOREM TypeCorrect == Spec => []TypeOK
<1>1. Init => TypeOK
    <2> SUFFICES ASSUME Init PROVE TypeOK
        OBVIOUS
    <2>1. Cardinality({}) = 0
        BY FS_EmptySet
    <2>2. th \in [AllThreads -> Places] /\ result \in [Tasks -> Results]
        BY PlaceTypes, ResultTypes DEF Init
    <2>3. /\ TASK_COUNTER \in 0 .. MaxSpawns /\ calls \in 0 .. MaxCalls
          /\ TASK_REGISTRY \in SUBSET Tasks /\ Cardinality(TASK_REGISTRY) <= MAX_TASKS
        BY <2>1, ThreadsAssumption DEF Init
    <2>4. passed \in BOOLEAN
        BY Zenon DEF Init
    <2>5. /\ knows \in [AllThreads -> SUBSET Tasks] /\ cell \in SUBSET Tasks
          /\ mail \in Seq(SUBSET Tasks)
          /\ count \in [Groups -> Int] /\ silent \in SUBSET Groups
          /\ refused \in SUBSET Tasks /\ joins \in [Tasks -> Nat]
        BY DEF Init
    <2> QED
        BY <2>2, <2>3, <2>4, <2>5 DEF TypeOK
<1> QED
    BY <1>1, TypeStep, PTL DEF Spec

-----------------------------------------------------------------------------
(* Where a join handle is.                                                 *)

\* Thread t has the handle of task k in hand: it is about to store it, or it
\* is inside the join.
Holds(t, k) == th[t].at \in {"store", "join", "nested"} /\ th[t].on = k

\* Task k's future is in the lock or in a message under way.
Shared(k) == k \in cell \/ \E i \in DOMAIN mail : k \in mail[i]

\* A task number not given out yet: nothing in the program refers to it.
Unborn(k) ==
    /\ th[k] = Place("none", Main) /\ knows[k] = {} /\ result[k] = NoResult
    /\ ~Shared(k) /\ k \notin TASK_REGISTRY /\ k \notin refused /\ joins[k] = 0
    /\ \A t \in AllThreads : k \notin knows[t] /\ ~Holds(t, k)
    /\ \A j \in Tasks : result[j] # Pending(k)

\* The handle of a started task is in one place only, and has not disappeared.
HandlePlaced(k) ==
    /\ \A t, u \in AllThreads : Holds(t, k) /\ Holds(u, k) => t = u
    /\ joins[k] \in {0, 1}
    /\ \A t \in AllThreads :
          Holds(t, k) => k \notin TASK_REGISTRY /\ k \notin refused /\ joins[k] = 0
    /\ k \in TASK_REGISTRY => k \notin refused /\ joins[k] = 0
    /\ k \in refused => joins[k] = 0
    /\ (\E t \in AllThreads : Holds(t, k)) \/ k \in TASK_REGISTRY \/ k \in refused \/ joins[k] = 1

HandleInv ==
    /\ TypeOK
    /\ \A k \in Tasks : k >= TASK_COUNTER => Unborn(k)
    /\ \A k \in Tasks : k < TASK_COUNTER => HandlePlaced(k)

\* How each step changes who has a handle in hand.
LEMMA SpawnHolds ==
    ASSUME HandleInv, NEW t \in AllThreads, Spawn(t)
    PROVE  /\ TASK_COUNTER \in Tasks /\ t # TASK_COUNTER
           /\ \A u \in AllThreads : \A j \in Tasks :
                 Holds(u, j)' <=> Holds(u, j) \/ (u = t /\ j = TASK_COUNTER)
<1>1. TASK_COUNTER \in Tasks /\ TASK_COUNTER \in AllThreads
    BY ThreadsAssumption DEF Spawn, HandleInv, TypeOK, Tasks, AllThreads
<1>2. Unborn(TASK_COUNTER)
    BY <1>1, FiniteTasks DEF HandleInv
<1>3. t # TASK_COUNTER /\ th[TASK_COUNTER].at = "none" /\ th[t].at = "run"
    BY <1>2 DEF Unborn, Spawn, Runs, Running, Place
<1>4. /\ th'[t] = Place("store", TASK_COUNTER) /\ th'[TASK_COUNTER] = Running
      /\ \A u \in AllThreads : u # t /\ u # TASK_COUNTER => th'[u] = th[u]
    BY <1>1, <1>3 DEF Spawn, HandleInv, TypeOK
<1> QED
    BY <1>1, <1>3, <1>4 DEF Holds, Place, Running

LEMMA BecomeHolds ==
    ASSUME TypeOK, NEW t \in AllThreads, NEW p, Become(t, p)
    PROVE  /\ th'[t] = p
           /\ \A u \in AllThreads : u # t => th'[u] = th[u]
           /\ \A u \in AllThreads : \A j : u # t => (Holds(u, j)' <=> Holds(u, j))
           /\ \A j : Holds(t, j)' <=> p.at \in {"store", "join", "nested"} /\ p.on = j
BY DEF Become, TypeOK, Holds

LEMMA RunsHolds ==
    ASSUME NEW t \in AllThreads, Runs(t)
    PROVE  \A j : ~Holds(t, j)
BY DEF Runs, Running, Place, Holds

LEMMA NotifyHolds ==
    ASSUME TypeOK, NEW w \in Groups, NotifyAll(w)
    PROVE  \A u \in AllThreads : \A j : Holds(u, j)' <=> Holds(u, j)
BY DEF NotifyAll, TypeOK, Holds, Place

\* The steps of the other builtins and of the scheduler: they leave tasks
\* and handles as they are.
Elsewhere ==
    /\ UNCHANGED <<TASK_COUNTER, TASK_REGISTRY, result, refused, joins>>
    /\ \A u \in AllThreads : \A j : Holds(u, j)' <=> Holds(u, j)
    /\ \A u \in AllThreads : th[u].at = "none" => th'[u] = th[u]

LEMMA ElsewhereSteps ==
    ASSUME TypeOK, NEW t \in AllThreads,
           \/ \E v : RwlockWrite(t, v) \/ ChanSend(t, v)
           \/ RwlockRead(t)
           \/ ChanRecv(t)
           \/ \E w \in Groups : \/ \E delta \in Deltas : WaitGroupAdd(t, w, delta)
                                \/ WaitGroupDone(t, w)
                                \/ WaitGroupWait(t, w)
           \/ WaitGroupCheck(t)
           \/ SpuriousWakeup(t)
    PROVE  Elsewhere
<1> USE DEF taskVars, syncVars, cellVars
<1>1. UNCHANGED <<TASK_COUNTER, TASK_REGISTRY, result, refused, joins>>
    BY DEF RwlockWrite, RwlockRead, ChanSend, ChanRecv, WaitGroupAdd, WaitGroupDone,
           WaitGroupWait, WaitGroupCheck, SpuriousWakeup
<1>2. CASE UNCHANGED th
    BY <1>1, <1>2 DEF Elsewhere, Holds
<1>3. ASSUME NEW w \in Groups, NotifyAll(w) PROVE Elsewhere
    <2>1. \A u \in AllThreads : th[u].at = "none" => th'[u] = th[u]
        BY <1>3 DEF NotifyAll, TypeOK, Place
    <2> QED
        BY <1>1, <1>3, <2>1, NotifyHolds DEF Elsewhere
<1>4. ASSUME NEW p, Become(t, p), p.at \notin {"store", "join", "nested"},
             th[t].at \in {"run", "asleep", "check"}
      PROVE  Elsewhere
    <2>1. \A j : ~Holds(t, j) /\ ~Holds(t, j)'
        BY <1>4, BecomeHolds DEF Holds
    <2> QED
        BY <1>1, <1>4, <2>1, BecomeHolds DEF Elsewhere
<1>5. \/ UNCHANGED th
      \/ \E w \in Groups : NotifyAll(w)
      \/ \E p : Become(t, p) /\ p.at \notin {"store", "join", "nested"}
                  /\ th[t].at \in {"run", "asleep", "check"}
    <2>1. CASE \/ \E v : RwlockWrite(t, v) \/ ChanSend(t, v)
               \/ RwlockRead(t)
               \/ ChanRecv(t)
               \/ \E w \in Groups : \/ \E delta \in Deltas : WaitGroupAdd(t, w, delta)
                                    \/ WaitGroupDone(t, w)
        BY <2>1 DEF RwlockWrite, RwlockRead, ChanSend, ChanRecv, WaitGroupAdd, WaitGroupDone
    <2>2. ASSUME NEW w \in Groups, WaitGroupWait(t, w)
          PROVE  Become(t, Place("check", w)) /\ Place("check", w).at = "check" /\ th[t].at = "run"
        BY <2>2 DEF WaitGroupWait, Calling, Runs, Running, Place
    <2>3. CASE WaitGroupCheck(t)
        <3>1. Place("asleep", th[t].on).at = "asleep" /\ Running.at = "run" /\ th[t].at = "check"
            BY <2>3 DEF WaitGroupCheck, At, Running, Place
        <3> QED
            BY <2>3, <3>1 DEF WaitGroupCheck
    <2>4. CASE SpuriousWakeup(t)
        BY <2>4 DEF SpuriousWakeup, At, Place
    <2> QED
        BY <2>1, <2>2, <2>3, <2>4
<1> QED
    BY <1>2, <1>3, <1>4, <1>5

\* Unborn and HandlePlaced survive a step that does not touch the task.
LEMMA UntouchedTask ==
    ASSUME TypeOK, NEW k \in Tasks, HandlePlaced(k),
           \A u \in AllThreads : Holds(u, k)' <=> Holds(u, k),
           k \in TASK_REGISTRY' <=> k \in TASK_REGISTRY,
           k \in refused' <=> k \in refused,
           joins'[k] = joins[k]
    PROVE  HandlePlaced(k)'
BY DEF HandlePlaced

LEMMA SharedStays ==
    ASSUME UNCHANGED <<cell, mail>>, NEW k
    PROVE  Shared(k)' <=> Shared(k)
BY DEF Shared

LEMMA UntouchedUnborn ==
    ASSUME TypeOK, NEW k \in Tasks, Unborn(k),
           \A u \in AllThreads : Holds(u, k)' => Holds(u, k),
           th'[k] = th[k], knows'[k] = knows[k], result'[k] = result[k], joins'[k] = joins[k],
           k \in TASK_REGISTRY' => k \in TASK_REGISTRY,
           k \in refused' => k \in refused,
           Shared(k)' => Shared(k) \/ \E t \in AllThreads : k \in knows[t],
           \A u \in AllThreads :
              k \in knows'[u] => Shared(k) \/ \E t \in AllThreads : k \in knows[t],
           \A j \in Tasks : result'[j] = Pending(k) => result[j] = Pending(k)
    PROVE  Unborn(k)'
<1>1. ~Shared(k) /\ \A t \in AllThreads : k \notin knows[t]
    BY DEF Unborn
<1>2. \A t \in AllThreads : k \notin knows'[t] /\ ~Holds(t, k)'
    BY <1>1 DEF Unborn
<1>3. \A j \in Tasks : result'[j] # Pending(k)
    BY DEF Unborn
<1> QED
    BY <1>1, <1>2, <1>3 DEF Unborn

LEMMA HandleSpawn ==
    ASSUME HandleInv, TypeOK', NEW t \in AllThreads, Spawn(t)
    PROVE  HandleInv'
<1> DEFINE n == TASK_COUNTER
<1>1. TypeOK /\ n \in Tasks /\ n \in AllThreads /\ n \in Nat /\ t # n /\ Tasks \subseteq Nat
    BY SpawnHolds, FiniteTasks DEF HandleInv, AllThreads
<1>2. \A u \in AllThreads : \A j \in Tasks : Holds(u, j)' <=> Holds(u, j) \/ (u = t /\ j = n)
    BY SpawnHolds
<1>3. Unborn(n)
    BY <1>1 DEF HandleInv
<1>4. /\ TASK_COUNTER' = n + 1
      /\ UNCHANGED <<TASK_REGISTRY, result, refused, joins, cell, mail>>
    BY DEF Spawn, cellVars
<1>5. /\ knows'[n] = knows[t] /\ th'[n] = Running
      /\ \A u \in AllThreads : u # n => knows'[u] = knows[u]
      /\ \A u \in AllThreads : u # n /\ u # t => th'[u] = th[u]
    BY <1>1 DEF Spawn, TypeOK
<1>6. ASSUME NEW k \in Tasks, k >= TASK_COUNTER' PROVE Unborn(k)'
    <2>1. k # n /\ Unborn(k) /\ k \in AllThreads
        BY <1>1, <1>4, <1>6 DEF HandleInv, AllThreads
    <2>2. k # t
        BY <2>1 DEF Unborn, Spawn, Runs, Running, Place
    <2> QED
        BY <1>1, <1>2, <1>4, <1>5, <2>1, <2>2, UntouchedUnborn, SharedStays
<1>7. ASSUME NEW k \in Tasks, k < TASK_COUNTER' PROVE HandlePlaced(k)'
    <2>1. CASE k = n
        <3>1. \A u \in AllThreads : Holds(u, k)' <=> u = t
            BY <1>2, <1>3, <2>1 DEF Unborn
        <3>2. k \notin TASK_REGISTRY' /\ k \notin refused' /\ joins'[k] = 0
            BY <1>3, <1>4, <2>1 DEF Unborn
        <3> QED
            BY <3>1, <3>2 DEF HandlePlaced
    <2>2. CASE k # n
        <3>1. HandlePlaced(k)
            BY <1>1, <1>4, <1>7, <2>2 DEF HandleInv
        <3> QED
            BY <1>1, <1>2, <1>4, <2>2, <3>1, UntouchedTask
    <2> QED
        BY <2>1, <2>2
<1> QED
    BY <1>6, <1>7 DEF HandleInv

LEMMA HandleStore ==
    ASSUME HandleInv, TypeOK', NEW t \in AllThreads, StoreTask(t)
    PROVE  HandleInv'
<1>0. PICK k \in Tasks : k = th[t].on
    BY PlaceTypes DEF StoreTask, At, HandleInv, TypeOK
<1>1. TypeOK /\ Holds(t, k) /\ Tasks \subseteq AllThreads /\ th[t].at = "store"
    BY <1>0 DEF StoreTask, At, HandleInv, Holds, AllThreads
<1>2. k < TASK_COUNTER /\ HandlePlaced(k)
    BY <1>1, FiniteTasks DEF HandleInv, Unborn, TypeOK
<1>3. \A u \in AllThreads : \A j : Holds(u, j)' <=> Holds(u, j) /\ u # t
    BY <1>1, BecomeHolds DEF StoreTask, Running, Place
<1>4. \A j \in Tasks : Holds(t, j) <=> j = k
    BY <1>0, <1>1 DEF Holds
<1>5. /\ TASK_COUNTER' = TASK_COUNTER /\ UNCHANGED <<result, joins, cell, mail>>
      /\ \A u \in AllThreads : u # t => th'[u] = th[u] /\ knows'[u] = knows[u]
      /\ knows'[t] \subseteq knows[t] \cup {k}
    BY <1>0, <1>1 DEF StoreTask, cellVars, Become, TypeOK
<1>6. \/ refused' = refused \cup {k} /\ UNCHANGED TASK_REGISTRY
      \/ TASK_REGISTRY' = TASK_REGISTRY \cup {k} /\ UNCHANGED refused
    BY <1>0 DEF StoreTask, task_store
<1>7. ASSUME NEW j \in Tasks, j >= TASK_COUNTER' PROVE Unborn(j)'
    <2>1. j # k /\ Unborn(j) /\ j # t
        BY <1>1, <1>2, <1>5, <1>7, FiniteTasks DEF HandleInv, TypeOK, Unborn, Place
    <2> QED
        BY <1>1, <1>3, <1>5, <1>6, <2>1, UntouchedUnborn, SharedStays
<1>8. HandlePlaced(k)'
    <2>1. \A u \in AllThreads : ~Holds(u, k)'
        BY <1>1, <1>2, <1>3 DEF HandlePlaced
    <2>2. k \notin TASK_REGISTRY /\ k \notin refused /\ joins'[k] = 0
        BY <1>1, <1>2, <1>5 DEF HandlePlaced
    <2> QED
        BY <1>6, <2>1, <2>2 DEF HandlePlaced
<1>9. ASSUME NEW j \in Tasks, j < TASK_COUNTER', j # k PROVE HandlePlaced(j)'
    <2>1. \A u \in AllThreads : Holds(u, j)' <=> Holds(u, j)
        BY <1>3, <1>4, <1>9
    <2>2. HandlePlaced(j)
        BY <1>5, <1>9 DEF HandleInv
    <2> QED
        BY <1>1, <1>5, <1>6, <1>9, <2>1, <2>2, UntouchedTask
<1> QED
    BY <1>7, <1>8, <1>9 DEF HandleInv

\* Taking the handle of task k out of the registry into the hand of t.
LEMMA HandleTaken ==
    ASSUME TypeOK, NEW t \in AllThreads, NEW k \in Tasks, NEW at \in {"join", "nested"},
           task_join(t, k, at)
    PROVE  /\ k \in TASK_REGISTRY /\ TASK_REGISTRY' = TASK_REGISTRY \ {k}
           /\ \A u \in AllThreads : u # t => th'[u] = th[u]
           /\ \A u \in AllThreads : \A j : u # t => (Holds(u, j)' <=> Holds(u, j))
           /\ \A j : Holds(t, j)' <=> j = k
<1>1. Become(t, Place(at, k)) /\ Place(at, k).at \in {"join", "nested"} /\ Place(at, k).on = k
    BY DEF task_join, Place
<1> QED
    BY <1>1, BecomeHolds DEF task_join

LEMMA HandleAwait ==
    ASSUME HandleInv, TypeOK', NEW t \in AllThreads, NEW k \in Tasks, Await(t, k)
    PROVE  HandleInv'
<1>1. TypeOK /\ Tasks \subseteq AllThreads /\ \A j : ~Holds(t, j)
    BY RunsHolds DEF Await, HandleInv, AllThreads
<1>2. /\ k \in TASK_REGISTRY /\ TASK_REGISTRY' = TASK_REGISTRY \ {k}
      /\ \A u \in AllThreads : u # t => th'[u] = th[u]
      /\ \A u \in AllThreads : \A j : Holds(u, j)' <=> Holds(u, j) \/ (u = t /\ j = k)
    BY <1>1, HandleTaken DEF Await
<1>3. k < TASK_COUNTER /\ HandlePlaced(k)
    BY <1>1, <1>2, FiniteTasks DEF HandleInv, Unborn, TypeOK
<1>4. UNCHANGED <<TASK_COUNTER, result, refused, joins, knows, cell, mail>>
    BY DEF Await, cellVars
<1>5. ASSUME NEW j \in Tasks, j >= TASK_COUNTER' PROVE Unborn(j)'
    <2>1. j # k /\ Unborn(j) /\ j # t
        BY <1>1, <1>3, <1>4, <1>5, FiniteTasks
        DEF HandleInv, TypeOK, Unborn, Await, Runs, Running, Place
    <2> QED
        BY <1>1, <1>2, <1>4, <2>1, UntouchedUnborn, SharedStays
<1>6. HandlePlaced(k)'
    <2>1. \A u \in AllThreads : Holds(u, k)' <=> u = t
        BY <1>2, <1>3 DEF HandlePlaced
    <2>2. k \notin TASK_REGISTRY' /\ k \notin refused' /\ joins'[k] = 0
        BY <1>2, <1>3, <1>4 DEF HandlePlaced
    <2> QED
        BY <2>1, <2>2 DEF HandlePlaced
<1>7. ASSUME NEW j \in Tasks, j < TASK_COUNTER', j # k PROVE HandlePlaced(j)'
    <2>1. HandlePlaced(j)
        BY <1>4, <1>7 DEF HandleInv
    <2> QED
        BY <1>1, <1>2, <1>4, <1>7, <2>1, UntouchedTask
<1> QED
    BY <1>5, <1>6, <1>7 DEF HandleInv

LEMMA HandleJoin ==
    ASSUME HandleInv, TypeOK', NEW t \in AllThreads, Join(t)
    PROVE  HandleInv'
<1>0. PICK k \in Tasks : k = th[t].on
    BY PlaceTypes DEF Join, Collect, Joining, HandleInv, TypeOK
<1>1. TypeOK /\ Holds(t, k) /\ Tasks \subseteq AllThreads /\ th[t].at \in {"join", "nested"}
    BY <1>0 DEF Join, Collect, Joining, HandleInv, Holds, AllThreads
<1>2. k < TASK_COUNTER /\ HandlePlaced(k)
    BY <1>1, FiniteTasks DEF HandleInv, Unborn, TypeOK
<1>3. k \notin TASK_REGISTRY /\ k \notin refused /\ joins[k] = 0
    BY <1>1, <1>2 DEF HandlePlaced
<1>4. /\ UNCHANGED <<TASK_COUNTER, result, refused, cell, mail>>
      /\ joins'[k] = 1 /\ \A j \in Tasks : j # k => joins'[j] = joins[j]
    BY <1>0, <1>3 DEF Join, Collect, cellVars, HandleInv, TypeOK
<1>5. /\ \A u \in AllThreads : u # t /\ u # k => knows'[u] = knows[u]
      /\ \A u \in AllThreads : knows'[u] \subseteq knows[u] \cup knows[k]
    BY <1>0, <1>1 DEF Join, TypeOK
<1>6. \A j \in Tasks : Holds(t, j) <=> j = k
    BY <1>0, <1>1 DEF Holds
<1>7. ASSUME NEW j \in Tasks, j >= TASK_COUNTER PROVE j # k /\ Unborn(j) /\ j # t
    <2>1. j # k
        <3>1. TASK_COUNTER \in Int /\ j \in Int /\ k \in Int
            BY FiniteTasks DEF HandleInv, TypeOK
        <3> QED
            BY <1>2, <1>7, <3>1
    <2>2. Unborn(j)
        BY <1>7 DEF HandleInv
    <2>3. th[j].at = "none"
        BY <2>2 DEF Unborn, Place
    <2> QED
        BY <1>1, <2>1, <2>2, <2>3
<1>8. CASE Become(t, Running) /\ UNCHANGED TASK_REGISTRY
    <2>1. /\ \A u \in AllThreads : \A j : Holds(u, j)' <=> Holds(u, j) /\ u # t
          /\ \A u \in AllThreads : u # t => th'[u] = th[u]
        BY <1>1, <1>8, BecomeHolds DEF Running, Place
    <2>2. ASSUME NEW j \in Tasks, j >= TASK_COUNTER' PROVE Unborn(j)'
        BY <1>1, <1>4, <1>5, <1>7, <1>8, <2>1, <2>2, UntouchedUnborn, SharedStays
    <2>3. HandlePlaced(k)'
        <3>1. \A u \in AllThreads : ~Holds(u, k)'
            BY <1>1, <1>2, <2>1 DEF HandlePlaced
        <3> QED
            BY <1>3, <1>4, <1>8, <3>1 DEF HandlePlaced
    <2>4. ASSUME NEW j \in Tasks, j < TASK_COUNTER', j # k PROVE HandlePlaced(j)'
        <3>1. HandlePlaced(j)
            BY <1>4, <2>4 DEF HandleInv
        <3> QED
            BY <1>1, <1>4, <1>6, <1>8, <2>1, <2>4, <3>1, UntouchedTask
    <2> QED
        BY <2>2, <2>3, <2>4 DEF HandleInv
<1>9. ASSUME NEW m \in Tasks, task_join(t, m, "nested") PROVE HandleInv'
    <2>1. /\ m \in TASK_REGISTRY /\ TASK_REGISTRY' = TASK_REGISTRY \ {m}
          /\ \A u \in AllThreads : u # t => th'[u] = th[u]
          /\ \A u \in AllThreads : \A j : u # t => (Holds(u, j)' <=> Holds(u, j))
          /\ \A j : Holds(t, j)' <=> j = m
        BY <1>1, <1>9, HandleTaken
    <2>2. m # k /\ m < TASK_COUNTER /\ HandlePlaced(m)
        BY <1>1, <1>3, <2>1, FiniteTasks DEF HandleInv, Unborn, TypeOK
    <2>3. ASSUME NEW j \in Tasks, j >= TASK_COUNTER' PROVE Unborn(j)'
        <3>1. j # k /\ Unborn(j) /\ j # t /\ j # m
            BY <1>4, <1>7, <2>1, <2>3 DEF Unborn
        <3>2. \A u \in AllThreads : Holds(u, j)' => Holds(u, j)
            BY <2>1, <3>1
        <3> QED
            BY <1>1, <1>4, <1>5, <2>1, <3>1, <3>2, UntouchedUnborn, SharedStays
    <2>4. HandlePlaced(k)'
        <3>1. \A u \in AllThreads : ~Holds(u, k)'
            BY <1>1, <1>2, <2>1, <2>2 DEF HandlePlaced
        <3> QED
            BY <1>3, <1>4, <2>1, <3>1 DEF HandlePlaced
    <2>5. HandlePlaced(m)'
        <3>1. \A u \in AllThreads : Holds(u, m)' <=> u = t
            BY <2>1, <2>2 DEF HandlePlaced
        <3>2. m \notin refused' /\ joins'[m] = 0 /\ m \notin TASK_REGISTRY'
            BY <1>4, <2>1, <2>2 DEF HandlePlaced
        <3> QED
            BY <3>1, <3>2 DEF HandlePlaced
    <2>6. ASSUME NEW j \in Tasks, j < TASK_COUNTER', j # k, j # m PROVE HandlePlaced(j)'
        <3>1. HandlePlaced(j)
            BY <1>4, <2>6 DEF HandleInv
        <3>2. \A u \in AllThreads : Holds(u, j)' <=> Holds(u, j)
            BY <1>6, <2>1, <2>6
        <3> QED
            BY <1>1, <1>4, <2>1, <2>6, <3>1, <3>2, UntouchedTask
    <2> QED
        BY <2>3, <2>4, <2>5, <2>6 DEF HandleInv
<1>10. \/ Become(t, Running) /\ UNCHANGED TASK_REGISTRY
       \/ result[k].kind = "pending" /\ task_join(t, result[k].task, "nested")
    BY <1>0 DEF Join
<1>11. result[k].kind = "pending" => result[k].task \in Tasks
    BY <1>1, ResultTypes DEF TypeOK
<1> QED
    BY <1>8, <1>9, <1>10, <1>11

LEMMA HandleFinish ==
    ASSUME HandleInv, TypeOK', NEW t \in AllThreads, NEW r \in Results, Finish(t, r)
    PROVE  HandleInv'
<1>1. TypeOK /\ t \in Tasks /\ Tasks \subseteq AllThreads /\ \A j : ~Holds(t, j)
    BY RunsHolds DEF Finish, HandleInv, AllThreads
<1>2. /\ \A u \in AllThreads : \A j : Holds(u, j)' <=> Holds(u, j)
      /\ \A u \in AllThreads : u # t => th'[u] = th[u]
    BY <1>1, BecomeHolds DEF Finish, Place
<1>3. /\ UNCHANGED <<TASK_COUNTER, TASK_REGISTRY, refused, joins, cell, mail>>
      /\ result'[t] = r /\ \A j \in Tasks : j # t => result'[j] = result[j]
      /\ knows'[t] \subseteq knows[t] /\ \A u \in AllThreads : u # t => knows'[u] = knows[u]
    BY <1>1 DEF Finish, cellVars, TypeOK
<1>4. ASSUME NEW j \in Tasks, j >= TASK_COUNTER' PROVE Unborn(j)'
    <2>1. Unborn(j) /\ j # t
        BY <1>1, <1>3, <1>4 DEF HandleInv, Unborn, Finish, Runs, Running, Place
    <2>2. r # Pending(j)
        BY <1>1, <2>1 DEF Unborn, Finish, Pending
    <2> QED
        BY <1>1, <1>2, <1>3, <2>1, <2>2, UntouchedUnborn, SharedStays
<1>5. ASSUME NEW j \in Tasks, j < TASK_COUNTER' PROVE HandlePlaced(j)'
    BY <1>1, <1>2, <1>3, <1>5, UntouchedTask DEF HandleInv
<1> QED
    BY <1>4, <1>5 DEF HandleInv

LEMMA HandleElsewhere ==
    ASSUME HandleInv, TypeOK', Elsewhere,
           \A k : Shared(k)' => Shared(k) \/ \E t \in AllThreads : k \in knows[t],
           \A u \in AllThreads : \A k : k \in knows'[u] => k \in knows[u] \/ Shared(k),
           \A u \in AllThreads : th[u].at = "none" => knows'[u] = knows[u]
    PROVE  HandleInv'
<1>1. ASSUME NEW j \in Tasks, j >= TASK_COUNTER' PROVE Unborn(j)'
    <2>1. Unborn(j) /\ th[j].at = "none" /\ j \in AllThreads
        BY <1>1 DEF HandleInv, Unborn, Elsewhere, Place, AllThreads
    <2>2. th'[j] = th[j] /\ knows'[j] = knows[j]
        BY <2>1 DEF Elsewhere, Unborn
    <2> QED
        BY <2>1, <2>2, UntouchedUnborn DEF Elsewhere, HandleInv
<1>2. ASSUME NEW j \in Tasks, j < TASK_COUNTER' PROVE HandlePlaced(j)'
    BY <1>2, UntouchedTask DEF HandleInv, Elsewhere
<1> QED
    BY <1>1, <1>2 DEF HandleInv

LEMMA HandleStep ==
    ASSUME HandleInv, [Next]_vars
    PROVE  HandleInv'
<1> USE DEF taskVars, syncVars, cellVars
<1>0. TypeOK /\ TypeOK'
    BY TypeStep DEF HandleInv
<1>1. CASE UNCHANGED vars
    BY <1>0, <1>1 DEF vars, HandleInv, Unborn, HandlePlaced, Holds, Shared
<1>2. ASSUME NEW t \in AllThreads, NEW v \in SUBSET Tasks, RwlockWrite(t, v) PROVE HandleInv'
    <2>1. Elsewhere
        BY <1>0, <1>2, ElsewhereSteps
    <2>2. cell' \subseteq knows[t] /\ UNCHANGED <<knows, mail>>
        BY <1>2 DEF RwlockWrite
    <2>3. \A k : Shared(k)' => Shared(k) \/ k \in knows[t]
        BY <2>2 DEF Shared
    <2> QED
        BY <1>0, <2>1, <2>2, <2>3, HandleElsewhere
<1>3. ASSUME NEW t \in AllThreads, RwlockRead(t) PROVE HandleInv'
    <2>1. Elsewhere
        BY <1>0, <1>3, ElsewhereSteps
    <2>2. UNCHANGED <<cell, mail>> /\ Receive(t, cell) /\ th[t].at # "none"
        BY <1>3 DEF RwlockRead, Calling, Runs, Running, Place
    <2>3. /\ \A u \in AllThreads : knows'[u] \subseteq knows[u] \cup cell
          /\ \A u \in AllThreads : u # t => knows'[u] = knows[u]
        BY <1>0, <2>2 DEF Receive, TypeOK
    <2>4. \A u \in AllThreads : \A k : k \in knows'[u] => k \in knows[u] \/ Shared(k)
        BY <2>3 DEF Shared
    <2> QED
        BY <1>0, <2>1, <2>2, <2>3, <2>4, SharedStays, HandleElsewhere
<1>5. ASSUME NEW t \in AllThreads, NEW v \in SUBSET Tasks, ChanSend(t, v) PROVE HandleInv'
    <2>1. Elsewhere
        BY <1>0, <1>5, ElsewhereSteps
    <2>2. mail' = Append(mail, v) /\ v \subseteq knows[t] /\ UNCHANGED <<cell, knows>>
        BY <1>5 DEF ChanSend
    <2>3. mail \in Seq(SUBSET Tasks)
        BY <1>0 DEF TypeOK
    <2>4. \A i \in DOMAIN mail' : mail'[i] = v \/ (i \in DOMAIN mail /\ mail'[i] = mail[i])
        BY <2>2, <2>3
    <2>5. \A k : Shared(k)' => Shared(k) \/ k \in knows[t]
        BY <2>2, <2>4 DEF Shared
    <2> QED
        BY <1>0, <2>1, <2>2, <2>5, HandleElsewhere
<1>6. ASSUME NEW t \in AllThreads, ChanRecv(t) PROVE HandleInv'
    <2>1. Elsewhere
        BY <1>0, <1>6, ElsewhereSteps
    <2>2. /\ mail # <<>> /\ mail' = Tail(mail) /\ UNCHANGED cell /\ Receive(t, Head(mail))
          /\ th[t].at # "none"
        BY <1>6 DEF ChanRecv, Calling, Runs, Running, Place
    <2>3. mail \in Seq(SUBSET Tasks)
        BY <1>0 DEF TypeOK
    <2>4. /\ 1 \in DOMAIN mail /\ Head(mail) = mail[1]
          /\ \A i \in DOMAIN mail' : i + 1 \in DOMAIN mail /\ mail'[i] = mail[i + 1]
        BY <2>2, <2>3
    <2>5. \A k : Shared(k)' => Shared(k)
        BY <2>2, <2>4 DEF Shared
    <2>6. /\ \A u \in AllThreads : knows'[u] \subseteq knows[u] \cup mail[1]
          /\ \A u \in AllThreads : u # t => knows'[u] = knows[u]
        BY <1>0, <2>2, <2>4 DEF Receive, TypeOK
    <2>7. \A u \in AllThreads : \A k : k \in knows'[u] => k \in knows[u] \/ Shared(k)
        BY <2>4, <2>6 DEF Shared
    <2> QED
        BY <1>0, <2>1, <2>2, <2>5, <2>6, <2>7, HandleElsewhere
<1>4. ASSUME NEW t \in AllThreads,
             \/ \E w \in Groups : \/ \E delta \in Deltas : WaitGroupAdd(t, w, delta)
                                  \/ WaitGroupDone(t, w)
                                  \/ WaitGroupWait(t, w)
             \/ WaitGroupCheck(t)
             \/ SpuriousWakeup(t)
      PROVE  HandleInv'
    <2>1. Elsewhere
        BY <1>0, <1>4, ElsewhereSteps
    <2>2. UNCHANGED <<cell, mail, knows>>
        BY <1>4 DEF WaitGroupAdd, WaitGroupDone, WaitGroupWait, WaitGroupCheck, SpuriousWakeup
    <2> QED
        BY <1>0, <2>1, <2>2, SharedStays, HandleElsewhere
<1> QED
    BY <1>0, <1>1, <1>2, <1>3, <1>4, <1>5, <1>6, HandleSpawn, HandleStore, HandleAwait, HandleJoin, HandleFinish
    DEF Next, Continue, Program

\* What HandleInv says of one task, counted.
LEMMA OnePlace ==
    ASSUME TypeOK, NEW k \in Tasks, HandlePlaced(k)
    PROVE  Cardinality(Storers(k)) + Cardinality(TASK_REGISTRY \cap {k}) + Cardinality(Joiners(k))
             + joins[k] + Cardinality(refused \cap {k}) = 1
<1>1. /\ k \in TASK_REGISTRY => Cardinality(TASK_REGISTRY \cap {k}) = 1
      /\ k \notin TASK_REGISTRY => Cardinality(TASK_REGISTRY \cap {k}) = 0
    <2>1. k \in TASK_REGISTRY => TASK_REGISTRY \cap {k} = {k}
        OBVIOUS
    <2>2. k \notin TASK_REGISTRY => TASK_REGISTRY \cap {k} = {}
        OBVIOUS
    <2> QED
        BY <2>1, <2>2, FS_EmptySet, FS_Singleton
<1>2. /\ k \in refused => Cardinality(refused \cap {k}) = 1
      /\ k \notin refused => Cardinality(refused \cap {k}) = 0
    <2>1. k \in refused => refused \cap {k} = {k}
        OBVIOUS
    <2>2. k \notin refused => refused \cap {k} = {}
        OBVIOUS
    <2> QED
        BY <2>1, <2>2, FS_EmptySet, FS_Singleton
<1>3. \A t \in AllThreads : /\ t \in Storers(k) <=> Holds(t, k) /\ th[t].at = "store"
                            /\ t \in Joiners(k) <=> Holds(t, k) /\ th[t].at \in {"join", "nested"}
    <2> SUFFICES ASSUME NEW t \in AllThreads
                 PROVE  /\ t \in Storers(k) <=> Holds(t, k) /\ th[t].at = "store"
                        /\ t \in Joiners(k) <=> Holds(t, k) /\ th[t].at \in {"join", "nested"}
        OBVIOUS
    <2>1. th[t] = Place(th[t].at, th[t].on) /\ Place("store", k).at = "store" /\ Place("store", k).on = k
        BY PlaceTypes DEF TypeOK, Place
    <2>2. th[t] = Place("store", k) <=> th[t].at = "store" /\ th[t].on = k
        BY <2>1
    <2> QED
        BY <2>2 DEF Storers, Joiners, Joining, Holds
<1>4. Storers(k) \subseteq AllThreads /\ Joiners(k) \subseteq AllThreads
    BY DEF Storers, Joiners
<1>5. CASE \A t \in AllThreads : ~Holds(t, k)
    <2>1. Storers(k) = {} /\ Joiners(k) = {}
        BY <1>3, <1>4, <1>5
    <2>2. Cardinality(Storers(k)) = 0 /\ Cardinality(Joiners(k)) = 0
        BY <2>1, FS_EmptySet
    <2> QED
        BY <1>1, <1>2, <1>5, <2>2 DEF HandlePlaced
<1>6. ASSUME NEW t \in AllThreads, Holds(t, k)
      PROVE  Cardinality(Storers(k)) + Cardinality(Joiners(k)) = 1
    <2>1. \A u \in AllThreads : Holds(u, k) <=> u = t
        BY <1>6 DEF HandlePlaced
    <2>2. CASE th[t].at = "store"
        <3>1. Storers(k) = {t} /\ Joiners(k) = {}
            BY <1>3, <1>4, <2>1, <2>2
        <3>2. Cardinality(Storers(k)) = 1 /\ Cardinality(Joiners(k)) = 0
            BY <3>1, FS_EmptySet, FS_Singleton
        <3> QED
            BY <3>2
    <2>3. CASE th[t].at \in {"join", "nested"}
        <3>1. Storers(k) = {} /\ Joiners(k) = {t}
            BY <1>3, <1>4, <2>1, <2>3
        <3>2. Cardinality(Storers(k)) = 0 /\ Cardinality(Joiners(k)) = 1
            BY <3>1, FS_EmptySet, FS_Singleton
        <3> QED
            BY <3>2
    <2> QED
        BY <1>6, <2>2, <2>3 DEF Holds
<1>7. Cardinality(Storers(k)) \in Nat /\ Cardinality(Joiners(k)) \in Nat
    <2>1. IsFiniteSet(Storers(k)) /\ IsFiniteSet(Joiners(k))
        BY <1>4, FiniteTasks, FS_Subset
    <2> QED
        BY <2>1, FS_CardinalityType
<1>8. ASSUME NEW t \in AllThreads, Holds(t, k)
      PROVE  /\ Cardinality(TASK_REGISTRY \cap {k}) = 0 /\ joins[k] = 0
             /\ Cardinality(refused \cap {k}) = 0
    BY <1>1, <1>2, <1>8 DEF HandlePlaced
<1>9. CASE \E t \in AllThreads : Holds(t, k)
    <2>1. Cardinality(Storers(k)) + Cardinality(Joiners(k)) = 1
        BY <1>6, <1>9
    <2>2. /\ Cardinality(TASK_REGISTRY \cap {k}) = 0 /\ joins[k] = 0
          /\ Cardinality(refused \cap {k}) = 0
        BY <1>8, <1>9
    <2> QED
        BY <1>7, <2>1, <2>2
<1> QED
    BY <1>5, <1>9

LEMMA HandleInit ==
    ASSUME Init, TypeOK
    PROVE  HandleInv
<1>1. TASK_COUNTER = 0 /\ Tasks \subseteq Nat /\ Tasks \subseteq AllThreads /\ Main \notin Tasks
    BY FiniteTasks DEF Init, AllThreads
<1>2. \A t \in AllThreads : knows[t] = {} /\ th[t].at \in {"run", "none"}
    BY DEF Init, Running, Place
<1>3. \A k \in Tasks : result[k] = NoResult /\ joins[k] = 0 /\ th[k] = Place("none", Main) /\ knows[k] = {}
    BY <1>1 DEF Init
<1>4. \A k \in Tasks : NoResult # Pending(k)
    BY DEF NoResult, Pending
<1>5. \A k \in Tasks : Unborn(k)
    <2>1. ASSUME NEW k \in Tasks PROVE ~Shared(k) /\ k \notin TASK_REGISTRY /\ k \notin refused
        BY DEF Init, Shared
    <2> QED
        BY <1>2, <1>3, <1>4, <2>1 DEF Unborn, Holds
<1>6. \A k \in Tasks : ~(k < TASK_COUNTER)
    BY <1>1
<1> QED
    BY <1>5, <1>6 DEF HandleInv

\* The handle of every task is in exactly one place (HandleOnce), whatever
\* threads spawn and await in whatever order, so a result is collected at most once.
THEOREM HandlesOnce == Spec => []HandleOnce
<1>1. Init /\ TypeOK => HandleInv
    BY HandleInit
<1>2. HandleInv /\ [Next]_vars => HandleInv'
    BY HandleStep
<1>3. HandleInv => HandleOnce
    <2> SUFFICES ASSUME HandleInv, NEW k \in 0 .. TASK_COUNTER - 1
                 PROVE  Cardinality(Storers(k)) + Cardinality(TASK_REGISTRY \cap {k})
                          + Cardinality(Joiners(k)) + joins[k] + Cardinality(refused \cap {k}) = 1
        BY DEF HandleOnce
    <2>1. k \in Tasks /\ k < TASK_COUNTER
        BY ThreadsAssumption DEF HandleInv, TypeOK, Tasks
    <2> QED
        BY <2>1, OnePlace DEF HandleInv
<1> QED
    BY <1>1, <1>2, <1>3, TypeCorrect, PTL DEF Spec

-----------------------------------------------------------------------------
(* Wait groups.                                                            *)

LEMMA WakeupStep ==
    ASSUME TypeOK, TypeOK', NoLostWakeup, [Next]_vars
    PROVE  NoLostWakeup'
<1> USE DEF taskVars, syncVars, cellVars
<1>1. SUFFICES ASSUME NEW s \in AllThreads, th'[s].at = "asleep"
               PROVE  count'[th'[s].on] > 0 \/ th'[s].on \in silent'
    BY DEF NoLostWakeup, At
<1>2. th'[s].on \in Groups
    BY <1>1, PlaceTypes DEF TypeOK
<1>3. CASE th'[s] = th[s] /\ UNCHANGED <<count, silent>>
    BY <1>1, <1>3 DEF NoLostWakeup, At
<1>4. ASSUME NEW t \in AllThreads, NEW p, Become(t, p), p.at # "asleep", UNCHANGED <<count, silent>>
      PROVE  count'[th'[s].on] > 0 \/ th'[s].on \in silent'
    BY <1>1, <1>3, <1>4, BecomeHolds
<1>5. ASSUME NEW t \in AllThreads, Spawn(t)
      PROVE  count'[th'[s].on] > 0 \/ th'[s].on \in silent'
    <2>1. th'[s] \in {th[s], Place("store", TASK_COUNTER), Running} /\ UNCHANGED <<count, silent>>
        BY <1>5 DEF Spawn, TypeOK
    <2> QED
        BY <1>1, <1>3, <2>1 DEF Place, Running
<1>6. ASSUME NEW t \in AllThreads, NEW w \in Groups, NEW delta \in Deltas, WaitGroupAdd(t, w, delta)
      PROVE  count'[th'[s].on] > 0 \/ th'[s].on \in silent'
    <2>1. th' = th /\ \A v \in Groups : v # w => count'[v] = count[v] /\ (v \in silent' <=> v \in silent)
        BY <1>6 DEF WaitGroupAdd, TypeOK
    <2>2. count'[w] > 0 \/ w \in silent'
        BY <1>6 DEF WaitGroupAdd, TypeOK
    <2> QED
        BY <1>1, <1>2, <2>1, <2>2 DEF NoLostWakeup, At
<1>7. ASSUME NEW t \in AllThreads, NEW w \in Groups, WaitGroupDone(t, w)
      PROVE  count'[th'[s].on] > 0 \/ th'[s].on \in silent'
    <2>1. \A v \in Groups : v # w => count'[v] = count[v] /\ (v \in silent' <=> v \in silent)
        BY <1>7 DEF WaitGroupDone, TypeOK
    <2>2. CASE count'[w] > 0
        <3>1. UNCHANGED th
            BY <1>7, <2>2 DEF WaitGroupDone, TypeOK
        <3> QED
            BY <1>1, <1>2, <2>1, <2>2, <3>1 DEF NoLostWakeup, At
    <2>3. CASE NotifyAll(w)
        <3>1. th'[s] # Place("asleep", w) /\ th'[s] \in {th[s], Place("check", w)}
            BY <1>7, <2>3 DEF NotifyAll, Place
        <3>2. th'[s] = th[s] /\ th[s].on # w
            BY <1>1, <3>1, PlaceTypes DEF TypeOK, Place
        <3> QED
            BY <1>1, <1>2, <2>1, <3>2 DEF NoLostWakeup, At
    <2> QED
        BY <1>7, <2>2, <2>3 DEF WaitGroupDone
<1>8. ASSUME NEW t \in AllThreads, WaitGroupCheck(t)
      PROVE  count'[th'[s].on] > 0 \/ th'[s].on \in silent'
    <2>1. CASE s = t
        <3>1. th'[s] = IF count[th[s].on] > 0 THEN Place("asleep", th[s].on) ELSE Running
            BY <1>8, <2>1 DEF WaitGroupCheck, Become, TypeOK
        <3>2. count[th[s].on] > 0 /\ th'[s].on = th[s].on
            BY <1>1, <3>1 DEF Place, Running
        <3> QED
            BY <1>8, <3>2 DEF WaitGroupCheck
    <2>2. CASE s # t
        BY <1>3, <1>8, <2>2 DEF WaitGroupCheck, Become, TypeOK
    <2> QED
        BY <2>1, <2>2
<1>9. ASSUME NEW t \in AllThreads,
             \/ StoreTask(t) \/ Join(t) \/ SpuriousWakeup(t)
             \/ \E r \in Results : Finish(t, r)
             \/ \E k \in Tasks : Await(t, k)
             \/ \E w \in Groups : WaitGroupWait(t, w)
      PROVE  count'[th'[s].on] > 0 \/ th'[s].on \in silent'
    <2>1. UNCHANGED <<count, silent>>
        BY <1>9 DEF StoreTask, Join, SpuriousWakeup, Finish, Await, WaitGroupWait
    <2>2. \E at \in {"run", "check", "done", "join", "nested"} : \E on : Become(t, Place(at, on))
        BY <1>9 DEF StoreTask, Join, SpuriousWakeup, Finish, Await, WaitGroupWait, task_join, Running
    <2>3. \A at, on : Place(at, on).at = at
        BY DEF Place
    <2> QED
        BY <1>4, <2>1, <2>2, <2>3
<1>10. ASSUME NEW t \in AllThreads,
              RwlockRead(t) \/ ChanRecv(t) \/ \E v : RwlockWrite(t, v) \/ ChanSend(t, v)
       PROVE  count'[th'[s].on] > 0 \/ th'[s].on \in silent'
    BY <1>3, <1>10 DEF RwlockRead, RwlockWrite, ChanRecv, ChanSend
<1>11. CASE UNCHANGED vars
    BY <1>3, <1>11 DEF vars
<1> QED
    BY <1>5, <1>6, <1>7, <1>8, <1>9, <1>10, <1>11 DEF Next, Continue, Program

\* No wake-up is lost (NoLostWakeup): a thread sleeps on a wait group only
\* while the group has work, unless wait_group_add took the work away.
THEOREM WakeupsReach == Spec => []NoLostWakeup
<1>1. Init => NoLostWakeup
    BY DEF Init, NoLostWakeup, At, Running, Place
<1>2. TypeOK /\ TypeOK' /\ NoLostWakeup /\ [Next]_vars => NoLostWakeup'
    BY WakeupStep
<1> QED
    BY <1>1, <1>2, TypeCorrect, PTL DEF Spec

-----------------------------------------------------------------------------
(* Circles of awaits.  Waits is the relation "t may come to wait for u":   *)
(* t holds u's future or its handle, or has returned its future.           *)

Waits ==
    [t \in AllThreads |->
        {u \in Tasks : u \in knows[t] \/ Holds(t, u) \/ (t \in Tasks /\ result[t] = Pending(u))}]

\* No circle in f: every set of threads has one that waits for none of them.
Acyclic(f) == \A S \in (SUBSET AllThreads) \ {{}} : \E t \in S : f[t] \cap S = {}

LEMMA AcyclicShrinks ==
    ASSUME NEW f, NEW g, Acyclic(f), \A t \in AllThreads : g[t] \subseteq f[t]
    PROVE  Acyclic(g)
<1> SUFFICES ASSUME NEW S \in (SUBSET AllThreads) \ {{}}
             PROVE  \E t \in S : g[t] \cap S = {}
    BY DEF Acyclic
<1>1. PICK t \in S : f[t] \cap S = {}
    BY DEF Acyclic
<1> QED
    BY <1>1

\* g is f with a new thread k that gets the edges of t, and an edge from t to k.
Grafted(f, g, t, k) ==
    /\ t # k /\ \A u \in AllThreads : k \notin f[u]
    /\ g[t] \subseteq f[t] \cup {k} /\ g[k] \subseteq f[t]
    /\ \A u \in AllThreads : u # t /\ u # k => g[u] \subseteq f[u]

LEMMA AcyclicSpawn ==
    ASSUME NEW f, NEW g, NEW t \in AllThreads, NEW k \in AllThreads, Acyclic(f), Grafted(f, g, t, k)
    PROVE  Acyclic(g)
<1> SUFFICES ASSUME NEW S \in (SUBSET AllThreads) \ {{}}
             PROVE  \E u \in S : g[u] \cap S = {}
    BY DEF Acyclic
<1>1. CASE k \notin S
    <2>1. PICK u \in S : f[u] \cap S = {}
        BY DEF Acyclic
    <2> QED
        BY <1>1, <2>1 DEF Grafted
<1>2. CASE k \in S
    <2> DEFINE T == (S \ {k}) \cup {t}
    <2>1. T \in (SUBSET AllThreads) \ {{}}
        OBVIOUS
    <2>2. PICK u \in T : f[u] \cap T = {}
        BY <2>1 DEF Acyclic
    <2>3. CASE u # t
        BY <2>2, <2>3 DEF Grafted
    <2>4. CASE u = t
        <3>1. g[k] \cap S = {}
            BY <2>2, <2>4 DEF Grafted
        <3> QED
            BY <1>2, <3>1
    <2> QED
        BY <2>3, <2>4
<1> QED
    BY <1>1, <1>2

\* A thread t that waits for k takes over what k waits for.
LEMMA AcyclicJoin ==
    ASSUME NEW f, NEW g, NEW t \in AllThreads, NEW k \in AllThreads, Acyclic(f), k \in f[t],
           g[t] \subseteq f[t] \cup f[k],
           \A u \in AllThreads : u # t => g[u] \subseteq f[u]
    PROVE  Acyclic(g)
<1> SUFFICES ASSUME NEW S \in (SUBSET AllThreads) \ {{}}
             PROVE  \E u \in S : g[u] \cap S = {}
    BY DEF Acyclic
<1>1. PICK u \in S : f[u] \cap S = {}
    BY DEF Acyclic
<1>2. CASE u # t
    BY <1>1, <1>2
<1>3. CASE u = t
    <2>1. S \cup {k} \in (SUBSET AllThreads) \ {{}}
        OBVIOUS
    <2>2. PICK v \in S \cup {k} : f[v] \cap (S \cup {k}) = {}
        BY <2>1 DEF Acyclic
    <2>3. v # t
        BY <2>2
    <2>4. CASE v \in S
        BY <2>2, <2>3, <2>4
    <2>5. CASE v = k
        BY <1>1, <1>3, <2>2, <2>5
    <2> QED
        BY <2>4, <2>5
<1> QED
    BY <1>2, <1>3

CircleInv == passed \/ Acyclic(Waits)

LEMMA WaitsValue ==
    ASSUME NEW t \in AllThreads, NEW u
    PROVE  u \in Waits[t] <=>
              u \in Tasks /\ (u \in knows[t] \/ Holds(t, u) \/ (t \in Tasks /\ result[t] = Pending(u)))
BY DEF Waits

LEMMA WaitsValueNext ==
    ASSUME NEW t \in AllThreads, NEW u
    PROVE  u \in Waits'[t] <=>
              u \in Tasks /\ (u \in knows'[t] \/ Holds(t, u)' \/ (t \in Tasks /\ result'[t] = Pending(u)))
BY DEF Waits

LEMMA CircleStep ==
    ASSUME HandleInv, HandleInv', CircleInv, ~passed', [Next]_vars
    PROVE  Acyclic(Waits')
<1> USE DEF taskVars, syncVars, cellVars
<1>0. TypeOK /\ Tasks \subseteq AllThreads
    BY DEF HandleInv, AllThreads
<1>1. ~passed
    <2>1. CASE UNCHANGED passed
        BY <2>1
    <2>2. ASSUME NEW t \in AllThreads, RwlockRead(t) \/ ChanRecv(t) PROVE ~passed
        BY <2>2 DEF RwlockRead, ChanRecv, Receive
    <2> QED
        BY <2>1, <2>2
        DEF Next, Continue, Program, vars, Spawn, StoreTask, Finish, Await, Join, RwlockWrite,
            ChanSend, WaitGroupAdd, WaitGroupDone, WaitGroupWait, WaitGroupCheck, SpuriousWakeup
<1>2. Acyclic(Waits)
    BY <1>1 DEF CircleInv
<1>3. ASSUME \A u \in AllThreads : Waits'[u] \subseteq Waits[u] PROVE Acyclic(Waits')
    BY <1>2, <1>3, AcyclicShrinks
<1>4. ASSUME NEW t \in AllThreads, Spawn(t) PROVE Acyclic(Waits')
    <2>0. PICK n \in Tasks : n = TASK_COUNTER
        BY <1>4, SpawnHolds
    <2>1. n \in AllThreads /\ t # n
        BY <1>0, <1>4, <2>0, SpawnHolds
    <2>2. \A u \in AllThreads : \A j \in Tasks : Holds(u, j)' <=> Holds(u, j) \/ (u = t /\ j = n)
        BY <1>4, <2>0, SpawnHolds
    <2>3. Unborn(n) /\ NoResult.kind = "none" /\ \A u : Pending(u).kind = "pending"
        BY <1>0, <2>0, FiniteTasks DEF HandleInv, TypeOK, NoResult, Pending
    <2>4. /\ result' = result /\ knows'[n] = knows[t]
          /\ \A u \in AllThreads : u # n => knows'[u] = knows[u]
        BY <1>0, <1>4, <2>0, <2>1 DEF Spawn, TypeOK
    <2>5. \A u \in AllThreads : n \notin Waits[u]
        BY <2>3, WaitsValue DEF Unborn
    <2>6. Waits'[t] \subseteq Waits[t] \cup {n}
        <3>1. \A j \in Tasks : Holds(t, j)' => Holds(t, j) \/ j = n
            BY <2>2
        <3> QED
            BY <2>1, <2>4, <3>1, WaitsValue, WaitsValueNext
    <2>7. Waits'[n] \subseteq Waits[t]
        <3>1. ASSUME NEW u \in Tasks PROVE ~Holds(n, u)' /\ result'[n] # Pending(u)
            BY <2>1, <2>2, <2>3, <2>4, <3>1 DEF Unborn, Holds, Place
        <3> QED
            BY <2>1, <2>4, <3>1, WaitsValue, WaitsValueNext
    <2>8. \A u \in AllThreads : u # t /\ u # n => Waits'[u] \subseteq Waits[u]
        BY <2>2, <2>4, WaitsValue, WaitsValueNext
    <2>9. Grafted(Waits, Waits', t, n)
        BY <2>1, <2>5, <2>6, <2>7, <2>8 DEF Grafted
    <2> QED
        BY <1>2, <2>1, <2>9, AcyclicSpawn
<1>5. ASSUME NEW t \in AllThreads, StoreTask(t) PROVE Acyclic(Waits')
    <2>0. PICK k \in Tasks : k = th[t].on
        BY <1>0, <1>5, PlaceTypes DEF StoreTask, At, TypeOK
    <2>1. \A u \in AllThreads : \A j : Holds(u, j)' <=> Holds(u, j) /\ u # t
        BY <1>0, <1>5, BecomeHolds DEF StoreTask, Running, Place
    <2>2. Holds(t, k)
        BY <1>5, <2>0 DEF StoreTask, At, Holds
    <2>3. /\ result' = result /\ knows'[t] \subseteq knows[t] \cup {k}
          /\ \A u \in AllThreads : u # t => knows'[u] = knows[u]
        BY <1>0, <1>5, <2>0 DEF StoreTask, TypeOK
    <2> QED
        BY <1>3, <2>1, <2>2, <2>3, WaitsValue, WaitsValueNext
<1>6. ASSUME NEW t \in AllThreads, NEW r \in Results, Finish(t, r) PROVE Acyclic(Waits')
    <2>1. \A u \in AllThreads : \A j : Holds(u, j)' => Holds(u, j)
        BY <1>0, <1>6, BecomeHolds DEF Finish, Place
    <2>2. /\ \A u \in AllThreads : knows'[u] \subseteq knows[u]
          /\ \A u \in Tasks : result'[u] = IF u = t THEN r ELSE result[u]
        BY <1>0, <1>6 DEF Finish, TypeOK
    <2>3. \A u \in Tasks : r = Pending(u) => u \in knows[t]
        BY <1>6 DEF Finish, Pending
    <2> QED
        BY <1>3, <2>1, <2>2, <2>3, WaitsValue, WaitsValueNext
<1>7. ASSUME NEW t \in AllThreads, NEW k \in Tasks, Await(t, k) PROVE Acyclic(Waits')
    <2>1. /\ \A u \in AllThreads : \A j : u # t => (Holds(u, j)' <=> Holds(u, j))
          /\ \A j : Holds(t, j)' <=> j = k
        BY <1>0, <1>7, HandleTaken DEF Await
    <2>2. UNCHANGED <<knows, result>> /\ k \in knows[t]
        BY <1>7 DEF Await
    <2> QED
        BY <1>3, <2>1, <2>2, WaitsValue, WaitsValueNext
<1>8. ASSUME NEW t \in AllThreads, Join(t) PROVE Acyclic(Waits')
    <2>0. PICK k \in Tasks : k = th[t].on
        BY <1>0, <1>8, PlaceTypes DEF Join, Collect, Joining, TypeOK
    <2>1. Holds(t, k) /\ k \in Waits[t] /\ result' = result
        BY <1>8, <2>0, WaitsValue DEF Join, Collect, Joining, Holds
    <2>2. /\ knows'[t] \subseteq knows[t] \cup knows[k]
          /\ \A u \in AllThreads : u # t => knows'[u] \subseteq knows[u]
        BY <1>0, <1>8, <2>0 DEF Join, TypeOK
    <2>3. /\ \A u \in AllThreads : \A j : u # t => (Holds(u, j)' <=> Holds(u, j))
          /\ \A j \in Tasks : Holds(t, j)' => result[k] = Pending(j)
        <3>1. CASE Become(t, Running)
            BY <1>0, <3>1, BecomeHolds DEF Running, Place
        <3>2. CASE result[k].kind = "pending" /\ task_join(t, result[k].task, "nested")
            <4>1. result[k].task \in Tasks /\ result[k] = Pending(result[k].task)
                BY <1>0, <3>2, ResultTypes DEF TypeOK
            <4> QED
                BY <1>0, <3>2, <4>1, HandleTaken
        <3> QED
            BY <1>8, <2>0, <3>1, <3>2 DEF Join
    <2>4. Waits'[t] \subseteq Waits[t] \cup Waits[k]
        BY <1>0, <2>1, <2>2, <2>3, WaitsValue, WaitsValueNext
    <2>5. \A u \in AllThreads : u # t => Waits'[u] \subseteq Waits[u]
        BY <2>1, <2>2, <2>3, WaitsValue, WaitsValueNext
    <2> QED
        BY <1>0, <1>2, <2>1, <2>4, <2>5, AcyclicJoin
<1>9. ASSUME NEW t \in AllThreads, RwlockRead(t) \/ ChanRecv(t) PROVE Acyclic(Waits')
    <2>1. Elsewhere
        BY <1>0, <1>9, ElsewhereSteps
    <2>2. knows' = knows
        <3>1. knows \in [AllThreads -> SUBSET Tasks]
            BY <1>0 DEF TypeOK
        <3>2. \E v : Receive(t, v)
            BY <1>9 DEF RwlockRead, ChanRecv
        <3> QED
            BY <3>1, <3>2 DEF Receive
    <2> QED
        BY <1>3, <2>1, <2>2, WaitsValue, WaitsValueNext DEF Elsewhere
<1>10. ASSUME NEW t \in AllThreads,
             \/ \E v : RwlockWrite(t, v) \/ ChanSend(t, v)
             \/ \E w \in Groups : \/ \E delta \in Deltas : WaitGroupAdd(t, w, delta)
                                  \/ WaitGroupDone(t, w)
                                  \/ WaitGroupWait(t, w)
             \/ WaitGroupCheck(t)
             \/ SpuriousWakeup(t)
       PROVE  Acyclic(Waits')
    <2>1. Elsewhere
        BY <1>0, <1>10, ElsewhereSteps
    <2>2. UNCHANGED knows
        BY <1>10 DEF RwlockWrite, ChanSend, WaitGroupAdd, WaitGroupDone, WaitGroupWait, WaitGroupCheck,
                     SpuriousWakeup
    <2> QED
        BY <1>3, <2>1, <2>2, WaitsValue, WaitsValueNext DEF Elsewhere
<1>11. CASE UNCHANGED vars
    BY <1>3, <1>11 DEF vars, Waits, Holds
<1> QED
    BY <1>4, <1>5, <1>6, <1>7, <1>8, <1>9, <1>10, <1>11 DEF Next, Continue, Program

\* Awaits never wait in a circle (NoCircularAwait) as long as no thread has been
\* handed a future it did not hold by a lock or a channel: for any number of tasks,
\* whatever futures their variables, results and messages carry.
THEOREM NoCircle == Spec => []NoCircularAwait
<1>1. Init => CircleInv
    <2> SUFFICES ASSUME Init PROVE Acyclic(Waits)
        BY DEF CircleInv
    <2>1. ASSUME NEW t \in AllThreads PROVE Waits[t] = {}
        <3>1. knows[t] = {} /\ \A u : ~Holds(t, u)
            BY DEF Init, Holds, Running, Place
        <3>2. t \in Tasks => \A u : result[t] # Pending(u)
            BY DEF Init, NoResult, Pending
        <3> QED
            BY <3>1, <3>2, WaitsValue
    <2> QED
        BY <2>1 DEF Acyclic
<1>2. HandleInv /\ HandleInv' /\ CircleInv /\ [Next]_vars => CircleInv'
    <2> SUFFICES ASSUME HandleInv, HandleInv', CircleInv, [Next]_vars, ~passed'
                 PROVE  Acyclic(Waits')
        BY DEF CircleInv, Acyclic
    <2> QED
        BY CircleStep
<1>3. HandleInv /\ CircleInv => NoCircularAwait
    <2> SUFFICES ASSUME HandleInv, CircleInv, ~passed, NEW S \in (SUBSET AllThreads) \ {{}}
                 PROVE  \E t \in S : ~(Joining(t) /\ th[t].on \in S)
        BY DEF NoCircularAwait
    <2>1. PICK t \in S : Waits[t] \cap S = {}
        BY DEF CircleInv, Acyclic
    <2>2. Joining(t) => th[t].on \in Tasks /\ Holds(t, th[t].on)
        BY PlaceTypes DEF HandleInv, TypeOK, Joining, Holds
    <2> QED
        BY <2>1, <2>2, WaitsValue
<1>4. Init /\ TypeOK => HandleInv
    BY HandleInit
<1>5. HandleInv /\ [Next]_vars => HandleInv'
    BY HandleStep
<1> QED
    BY <1>1, <1>2, <1>3, <1>4, <1>5, TypeCorrect, PTL DEF Spec
=============================================================================
