--------------------------- MODULE PackagesProofs ---------------------------
(***************************************************************************)
(* Package dependencies for any processes, dependencies and contents:      *)
(* types, that only a race deletes a finished clone, and that an           *)
(* undisturbed run leaves a lock file that agrees with the sources.        *)
(***************************************************************************)
EXTENDS Packages, TLAPS

\* The exact types of the directories, the lock file and the processes.
Dirs == [is : {"absent", "empty", "partial", "clone"}, tree : Trees]
Locks == [form : {"missing", "bare", "run", "get"}, entries : SUBSET Entries]
Written(form, entries) ==
    /\ form \in {"missing", "bare"} => entries = {}
    /\ form = "run" => entries \in SUBSET (Deps \X Contents)
Cloning == {"mkdir", "clone", "cloning", "cleanup"}
Procs ==
    [at : {"idle", "check", "next", "write", "done", "read"} \cup Cloning,
     cmd : {"run", "compile", "get"}, deps : SUBSET Deps, todo : SUBSET Deps,
     on : Deps \cup {NoDep}, entries : SUBSET Entries, valid : BOOLEAN,
     sums : SUBSET Entries, fetched : BOOLEAN]

\* What a process is at fits its command and its list.
Fitting(r) ==
    /\ r.todo \subseteq r.deps
    /\ r.cmd = "get" => r.todo \subseteq GitDeps
    /\ r.cmd = "compile" => r.valid /\ r.at # "write"
    /\ r.cmd # "get" => r.entries \in SUBSET (Deps \X Contents)
    /\ IF r.at \in Cloning \cup {"read"} THEN r.on \in (r.deps \cap GitDeps) \ r.todo
                                         ELSE r.on = NoDep

TypeInv ==
    /\ toml \in SUBSET Deps /\ upstream \in [GitDeps -> Trees] /\ path \in [PathDeps -> Trees]
    /\ vendor \in [GitDeps -> Trees]
    /\ cache \in [GitDeps -> Dirs]
    /\ \A d \in GitDeps : cache[d].is # "clone" => cache[d].tree = NoSource
    /\ lock \in Locks /\ Written(lock.form, lock.entries)
    /\ proc \in [Processes -> Procs]
    /\ \A p \in Processes : Fitting(proc[p])
    /\ events \in 0 .. MaxEvents
    /\ alone \in SUBSET Processes

LEMMA DirTypes ==
    /\ {Absent, Empty, Partial} \subseteq Dirs
    /\ \A t \in Trees : Clone(t) \in Dirs
    /\ \A dir \in Dirs : (dir.is # "clone" => dir.tree = NoSource) =>
          dir \in {Absent, Empty, Partial} \cup {Clone(t) : t \in Trees}
<1>1. {Absent, Empty, Partial} \subseteq Dirs /\ \A t \in Trees : Clone(t) \in Dirs
    BY DEF Dirs, Absent, Empty, Partial, Clone, Trees
<1>2. ASSUME NEW dir \in Dirs, dir.is # "clone" => dir.tree = NoSource
      PROVE  dir \in {Absent, Empty, Partial} \cup {Clone(t) : t \in Trees}
    <2>1. CASE dir.is = "clone"
        <3>1. dir.tree \in Trees /\ dir = Clone(dir.tree)
            BY <2>1 DEF Dirs, Clone
        <3> QED
            BY <3>1
    <2>2. CASE dir.is # "clone"
        <3>1. dir.tree = NoSource /\ dir.is \in {"absent", "empty", "partial"}
            BY <1>2, <2>2 DEF Dirs
        <3> QED
            BY <3>1 DEF Dirs, Absent, Empty, Partial
    <2> QED
        BY <2>1, <2>2
<1> QED
    BY <1>1, <1>2

LEMMA IdleType == Idle \in Procs /\ Fitting(Idle) /\ Idle.at = "idle" /\ Idle.cmd = "run" /\ Idle.entries = {}
BY DEF Idle, Procs, Fitting, Cloning

LEMMA SourceType ==
    ASSUME TypeInv, NEW d \in Deps
    PROVE  /\ SourceOf(d) \in Trees
           /\ NewEntries(d) \in SUBSET Entries /\ NewEntries(d) \in SUBSET (Deps \X Contents)
<1>1. SourceOf(d) \in Trees
    BY DEF TypeInv, SourceOf, Dirs, Deps
<1> QED
    BY <1>1 DEF NewEntries, Entries, Trees

\* Replacing the record of one process by a well-formed one.
LEMMA UpdateType ==
    ASSUME TypeInv, NEW p \in Processes, NEW r \in Procs, Fitting(r), Update(p, r)
    PROVE  /\ proc' \in [Processes -> Procs] /\ proc'[p] = r
           /\ \A q \in Processes : q # p => proc'[q] = proc[q]
           /\ \A q \in Processes : Fitting(proc'[q])
<1>1. /\ proc' \in [Processes -> Procs] /\ proc'[p] = r
      /\ \A q \in Processes : q # p => proc'[q] = proc[q]
    BY DEF TypeInv, Update
<1> QED
    BY <1>1 DEF TypeInv

\* The new record of each step is well-formed.
LEMMA AdvanceType ==
    ASSUME NEW r \in Procs, Fitting(r)
    PROVE  /\ [r EXCEPT !.at = "next", !.on = NoDep] \in Procs
           /\ Fitting([r EXCEPT !.at = "next", !.on = NoDep])
           /\ [r EXCEPT !.at = "next", !.on = NoDep].todo = r.todo
           /\ [r EXCEPT !.at = "next", !.on = NoDep].entries = r.entries
BY DEF Procs, Fitting, Cloning

LEMMA GotoType ==
    ASSUME NEW r \in Procs, Fitting(r), r.at \in Cloning, NEW at \in Cloning \cup {"read"}
    PROVE  [r EXCEPT !.at = at] \in Procs /\ Fitting([r EXCEPT !.at = at])
BY DEF Procs, Fitting, Cloning

LEMMA ReadType ==
    ASSUME TypeInv, NEW p \in Processes, NEW d \in Deps
    PROVE  LET r == [Advance(p) EXCEPT !.todo = @ \ {d}, !.entries = @ \cup NewEntries(d)] IN
           /\ r \in Procs /\ Fitting(r)
           /\ r.at = "next" /\ r.cmd = proc[p].cmd /\ r.valid = proc[p].valid
           /\ r.entries = proc[p].entries \cup NewEntries(d)
<1>1. /\ proc[p] \in Procs /\ Fitting(proc[p])
      /\ NewEntries(d) \in SUBSET Entries /\ NewEntries(d) \in SUBSET (Deps \X Contents)
    BY SourceType DEF TypeInv
<1> HIDE DEF NewEntries
<1> QED
    BY <1>1 DEF Advance, Procs, Fitting, Cloning

\* Each action, as what it does to the record of its process and to the files.
LEMMA ReadSourceStep ==
    ASSUME TypeInv, NEW p \in Processes, NEW d \in Deps, ReadSource(p, d)
    PROVE  TypeInv'
<1> DEFINE r == [Advance(p) EXCEPT !.todo = @ \ {d}, !.entries = @ \cup NewEntries(d)]
<1>1. r \in Procs /\ Fitting(r)
    BY ReadType
<1>2. Update(p, r)
    BY DEF ReadSource
<1> HIDE DEF r
<1>3. proc' \in [Processes -> Procs] /\ \A q \in Processes : Fitting(proc'[q])
    BY <1>1, <1>2, UpdateType
<1> QED
    BY <1>3 DEF ReadSource, TypeInv, DisturbOthers, files

LEMMA StartStep ==
    ASSUME TypeInv, NEW p \in Processes, NEW cmd \in Commands, Start(p, cmd)
    PROVE  /\ TypeInv'
           /\ proc'[p].at \in {"check", "next"} /\ proc'[p].cmd = cmd /\ proc'[p].entries = {}
           /\ cmd = "run" => ~proc'[p].valid
           /\ \A q \in Processes : q # p => proc'[q] = proc[q]
<1> DEFINE r == [Idle EXCEPT !.at = IF cmd = "compile" THEN "next" ELSE "check",
                             !.cmd = cmd, !.deps = toml, !.valid = cmd = "compile",
                             !.todo = IF cmd = "get" THEN toml \cap GitDeps ELSE toml]
<1>1. cmd \in {"run", "compile", "get"} /\ toml \in SUBSET Deps /\ (cmd = "compile") \in BOOLEAN
    BY PackagesAssumption DEF TypeInv
<1>2. r \in Procs /\ Fitting(r)
    BY <1>1 DEF Procs, Fitting, Cloning, Idle
<1>3. /\ r.at \in {"check", "next"} /\ r.cmd = cmd /\ r.entries = {}
      /\ r.valid = (cmd = "compile")
    BY DEF Idle
<1>4. Update(p, r)
    BY DEF Start
<1> HIDE DEF r
<1>5. /\ proc' \in [Processes -> Procs] /\ \A q \in Processes : Fitting(proc'[q])
      /\ proc'[p] = r /\ \A q \in Processes : q # p => proc'[q] = proc[q]
    BY <1>2, <1>4, UpdateType
<1>6. TypeInv'
    BY <1>5 DEF Start, TypeInv, files
<1> QED
    BY <1>3, <1>5, <1>6

LEMMA CheckLockStep ==
    ASSUME TypeInv, NEW p \in Processes, CheckLock(p)
    PROVE  /\ TypeInv'
           /\ proc[p].at = "check" /\ proc'[p].at = "next" /\ proc'[p].cmd = proc[p].cmd
           /\ proc'[p].entries = proc[p].entries
           /\ proc[p].cmd = "run" => (proc'[p].valid => proc[p].valid \/ check_lock_file)
           /\ \A q \in Processes : q # p => proc'[q] = proc[q]
<1> DEFINE v == proc[p].valid \/ (proc[p].cmd = "run" /\ check_lock_file)
           c == IF proc[p].cmd = "get" /\ lock.form = "get" THEN lock.entries ELSE {}
           r == [proc[p] EXCEPT !.at = "next", !.valid = v, !.sums = c]
<1>1. proc[p] \in Procs /\ Fitting(proc[p]) /\ proc[p].at = "check"
    BY DEF TypeInv, CheckLock, At
<1>2. v \in BOOLEAN /\ c \in SUBSET Entries /\ (proc[p].valid => v)
    BY DEF TypeInv, Locks
<1>3. v => proc[p].valid \/ check_lock_file
    OBVIOUS
<1>4. Update(p, r)
    BY DEF CheckLock
<1> HIDE DEF v, c
<1>5. r \in Procs /\ Fitting(r)
    BY <1>1, <1>2 DEF Procs, Fitting, Cloning
<1>6. r.at = "next" /\ r.cmd = proc[p].cmd /\ r.entries = proc[p].entries /\ r.valid = v
    BY <1>1 DEF Procs
<1> HIDE DEF r
<1>7. /\ proc' \in [Processes -> Procs] /\ \A q \in Processes : Fitting(proc'[q])
      /\ proc'[p] = r /\ \A q \in Processes : q # p => proc'[q] = proc[q]
    BY <1>4, <1>5, UpdateType
<1>8. TypeInv'
    BY <1>7 DEF CheckLock, TypeInv, files, DisturbOthers
<1> QED
    BY <1>1, <1>3, <1>6, <1>7, <1>8

LEMMA GitDepStep ==
    ASSUME TypeInv, NEW p \in Processes, NEW d \in Deps, GitDep(p, d)
    PROVE  /\ TypeInv' /\ d \in GitDeps
           /\ proc'[p].at = (IF HasSource(cache[d]) THEN "read" ELSE "mkdir") /\ proc'[p].on = d
           /\ proc'[p].cmd = proc[p].cmd /\ proc'[p].entries = proc[p].entries
           /\ proc'[p].valid = proc[p].valid
           /\ \A q \in Processes : q # p => proc'[q] = proc[q]
<1> DEFINE r == [proc[p] EXCEPT !.at = IF HasSource(cache[d]) THEN "read" ELSE "mkdir", !.on = d,
                                !.todo = @ \ {d}]
<1>1. proc[p] \in Procs /\ Fitting(proc[p]) /\ d \in proc[p].todo \cap GitDeps /\ proc[p].cmd # "get"
    BY DEF TypeInv, GitDep
<1>2. r \in Procs /\ Fitting(r)
    BY <1>1 DEF Procs, Fitting, Cloning
<1>3. /\ r.at = (IF HasSource(cache[d]) THEN "read" ELSE "mkdir") /\ r.on = d
      /\ r.cmd = proc[p].cmd /\ r.entries = proc[p].entries /\ r.valid = proc[p].valid
    BY <1>1 DEF Procs
<1>4. Update(p, r)
    BY DEF GitDep
<1> HIDE DEF r
<1>5. /\ proc' \in [Processes -> Procs] /\ \A q \in Processes : Fitting(proc'[q])
      /\ proc'[p] = r /\ \A q \in Processes : q # p => proc'[q] = proc[q]
    BY <1>2, <1>4, UpdateType
<1>6. TypeInv'
    BY <1>5 DEF GitDep, TypeInv, files, DisturbOthers
<1> QED
    BY <1>1, <1>3, <1>5, <1>6

LEMMA GetDepStep ==
    ASSUME TypeInv, NEW p \in Processes, NEW d \in Deps, GetDep(p, d)
    PROVE  /\ TypeInv'
           /\ proc'[p].cmd = "get" /\ (proc'[p].at = "next" \/ ~HasSource(cache[d]))
           /\ proc'[p].at \in {"next", "mkdir"}
           /\ proc'[p].at = "mkdir" => proc'[p].on = d
           /\ \A q \in Processes : q # p => proc'[q] = proc[q]
<1> DEFINE known == vendor[d] # NoSource /\ \E e \in proc[p].sums : e[1] = d
           ok == <<d, vendor[d]>> \in proc[p].sums
           cached == HasSource(cache[d])
           here == (known /\ ok) \/ cached
           r == [proc[p] EXCEPT !.todo = @ \ {d},
                                !.at = IF here THEN "next" ELSE "mkdir",
                                !.on = IF here THEN NoDep ELSE d,
                                !.fetched = @ \/ (known /\ ok) \/ cached]
<1>1. proc[p] \in Procs /\ Fitting(proc[p]) /\ d \in proc[p].todo /\ d \in GitDeps /\ proc[p].cmd = "get"
    BY DEF TypeInv, GetDep, Fitting
<1>2. Update(p, r)
    BY DEF GetDep
<1>3. vendor' \in [GitDeps -> Trees]
    BY <1>1 DEF GetDep, TypeInv, Trees
<1>4. (proc[p].fetched \/ (known /\ ok) \/ cached) \in BOOLEAN
    OBVIOUS
<1> HIDE DEF known, ok, cached
<1>5. r \in Procs /\ Fitting(r)
    BY <1>1, <1>4 DEF Procs, Fitting, Cloning
<1>6. /\ r.at \in {"next", "mkdir"} /\ r.cmd = "get" /\ (r.at = "next" \/ ~cached)
      /\ r.at = "mkdir" => r.on = d
    BY <1>1 DEF Procs
<1> HIDE DEF r
<1>7. /\ proc' \in [Processes -> Procs] /\ \A q \in Processes : Fitting(proc'[q])
      /\ proc'[p] = r /\ \A q \in Processes : q # p => proc'[q] = proc[q]
    BY <1>2, <1>5, UpdateType
<1>8. TypeInv'
    BY <1>3, <1>7 DEF GetDep, TypeInv, DisturbOthers
<1> QED
    BY <1>6, <1>7, <1>8 DEF cached

\* What the steps between the test of the cache and the reading of the source
\* have in common: they touch one directory of the cache, d, and remove a source
\* from it in Cleanup only.
CloneShape(p, d) ==
    /\ d \in GitDeps /\ proc[p].on = d /\ proc[p].at \in Cloning
    /\ \A c \in GitDeps : c # d => cache'[c] = cache[c]
    /\ HasSource(cache[d]) => cache'[d] = cache[d] \/ At(p, "cleanup")
    /\ proc'[p].at \in Cloning \cup {"read", "next"}
    /\ proc'[p].at \in Cloning => proc'[p].on = d /\ (HasSource(cache'[d]) => HasSource(cache[d]))
    /\ proc'[p].cmd = proc[p].cmd /\ proc'[p].entries = proc[p].entries
    /\ proc'[p].valid = proc[p].valid
    /\ \A q \in Processes : q # p => proc'[q] = proc[q]
    /\ UNCHANGED <<path, lock>>

LEMMA GotoShape ==
    ASSUME TypeInv, NEW p \in Processes, proc[p].at \in Cloning,
           NEW at \in Cloning \cup {"read"}, Goto(p, at)
    PROVE  /\ proc' \in [Processes -> Procs] /\ \A q \in Processes : Fitting(proc'[q])
           /\ proc'[p].at = at /\ proc'[p].on = proc[p].on
           /\ proc'[p].cmd = proc[p].cmd /\ proc'[p].entries = proc[p].entries
           /\ proc'[p].valid = proc[p].valid
           /\ \A q \in Processes : q # p => proc'[q] = proc[q]
<1> DEFINE r == [proc[p] EXCEPT !.at = at]
<1>1. proc[p] \in Procs /\ Fitting(proc[p])
    BY DEF TypeInv
<1>2. r \in Procs /\ Fitting(r)
    BY <1>1, GotoType
<1>3. /\ r.at = at /\ r.on = proc[p].on
      /\ r.cmd = proc[p].cmd /\ r.entries = proc[p].entries /\ r.valid = proc[p].valid
    BY <1>1 DEF Procs
<1>4. Update(p, r)
    BY DEF Goto
<1> HIDE DEF r
<1> QED
    BY <1>2, <1>3, <1>4, UpdateType

LEMMA AdvanceShape ==
    ASSUME TypeInv, NEW p \in Processes, Update(p, Advance(p))
    PROVE  /\ proc' \in [Processes -> Procs] /\ \A q \in Processes : Fitting(proc'[q])
           /\ proc'[p].at = "next" /\ proc'[p].cmd = proc[p].cmd
           /\ proc'[p].entries = proc[p].entries /\ proc'[p].valid = proc[p].valid
           /\ \A q \in Processes : q # p => proc'[q] = proc[q]
<1>1. proc[p] \in Procs /\ Fitting(proc[p])
    BY DEF TypeInv
<1>2. Advance(p) \in Procs /\ Fitting(Advance(p))
    BY <1>1, AdvanceType DEF Advance
<1>3. /\ Advance(p).at = "next" /\ Advance(p).cmd = proc[p].cmd
      /\ Advance(p).entries = proc[p].entries /\ Advance(p).valid = proc[p].valid
    BY <1>1 DEF Advance, Procs
<1> QED
    BY <1>2, <1>3, UpdateType

LEMMA NoSourceDirs ==
    /\ ~HasSource(Absent) /\ ~HasSource(Empty) /\ ~HasSource(Partial)
    /\ Absent.is = "absent" /\ Empty.is = "empty" /\ Partial.is = "partial"
    /\ \A t : Clone(t).is = "clone" /\ Clone(t).tree = t
BY DEF HasSource, Absent, Empty, Partial, Clone

\* One directory replaced by a well-formed one.
LEMMA CacheType ==
    ASSUME TypeInv, NEW d \in GitDeps,
           NEW dir \in {Absent, Empty, Partial} \cup {Clone(t) : t \in Trees},
           cache' = [cache EXCEPT ![d] = dir]
    PROVE  /\ cache' \in [GitDeps -> Dirs] /\ cache'[d] = dir
           /\ \A c \in GitDeps : c # d => cache'[c] = cache[c]
           /\ \A c \in GitDeps : cache'[c].is # "clone" => cache'[c].tree = NoSource
<1>1. dir \in Dirs
    BY DirTypes
<1>2. dir.is # "clone" => dir.tree = NoSource
    BY NoSourceDirs DEF HasSource
<1>3. /\ cache' \in [GitDeps -> Dirs] /\ cache'[d] = dir
      /\ \A c \in GitDeps : c # d => cache'[c] = cache[c]
    BY <1>1 DEF TypeInv
<1> QED
    BY <1>2, <1>3 DEF TypeInv

LEMMA CloneSteps ==
    ASSUME TypeInv, NEW p \in Processes,
           CreateDir(p) \/ CloneBegin(p) \/ CloneEnd(p) \/ CloneFails(p) \/ Cleanup(p)
    PROVE  TypeInv' /\ \E d \in GitDeps : CloneShape(p, d)
<1>1. proc[p].at \in Cloning
    BY DEF CreateDir, CloneBegin, CloneEnd, CloneFails, Cleanup, At, Cloning
<1>2. PICK d \in GitDeps : d = proc[p].on
    BY <1>1 DEF TypeInv, Fitting
<1>3. UNCHANGED <<files, lock>> /\ alone' \in SUBSET Processes
    BY DEF CreateDir, CloneBegin, CloneEnd, CloneFails, Cleanup, DisturbOthers, TypeInv
<1>4. events' \in 0 .. MaxEvents
    BY PackagesAssumption
    DEF CreateDir, CloneBegin, CloneEnd, CloneFails, Cleanup, Event, TypeInv
<1>5. ASSUME proc' \in [Processes -> Procs], \A q \in Processes : Fitting(proc'[q]),
             cache' \in [GitDeps -> Dirs],
             \A c \in GitDeps : cache'[c].is # "clone" => cache'[c].tree = NoSource
      PROVE  TypeInv'
    BY <1>3, <1>4, <1>5 DEF TypeInv, files
<1>6. /\ cache \in [GitDeps -> Dirs]
      /\ \A c \in GitDeps : cache[c].is # "clone" => cache[c].tree = NoSource
    BY DEF TypeInv
<1>7. CASE CreateDir(p)
    <2>1. Goto(p, "clone") /\ cache' = IF cache[d] = Absent THEN [cache EXCEPT ![d] = Empty] ELSE cache
        BY <1>2, <1>7 DEF CreateDir
    <2>2. /\ cache' \in [GitDeps -> Dirs]
          /\ \A c \in GitDeps : cache'[c].is # "clone" => cache'[c].tree = NoSource
          /\ \A c \in GitDeps : c # d => cache'[c] = cache[c]
          /\ cache'[d] = cache[d] \/ (~HasSource(cache[d]) /\ ~HasSource(cache'[d]))
        <3>1. CASE cache[d] = Absent /\ cache' = [cache EXCEPT ![d] = Empty]
            BY <3>1, CacheType, NoSourceDirs
        <3>2. CASE cache' = cache
            BY <1>6, <3>2
        <3> QED
            BY <2>1, <3>1, <3>2
    <2>3. "clone" \in Cloning
        BY DEF Cloning
    <2> QED
        BY <1>1, <1>2, <1>3, <1>5, <2>1, <2>2, <2>3, GotoShape DEF CloneShape, files
<1>8. CASE CloneBegin(p)
    <2>1. "cloning" \in Cloning /\ "cleanup" \in Cloning
        BY DEF Cloning
    <2>2. CASE cache[d] \in {Absent, Empty} /\ cache' = [cache EXCEPT ![d] = Partial] /\ Goto(p, "cloning")
        <3>1. /\ cache' \in [GitDeps -> Dirs]
              /\ \A c \in GitDeps : cache'[c].is # "clone" => cache'[c].tree = NoSource
              /\ \A c \in GitDeps : c # d => cache'[c] = cache[c]
              /\ ~HasSource(cache[d]) /\ ~HasSource(cache'[d])
            BY <2>2, CacheType, NoSourceDirs
        <3> QED
            BY <1>1, <1>2, <1>3, <1>5, <2>1, <2>2, <3>1, GotoShape DEF CloneShape, files
    <2>3. CASE Goto(p, "cleanup") /\ UNCHANGED cache
        BY <1>1, <1>2, <1>3, <1>5, <1>6, <2>1, <2>3, GotoShape DEF CloneShape, files
    <2> QED
        BY <1>2, <1>8, <2>2, <2>3 DEF CloneBegin
<1>9. CASE CloneEnd(p)
    <2>1. CASE /\ cache[d] = Partial /\ cache' = [cache EXCEPT ![d] = Clone(upstream[d])]
               /\ Update(p, IF proc[p].cmd = "get" THEN [Advance(p) EXCEPT !.fetched = TRUE]
                                                   ELSE [proc[p] EXCEPT !.at = "read"])
        <3>1. /\ cache' \in [GitDeps -> Dirs]
              /\ \A c \in GitDeps : cache'[c].is # "clone" => cache'[c].tree = NoSource
              /\ \A c \in GitDeps : c # d => cache'[c] = cache[c]
              /\ ~HasSource(cache[d])
            BY <2>1, CacheType, NoSourceDirs DEF TypeInv
        <3>2. CASE proc[p].cmd = "get"
            <4> DEFINE r == [Advance(p) EXCEPT !.fetched = TRUE]
            <4>1. r \in Procs /\ Fitting(r)
                <5>1. proc[p] \in Procs /\ Fitting(proc[p])
                    BY DEF TypeInv
                <5> QED
                    BY <3>2, <5>1 DEF Advance, Procs, Fitting, Cloning
            <4>2. /\ r.at = "next" /\ r.cmd = proc[p].cmd /\ r.entries = proc[p].entries
                  /\ r.valid = proc[p].valid
                BY DEF Advance, Procs, TypeInv
            <4>3. Update(p, r)
                BY <2>1, <3>2
            <4> HIDE DEF r
            <4>4. /\ proc' \in [Processes -> Procs] /\ \A q \in Processes : Fitting(proc'[q])
                  /\ proc'[p] = r /\ \A q \in Processes : q # p => proc'[q] = proc[q]
                BY <4>1, <4>3, UpdateType
            <4>5. "next" \notin Cloning
                BY DEF Cloning
            <4> QED
                BY <1>1, <1>2, <1>3, <1>5, <3>1, <4>2, <4>4, <4>5 DEF CloneShape, files
        <3>3. CASE proc[p].cmd # "get"
            <4>1. Goto(p, "read") /\ "read" \notin Cloning
                BY <2>1, <3>3 DEF Goto, Cloning
            <4> QED
                BY <1>1, <1>2, <1>3, <1>5, <3>1, <4>1, GotoShape DEF CloneShape, files
        <3> QED
            BY <3>2, <3>3
    <2>2. CASE Goto(p, "cleanup") /\ UNCHANGED cache
        <3>1. "cleanup" \in Cloning
            BY DEF Cloning
        <3> QED
            BY <1>1, <1>2, <1>3, <1>5, <1>6, <2>2, <3>1, GotoShape DEF CloneShape, files
    <2> QED
        BY <1>2, <1>9, <2>1, <2>2 DEF CloneEnd
<1>10. CASE CloneFails(p)
    <2>1. "cleanup" \in Cloning /\ "next" \notin Cloning /\ UNCHANGED cache
        BY <1>10 DEF Cloning, CloneFails
    <2>2. CASE Goto(p, "cleanup")
        BY <1>1, <1>2, <1>3, <1>5, <1>6, <2>1, <2>2, GotoShape DEF CloneShape, files
    <2>3. CASE Update(p, Advance(p))
        BY <1>1, <1>2, <1>3, <1>5, <1>6, <2>1, <2>3, AdvanceShape DEF CloneShape, files
    <2> QED
        BY <1>10, <2>2, <2>3 DEF CloneFails
<1>11. CASE Cleanup(p)
    <2>1. cache' = [cache EXCEPT ![d] = Absent] /\ Update(p, Advance(p)) /\ At(p, "cleanup")
        BY <1>2, <1>11 DEF Cleanup
    <2>2. "next" \notin Cloning
        BY DEF Cloning
    <2> QED
        BY <1>1, <1>2, <1>3, <1>5, <2>1, <2>2, AdvanceShape, CacheType, ZenonT(40) DEF CloneShape, files
<1> QED
    BY <1>7, <1>8, <1>9, <1>10, <1>11

\* The end of a command.
LEMMA FinishStep ==
    ASSUME TypeInv, NEW p \in Processes, Finish(p)
    PROVE  /\ TypeInv'
           /\ proc[p].at = "next" /\ proc'[p].at \in {"write", "done", "idle"}
           /\ proc'[p].at = "write" => proc'[p].cmd = proc[p].cmd
           /\ proc[p].cmd = "run" => proc'[p].entries = proc[p].entries
           /\ proc'[p].at = "done" => /\ proc[p].cmd = "run" /\ UNCHANGED lock
                                      /\ proc[p].valid \/ proc[p].entries = {}
           /\ \A q \in Processes : q # p => proc'[q] = proc[q]
<1> DEFINE e == LockEntries(p)
           w == [Idle EXCEPT !.at = "write", !.cmd = proc[p].cmd, !.entries = e]
           f == [Idle EXCEPT !.at = "done", !.entries = proc[p].entries]
<1>1. proc[p] \in Procs
    BY DEF TypeInv
<1>2. e \in SUBSET Entries /\ (proc[p].cmd # "get" => e = proc[p].entries)
    BY <1>1 DEF LockEntries, Entries, TypeInv, Procs, Deps
<1> HIDE DEF e
<1>3. /\ w \in Procs /\ (proc[p].cmd # "compile" => Fitting(w))
      /\ w.at = "write" /\ w.cmd = proc[p].cmd /\ w.entries = e
      /\ f \in Procs /\ (proc[p].cmd = "run" => Fitting(f))
      /\ f.at = "done" /\ f.cmd = "run" /\ f.entries = proc[p].entries
    <2>1. Fitting(proc[p])
        BY DEF TypeInv
    <2> QED
        BY <1>1, <1>2, <2>1 DEF Procs, Fitting, Cloning, Idle
<1>4. proc[p].at = "next"
    BY DEF Finish, At
<1>5. UNCHANGED <<files, cache, events>> /\ alone' \in SUBSET Processes
    BY DEF Finish, TypeInv, DisturbOthers
<1>6. ASSUME NEW r \in Procs, Fitting(r), Update(p, r),
             lock' \in Locks, Written(lock'.form, lock'.entries)
      PROVE  TypeInv' /\ proc'[p] = r /\ \A q \in Processes : q # p => proc'[q] = proc[q]
    BY <1>5, <1>6, UpdateType DEF TypeInv, files
<1>7. CASE MustWriteLock(p)
    <2>1. Update(p, w) /\ lock' = Lock("bare", {})
        BY <1>7 DEF Finish, e
    <2>2. lock' \in Locks /\ Written(lock'.form, lock'.entries) /\ proc[p].cmd # "compile"
        BY <1>7, <2>1 DEF Lock, Locks, Written, MustWriteLock, TypeInv, Fitting
    <2> HIDE DEF w, f
    <2>3. TypeInv' /\ proc'[p] = w /\ \A q \in Processes : q # p => proc'[q] = proc[q]
        BY <1>3, <1>6, <2>1, <2>2
    <2> QED
        BY <1>2, <1>3, <1>4, <2>3
<1>8. CASE ~MustWriteLock(p) /\ proc[p].cmd = "run"
    <2>1. /\ Update(p, f) /\ UNCHANGED lock
          /\ lock' \in Locks /\ Written(lock'.form, lock'.entries)
        BY <1>8 DEF Finish, Done, TypeInv
    <2>2. proc[p].valid \/ proc[p].entries = {}
        BY <1>8 DEF MustWriteLock
    <2> HIDE DEF w, f
    <2>3. TypeInv' /\ proc'[p] = f /\ \A q \in Processes : q # p => proc'[q] = proc[q]
        BY <1>3, <1>6, <1>8, <2>1
    <2> QED
        BY <1>3, <1>4, <1>8, <2>1, <2>2, <2>3
<1>9. CASE ~MustWriteLock(p) /\ proc[p].cmd # "run"
    <2>1. /\ Update(p, Idle) /\ UNCHANGED lock
          /\ lock' \in Locks /\ Written(lock'.form, lock'.entries)
        BY <1>9 DEF Finish, Done, TypeInv
    <2>2. TypeInv' /\ proc'[p] = Idle /\ \A q \in Processes : q # p => proc'[q] = proc[q]
        BY <1>6, <2>1, IdleType
    <2> QED
        BY <1>4, <1>9, <2>2, IdleType
<1> QED
    BY <1>7, <1>8, <1>9

LEMMA WriteLockStep ==
    ASSUME TypeInv, NEW p \in Processes, WriteLock(p)
    PROVE  /\ TypeInv'
           /\ proc[p].at = "write" /\ proc'[p].at \in {"done", "idle"}
           /\ proc'[p].at = "done" => /\ proc[p].cmd = "run" /\ proc'[p].entries = proc[p].entries
                                      /\ lock'.form = "run" /\ lock'.entries = proc[p].entries
           /\ \A q \in Processes : q # p => proc'[q] = proc[q]
<1> DEFINE f == [Idle EXCEPT !.at = "done", !.entries = proc[p].entries]
<1>1. proc[p] \in Procs /\ Fitting(proc[p]) /\ proc[p].at = "write"
    BY DEF TypeInv, WriteLock, At
<1>2. /\ f \in Procs /\ f.at = "done" /\ f.entries = proc[p].entries
      /\ proc[p].cmd = "run" => Fitting(f)
    BY <1>1 DEF Procs, Fitting, Cloning, Idle
<1>3. /\ lock' \in Locks /\ lock'.form = proc[p].cmd /\ lock'.entries = proc[p].entries
      /\ Written(lock'.form, lock'.entries)
    <2>1. /\ proc[p].cmd \in {"run", "get"} /\ proc[p].entries \in SUBSET Entries
          /\ proc[p].cmd = "run" => proc[p].entries \in SUBSET (Deps \X Contents)
        BY <1>1 DEF TypeInv, Fitting, Procs
    <2> QED
        BY <2>1 DEF WriteLock, Lock, Locks, Written
<1>4. UNCHANGED <<files, cache, events>> /\ alone' \in SUBSET Processes
    BY DEF WriteLock, TypeInv, DisturbOthers
<1>5. ASSUME NEW r \in Procs, Fitting(r), Update(p, r)
      PROVE  TypeInv' /\ proc'[p] = r /\ \A q \in Processes : q # p => proc'[q] = proc[q]
    BY <1>3, <1>4, <1>5, UpdateType DEF TypeInv, files
<1>6. CASE proc[p].cmd = "run"
    <2>1. Update(p, f)
        BY <1>6 DEF WriteLock, Done
    <2> HIDE DEF f
    <2>2. TypeInv' /\ proc'[p] = f /\ \A q \in Processes : q # p => proc'[q] = proc[q]
        BY <1>2, <1>5, <1>6, <2>1
    <2> QED
        BY <1>1, <1>2, <1>3, <1>6, <2>2
<1>7. CASE proc[p].cmd # "run"
    <2>1. Update(p, Idle)
        BY <1>7 DEF WriteLock, Done
    <2>2. TypeInv' /\ proc'[p] = Idle /\ \A q \in Processes : q # p => proc'[q] = proc[q]
        BY <1>5, <2>1, IdleType
    <2> QED
        BY <1>1, <2>2, IdleType
<1> QED
    BY <1>6, <1>7

LEMMA CrashStep ==
    ASSUME TypeInv, NEW p \in Processes, Crash(p)
    PROVE  /\ TypeInv' /\ proc'[p].at = "idle"
           /\ \A q \in Processes : q # p => proc'[q] = proc[q]
<1>1. Update(p, Idle)
    BY DEF Crash
<1>2. /\ proc' \in [Processes -> Procs] /\ \A q \in Processes : Fitting(proc'[q])
      /\ proc'[p] = Idle /\ \A q \in Processes : q # p => proc'[q] = proc[q]
    BY <1>1, IdleType, UpdateType
<1>3. events' \in 0 .. MaxEvents
    BY PackagesAssumption DEF Crash, Event, TypeInv
<1> QED
    BY <1>2, <1>3, IdleType DEF Crash, TypeInv, files, DisturbOthers

LEMMA EditStep ==
    ASSUME TypeInv, EditToml \/ EditSources \/ UpdateLock
    PROVE  TypeInv'
<1>1. UNCHANGED <<cache, proc>> /\ alone' = {} /\ events' \in 0 .. MaxEvents
    BY PackagesAssumption DEF EditToml, EditSources, UpdateLock, Edit, Event, TypeInv
<1>2. lock' \in Locks /\ Written(lock'.form, lock'.entries)
    BY DEF EditToml, EditSources, UpdateLock, TypeInv, Lock, Locks, Written
<1>3. toml' \in SUBSET Deps
    BY DEF EditToml, EditSources, UpdateLock, TypeInv, files
<1>4. upstream' \in [GitDeps -> Trees] /\ path' \in [PathDeps -> Trees] /\ vendor' \in [GitDeps -> Trees]
    BY DEF EditToml, EditSources, UpdateLock, TypeInv, files
<1> QED
    BY <1>1, <1>2, <1>3, <1>4 DEF TypeInv

LEMMA TypeStep ==
    ASSUME TypeInv, [Next]_vars
    PROVE  TypeInv'
<1>1. CASE UNCHANGED vars
    BY <1>1 DEF vars, files, TypeInv
<1>2. ASSUME NEW p \in Processes, NEW d \in Deps, PathDep(p, d) PROVE TypeInv'
    BY <1>2, ReadSourceStep DEF PathDep
<1>3. ASSUME NEW p \in Processes, ReadClone(p) PROVE TypeInv'
    <2>1. proc[p].on \in Deps
        BY <1>3 DEF ReadClone, At, TypeInv, Fitting, Deps
    <2> QED
        BY <1>3, <2>1, ReadSourceStep DEF ReadClone
<1> QED
    BY <1>1, <1>2, <1>3, GitDepStep, GetDepStep, CloneSteps, FinishStep, WriteLockStep, CrashStep,
       StartStep, CheckLockStep, EditStep
    DEF Next, Step

LEMMA TypeInit ==
    ASSUME Init
    PROVE  TypeInv
<1>1. proc \in [Processes -> Procs] /\ \A p \in Processes : Fitting(proc[p])
    BY IdleType DEF Init
<1>2. cache \in [GitDeps -> Dirs] /\ \A d \in GitDeps : cache[d].is # "clone" => cache[d].tree = NoSource
    BY DirTypes DEF Init, Absent
<1>3. lock \in Locks /\ Written(lock.form, lock.entries)
    BY DEF Init, NoLock, Lock, Locks, Written
<1>4. vendor \in [GitDeps -> Trees] /\ upstream \in [GitDeps -> Trees] /\ path \in [PathDeps -> Trees]
    BY PackagesAssumption DEF Init, Trees
<1> QED
    BY <1>1, <1>2, <1>3, <1>4, PackagesAssumption DEF Init, TypeInv

\* Types (TypeOK): a process that creates, fills, removes or reads a clone does so
\* for a git dependency of its magi.toml that it has taken off its list, and a lock
\* file of magi run has no entry for a source that could not be read.
THEOREM TypeCorrect == Spec => []TypeOK
<1>1. TypeInv => TypeOK
    <2> SUFFICES ASSUME TypeInv PROVE TypeOK
        OBVIOUS
    <2>1. \A d \in GitDeps : cache[d] \in {Absent, Empty, Partial} \cup {Clone(t) : t \in Trees}
        BY DirTypes DEF TypeInv
    <2>2. \/ lock.form \in {"missing", "bare"} /\ lock.entries = {}
          \/ lock.form = "run" /\ lock.entries \in SUBSET (Deps \X Contents)
          \/ lock.form = "get" /\ lock.entries \in SUBSET Entries
        BY DEF TypeInv, Locks, Written
    <2>3. ASSUME NEW p \in Processes
          PROVE  /\ proc[p].deps \in SUBSET Deps /\ proc[p].todo \in SUBSET proc[p].deps
                 /\ proc[p].entries \in SUBSET Entries /\ proc[p].sums \in SUBSET Entries
                 /\ IF proc[p].at \in {"mkdir", "clone", "cloning", "cleanup", "read"}
                    THEN proc[p].on \in (proc[p].deps \cap GitDeps) \ proc[p].todo
                    ELSE proc[p].at \in {"idle", "check", "next", "write", "done"} /\ proc[p].on = NoDep
        BY DEF TypeInv, Procs, Fitting, Cloning
    <2> QED
        BY <2>1, <2>2, <2>3 DEF TypeInv, TypeOK
<1>2. TypeInv /\ [Next]_vars => TypeInv'
    BY TypeStep
<1>3. Init => TypeInv
    BY TypeInit
<1> QED
    BY <1>1, <1>2, <1>3, PTL DEF Spec

-----------------------------------------------------------------------------
(* A process that nothing has disturbed.                                   *)

\* An entry of a lock file that is right.
Agrees(e) == SourceOf(e[1]) = e[2] /\ e[2] # NoSource

AloneInv ==
    \A p \in alone :
        /\ \A q \in alone : q = p
        /\ \A q \in Processes : q # p => Quiet(q)
        /\ proc[p].at \in Cloning => ~HasSource(cache[proc[p].on])
        /\ proc[p].cmd = "run" /\ ~Quiet(p) => \A e \in proc[p].entries : Agrees(e)
        /\ proc[p].cmd = "run" /\ proc[p].at \notin {"idle", "done", "write"} /\ proc[p].valid =>
              lock.form = "run" /\ \A f \in lock.entries : Agrees(f)
        /\ At(p, "done") /\ proc[p].entries # {} =>
              /\ lock.form = "run"
              /\ \A e \in proc[p].entries : Agrees(e)
              /\ \A f \in lock.entries : Agrees(f)

\* The shape of AloneInv after a step of process p, which is the only one
\* that can still be alone.
LEMMA AloneBy ==
    ASSUME TypeInv, TypeInv', AloneInv, NEW p \in Processes, DisturbOthers(p),
           \A q \in Processes : q # p => proc'[q] = proc[q],
           p \in alone =>
               /\ proc'[p].at \in Cloning => ~HasSource(cache'[proc'[p].on])
               /\ proc'[p].cmd = "run" /\ ~Quiet(p)' => \A e \in proc'[p].entries : Agrees(e)'
               /\ proc'[p].cmd = "run" /\ proc'[p].at \notin {"idle", "done", "write"} /\ proc'[p].valid =>
                     lock'.form = "run" /\ \A f \in lock'.entries : Agrees(f)'
               /\ At(p, "done")' /\ proc'[p].entries # {} =>
                     /\ lock'.form = "run"
                     /\ \A e \in proc'[p].entries : Agrees(e)'
                     /\ \A f \in lock'.entries : Agrees(f)'
    PROVE  AloneInv'
<1> SUFFICES ASSUME p \in alone, alone' = {p}
             PROVE  AloneInv'
    <2>1. alone' = {} \/ (alone' = {p} /\ p \in alone)
        BY DEF DisturbOthers
    <2> QED
        BY <2>1 DEF AloneInv
<1>1. \A q \in Processes : q # p => Quiet(q)'
    BY DEF AloneInv, Quiet
<1> QED
    BY <1>1 DEF AloneInv

\* Steps that leave every source where it is keep an entry right.
LEMMA AgreesKeeps ==
    ASSUME TypeInv, UNCHANGED path,
           \A d \in GitDeps : HasSource(cache[d]) => cache'[d] = cache[d],
           NEW e, e \in Entries, Agrees(e)
    PROVE  Agrees(e)'
<1>1. e[1] \in Deps
    BY DEF Entries
<1>2. CASE e[1] \in GitDeps
    <2>1. HasSource(cache[e[1]])
        BY <1>2 DEF Agrees, SourceOf, HasSource
    <2> QED
        BY <1>2, <2>1 DEF Agrees, SourceOf
<1>3. CASE e[1] \notin GitDeps
    BY <1>3 DEF Agrees, SourceOf
<1> QED
    BY <1>2, <1>3

LEMMA AloneClone ==
    ASSUME TypeInv, TypeInv', AloneInv, NEW p \in Processes, NEW d \in GitDeps, CloneShape(p, d),
           DisturbOthers(p)
    PROVE  AloneInv'
<1> SUFFICES ASSUME p \in alone
             PROVE  /\ proc'[p].at \in Cloning => ~HasSource(cache'[proc'[p].on])
                    /\ \A e \in Entries : Agrees(e) => Agrees(e)'
    <2>1. ~Quiet(p) /\ proc'[p].at \notin {"idle", "done"} /\ proc[p].at \notin {"idle", "done", "write"}
        BY DEF CloneShape, Cloning, Quiet
    <2>2. /\ proc'[p].cmd = proc[p].cmd /\ proc'[p].entries = proc[p].entries
          /\ proc'[p].valid = proc[p].valid /\ lock' = lock
          /\ \A q \in Processes : q # p => proc'[q] = proc[q]
        BY DEF CloneShape
    <2>3. proc[p].entries \subseteq Entries /\ lock.entries \subseteq Entries
        BY DEF TypeInv, Procs, Locks
    <2> QED
        BY <2>1, <2>2, <2>3, AloneBy DEF AloneInv, At
<1>1. ~HasSource(cache[d])
    BY DEF AloneInv, CloneShape
<1>2. \A c \in GitDeps : HasSource(cache[c]) => cache'[c] = cache[c]
    BY <1>1 DEF CloneShape
<1>3. \A e \in Entries : Agrees(e) => Agrees(e)'
    BY <1>2, AgreesKeeps DEF CloneShape
<1>4. proc'[p].at \in Cloning => ~HasSource(cache'[proc'[p].on])
    BY <1>1 DEF CloneShape
<1> QED
    BY <1>3, <1>4

LEMMA AloneRead ==
    ASSUME TypeInv, TypeInv', AloneInv, NEW p \in Processes, NEW d \in Deps, ReadSource(p, d),
           proc[p].at \in {"next", "read"}
    PROVE  AloneInv'
<1> DEFINE r == [Advance(p) EXCEPT !.todo = @ \ {d}, !.entries = @ \cup NewEntries(d)]
<1>1. /\ r \in Procs /\ Fitting(r)
      /\ r.at = "next" /\ r.cmd = proc[p].cmd /\ r.valid = proc[p].valid
      /\ r.entries = proc[p].entries \cup NewEntries(d)
    BY ReadType
<1>2. Update(p, r) /\ UNCHANGED <<path, cache, lock>> /\ DisturbOthers(p)
    BY DEF ReadSource, files
<1> HIDE DEF r
<1>3. proc'[p] = r /\ \A q \in Processes : q # p => proc'[q] = proc[q]
    BY <1>1, <1>2, UpdateType
<1>4. \A e : Agrees(e)' <=> Agrees(e)
    BY <1>2 DEF Agrees, SourceOf
<1>5. \A e \in NewEntries(d) : Agrees(e)
    BY DEF NewEntries, Agrees
<1>6. "next" \notin Cloning
    BY DEF Cloning
<1> QED
    BY <1>1, <1>2, <1>3, <1>4, <1>5, <1>6, AloneBy DEF AloneInv, Quiet, At

LEMMA AloneStep ==
    ASSUME TypeInv, TypeInv', AloneInv, [Next]_vars
    PROVE  AloneInv'
<1>1. CASE UNCHANGED vars
    BY <1>1 DEF vars, files, AloneInv, Quiet, At, Agrees, SourceOf
<1>2. CASE alone' = {}
    BY <1>2 DEF AloneInv
<1>3. ASSUME NEW p \in Processes, NEW cmd \in Commands, Start(p, cmd) PROVE AloneInv'
    <2>1. SUFFICES ASSUME alone' = {p}, \A q \in Processes \ {p} : Quiet(q) PROVE AloneInv'
        BY <1>2, <1>3 DEF Start, Quiet
    <2>2. /\ proc'[p].at \in {"check", "next"} /\ proc'[p].cmd = cmd /\ proc'[p].entries = {}
          /\ cmd = "run" => ~proc'[p].valid
          /\ \A q \in Processes : q # p => proc'[q] = proc[q]
        BY <1>3, StartStep
    <2>3. "next" \notin Cloning /\ "check" \notin Cloning
        BY DEF Cloning
    <2> QED
        BY <2>1, <2>2, <2>3 DEF AloneInv, Quiet, At
<1>13. ASSUME NEW p \in Processes, CheckLock(p) PROVE AloneInv'
    <2>1. UNCHANGED <<path, cache, lock>> /\ DisturbOthers(p)
        BY <1>13 DEF CheckLock, files
    <2>2. /\ proc[p].at = "check" /\ proc'[p].at = "next" /\ proc'[p].cmd = proc[p].cmd
          /\ proc'[p].entries = proc[p].entries
          /\ proc[p].cmd = "run" => (proc'[p].valid => proc[p].valid \/ check_lock_file)
          /\ \A q \in Processes : q # p => proc'[q] = proc[q]
        BY <1>13, CheckLockStep
    <2>3. \A e : Agrees(e)' <=> Agrees(e)
        BY <2>1 DEF Agrees, SourceOf
    <2>4. check_lock_file => lock.form = "run" /\ \A f \in lock.entries : Agrees(f)
        BY DEF check_lock_file, Agrees
    <2>5. "next" \notin Cloning
        BY DEF Cloning
    <2> QED
        BY <2>1, <2>2, <2>3, <2>4, <2>5, AloneBy DEF AloneInv, Quiet, At
<1>4. ASSUME NEW p \in Processes, NEW d \in Deps, PathDep(p, d) PROVE AloneInv'
    BY <1>4, AloneRead DEF PathDep, At
<1>5. ASSUME NEW p \in Processes, ReadClone(p) PROVE AloneInv'
    <2>1. proc[p].on \in Deps
        BY <1>5 DEF ReadClone, At, TypeInv, Fitting, Deps
    <2> QED
        BY <1>5, <2>1, AloneRead DEF ReadClone, At
<1>6. ASSUME NEW p \in Processes, NEW d \in Deps, GitDep(p, d) PROVE AloneInv'
    <2>1. UNCHANGED <<path, cache, lock>> /\ DisturbOthers(p) /\ proc[p].at = "next"
        BY <1>6 DEF GitDep, files, At
    <2>2. /\ proc'[p].at = (IF HasSource(cache[d]) THEN "read" ELSE "mkdir") /\ proc'[p].on = d
          /\ proc'[p].cmd = proc[p].cmd /\ proc'[p].entries = proc[p].entries
          /\ proc'[p].valid = proc[p].valid
          /\ \A q \in Processes : q # p => proc'[q] = proc[q]
        BY <1>6, GitDepStep
    <2>3. \A e : Agrees(e)' <=> Agrees(e)
        BY <2>1 DEF Agrees, SourceOf
    <2>4. proc'[p].at \in Cloning => ~HasSource(cache'[proc'[p].on])
        BY <2>1, <2>2 DEF Cloning
    <2> QED
        BY <2>1, <2>2, <2>3, <2>4, AloneBy DEF AloneInv, Quiet, At
<1>7. ASSUME NEW p \in Processes, NEW d \in Deps, GetDep(p, d) PROVE AloneInv'
    <2>1. UNCHANGED <<path, cache, lock>> /\ DisturbOthers(p)
        BY <1>7 DEF GetDep
    <2>2. /\ proc'[p].cmd = "get" /\ (proc'[p].at = "next" \/ ~HasSource(cache[d]))
          /\ proc'[p].at \in {"next", "mkdir"}
          /\ proc'[p].at = "mkdir" => proc'[p].on = d
          /\ \A q \in Processes : q # p => proc'[q] = proc[q]
        BY <1>7, GetDepStep
    <2>3. proc'[p].at \in Cloning => ~HasSource(cache'[proc'[p].on])
        BY <2>1, <2>2 DEF Cloning
    <2> QED
        BY <2>1, <2>2, <2>3, AloneBy DEF At
<1>8. ASSUME NEW p \in Processes,
             CreateDir(p) \/ CloneBegin(p) \/ CloneEnd(p) \/ CloneFails(p) \/ Cleanup(p)
      PROVE  AloneInv'
    <2>1. DisturbOthers(p)
        BY <1>8 DEF CreateDir, CloneBegin, CloneEnd, CloneFails, Cleanup
    <2> QED
        BY <1>8, <2>1, CloneSteps, AloneClone
<1>9. ASSUME NEW p \in Processes, Finish(p) PROVE AloneInv'
    <2>1. UNCHANGED <<path, cache>> /\ DisturbOthers(p)
        BY <1>9 DEF Finish, files
    <2>2. \A e : Agrees(e)' <=> Agrees(e)
        BY <2>1 DEF Agrees, SourceOf
    <2>3. /\ proc[p].at = "next" /\ proc'[p].at \in {"write", "done", "idle"}
          /\ proc'[p].at = "write" => proc'[p].cmd = proc[p].cmd
          /\ proc[p].cmd = "run" => proc'[p].entries = proc[p].entries
          /\ proc'[p].at = "done" => /\ proc[p].cmd = "run" /\ UNCHANGED lock
                                     /\ proc[p].valid \/ proc[p].entries = {}
          /\ \A q \in Processes : q # p => proc'[q] = proc[q]
        BY <1>9, FinishStep
    <2>4. proc'[p].at \notin Cloning
        BY <2>3 DEF Cloning
    <2> QED
        BY <2>1, <2>2, <2>3, <2>4, AloneBy DEF AloneInv, Quiet, At
<1>10. ASSUME NEW p \in Processes, WriteLock(p) PROVE AloneInv'
    <2>1. UNCHANGED <<path, cache>> /\ DisturbOthers(p)
        BY <1>10 DEF WriteLock, files
    <2>2. \A e : Agrees(e)' <=> Agrees(e)
        BY <2>1 DEF Agrees, SourceOf
    <2>3. /\ proc[p].at = "write" /\ proc'[p].at \in {"done", "idle"}
          /\ proc'[p].at = "done" => /\ proc[p].cmd = "run" /\ proc'[p].entries = proc[p].entries
                                     /\ lock'.form = "run" /\ lock'.entries = proc[p].entries
          /\ \A q \in Processes : q # p => proc'[q] = proc[q]
        BY <1>10, WriteLockStep
    <2>4. proc'[p].at \notin Cloning
        BY <2>3 DEF Cloning
    <2> QED
        BY <2>1, <2>2, <2>3, <2>4, AloneBy DEF AloneInv, Quiet, At
<1>11. ASSUME NEW p \in Processes, Crash(p) PROVE AloneInv'
    <2>1. DisturbOthers(p) /\ proc'[p].at = "idle" /\ \A q \in Processes : q # p => proc'[q] = proc[q]
        BY <1>11, CrashStep DEF Crash
    <2> QED
        BY <2>1, AloneBy DEF Quiet, At, Cloning
<1>12. CASE EditToml \/ EditSources \/ UpdateLock
    BY <1>2, <1>12 DEF EditToml, EditSources, UpdateLock, Edit
<1> QED
    BY <1>1, <1>3, <1>4, <1>5, <1>6, <1>7, <1>8, <1>9, <1>10, <1>11, <1>12, <1>13
    DEF Next, Step

-----------------------------------------------------------------------------
\* A magi run that nothing has disturbed leaves a lock file that agrees with what it
\* read and with what is still there (LockAgrees), whatever crashes came before.
THEOREM UndisturbedLock == Spec => []LockAgrees
<1>1. Init => TypeInv /\ AloneInv
    BY TypeInit DEF Init, AloneInv
<1>2. TypeInv /\ [Next]_vars => TypeInv'
    BY TypeStep
<1>3. TypeInv /\ TypeInv' /\ AloneInv /\ [Next]_vars => AloneInv'
    BY AloneStep
<1>4. TypeInv /\ AloneInv => LockAgrees
    <2> SUFFICES ASSUME TypeInv, AloneInv, NEW p \in alone, At(p, "done"), proc[p].entries # {}
                 PROVE  /\ lock.form = "run"
                        /\ \A e \in proc[p].entries, f \in lock.entries :
                              e[1] = f[1] => e = f /\ SourceOf(e[1]) = e[2]
        BY DEF LockAgrees
    <2>1. /\ lock.form = "run" /\ \A e \in proc[p].entries : Agrees(e)
          /\ \A f \in lock.entries : Agrees(f)
        BY DEF AloneInv
    <2>2. proc[p].entries \subseteq Entries /\ lock.entries \subseteq Entries
        BY DEF TypeInv, Procs, Locks
    <2>3. ASSUME NEW e \in Entries, NEW f \in Entries, e[1] = f[1], e[2] = f[2] PROVE e = f
        BY <2>3 DEF Entries
    <2> QED
        BY <2>1, <2>2, <2>3 DEF Agrees
<1> QED
    BY <1>1, <1>2, <1>3, <1>4, PTL DEF Spec

\* A finished clone goes only when two commands race (OnlyRacesDelete): a command
\* that has had the files to itself since it began never deletes one.
THEOREM DeletesRace == Spec => OnlyRacesDelete
<1>1. Init => TypeInv /\ AloneInv
    BY TypeInit DEF Init, AloneInv
<1>2. TypeInv /\ [Next]_vars => TypeInv'
    BY TypeStep
<1>3. TypeInv /\ TypeInv' /\ AloneInv /\ [Next]_vars => AloneInv'
    BY AloneStep
<1>4. TypeInv /\ AloneInv /\ [Next]_vars =>
         [\A d \in GitDeps : HasSource(cache[d]) /\ ~HasSource(cache'[d]) =>
             \E p \in Processes \ alone : At(p, "cleanup") /\ proc[p].on = d]_vars
    <2> SUFFICES ASSUME TypeInv, AloneInv, [Next]_vars,
                        NEW d \in GitDeps, HasSource(cache[d]), ~HasSource(cache'[d])
                 PROVE  \E p \in Processes \ alone : At(p, "cleanup") /\ proc[p].on = d
        OBVIOUS
    <2>1. cache' # cache
        OBVIOUS
    <2>2. PICK p \in Processes :
              CreateDir(p) \/ CloneBegin(p) \/ CloneEnd(p) \/ CloneFails(p) \/ Cleanup(p)
        BY <2>1, ZenonT(40) DEF Next, Step, vars, PathDep, ReadSource, GitDep, GetDep, ReadClone, CheckLock,
                    Finish, WriteLock,
                    Crash, Start, EditToml, EditSources, UpdateLock, Edit
    <2>3. PICK c \in GitDeps : CloneShape(p, c)
        BY <2>2, CloneSteps
    <2>4. c = d /\ At(p, "cleanup")
        BY <2>3 DEF CloneShape
    <2>5. p \notin alone
        BY <2>3, <2>4 DEF CloneShape, AloneInv
    <2> QED
        BY <2>3, <2>4, <2>5 DEF CloneShape
<1> QED
    BY <1>1, <1>2, <1>3, <1>4, PTL DEF Spec, OnlyRacesDelete
=============================================================================
