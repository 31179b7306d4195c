------------------------------ MODULE Packages ------------------------------
(***************************************************************************)
(* Package dependencies of the magi command line (src/src/bin/magi.rs):    *)
(* magi run, compile, get and update as processes over the files they      *)
(* share: magi.toml and magi.lock of the project, the clones under         *)
(* ~/.magi/cache, and the directories packages/<id>.  A process may be     *)
(* killed between any two steps; nothing locks the files.                  *)
(*                                                                         *)
(* What a source file holds is a content; two contents with the same hash  *)
(* are the same.  A clone may hold no source.magi at all (NoSource).  git  *)
(* is external: it refuses a directory that is not empty, and source.magi  *)
(* appears when the checkout ends.                                         *)
(***************************************************************************)
EXTENDS Naturals, FiniteSets

CONSTANTS
    Processes,   \* commands that may run at the same time
    Commands,    \* which of "run", "compile", "get" they are
    GitDeps,     \* dependencies with a git source
    PathDeps,    \* dependencies with a path
    Contents,    \* contents of a source file
    NoSource,    \* a directory without source.magi
    Initial,     \* what dependencies hold at first
    MaxEvents    \* bound of the model: changes from outside, failures of git, kills

Deps == GitDeps \cup PathDeps
Trees == Contents \cup {NoSource}

ASSUME PackagesAssumption ==
    /\ GitDeps \cap PathDeps = {} /\ NoSource \notin Contents /\ Initial \subseteq Trees
    /\ Commands \subseteq {"run", "compile", "get"}
    /\ MaxEvents \in Nat

VARIABLES
    toml,      \* the dependencies magi.toml declares
    upstream,  \* git dependency -> what a clone of it would hold
    path,      \* path dependency -> what its directory holds
    vendor,    \* git dependency -> what packages/<id> holds
    cache,     \* git dependency -> its directory under ~/.magi/cache
    lock,      \* magi.lock
    proc,      \* process -> its command and how far it is
    events,    \* changes from outside, failures of git and kills so far
    alone      \* history: processes that nothing has disturbed since they began

files == <<toml, upstream, path, vendor>>
vars == <<files, cache, lock, proc, events, alone>>

\* A directory of the cache: not there, there and empty, being filled by git
\* on behalf of a process, or a finished clone.
Absent == [is |-> "absent", tree |-> NoSource]
Empty == [is |-> "empty", tree |-> NoSource]
Partial == [is |-> "partial", tree |-> NoSource]
Clone(tree) == [is |-> "clone", tree |-> tree]
HasSource(dir) == dir.tree # NoSource

\* magi.lock: missing, without packages (truncated, or left by magi update),
\* in the format of magi run (id, path, hash) or in that of magi get (name,
\* checksum).  An entry is <<id, content>>, NoSource for "sha256:none".
Lock(form, entries) == [form |-> form, entries |-> entries]
NoLock == Lock("missing", {})

\* deps: what magi.toml declared; todo: dependencies still to go through; on: the
\* one it is at; entries: its lock entries so far; valid: what check_lock_file said;
\* sums: the checksums magi get has read; fetched: its counter.
NoDep == "-"
Idle == [at |-> "idle", cmd |-> "run", deps |-> {}, todo |-> {}, on |-> NoDep, entries |-> {},
         valid |-> TRUE, sums |-> {}, fetched |-> FALSE]
At(p, at) == proc[p].at = at
Update(p, r) == proc' = [proc EXCEPT ![p] = r]
Goto(p, at) == Update(p, [proc[p] EXCEPT !.at = at])

Advance(p) == [proc[p] EXCEPT !.at = "next", !.on = NoDep]

Event == events < MaxEvents /\ events' = events + 1

\* Every step of p disturbs the others, one that begins a command excepted.
DisturbOthers(p) == alone' = alone \cap {p}

Init ==
    /\ toml = Deps
    /\ upstream \in [GitDeps -> Initial] /\ path \in [PathDeps -> Initial]
    /\ vendor = [d \in GitDeps |-> NoSource]
    /\ cache = [d \in GitDeps |-> Absent]
    /\ lock = NoLock
    /\ proc = [p \in Processes |-> Idle]
    /\ events = 0
    /\ alone = {}

-----------------------------------------------------------------------------
(* The commands: magi.toml is read once, at the beginning.                 *)

SourceOf(d) == IF d \in GitDeps THEN cache[d].tree ELSE path[d]

\* Wrong variant: an entry whose file exists is valid, whatever it holds.
check_lock_fileExists == lock.form = "run" /\ \A e \in lock.entries : SourceOf(e[1]) # NoSource

check_lock_file ==
    lock.form = "run" /\ \A e \in lock.entries : SourceOf(e[1]) = e[2] /\ e[2] # NoSource

\* resolve_dependencies, resolve_dependency_sources (compile, no lock file) and magi get
\* read magi.toml.  One that does not parse or asks for another language version ends
\* the command at once.
Start(p, cmd) ==
    /\ At(p, "idle") \/ At(p, "done")
    /\ cmd \in Commands
    /\ Update(p, [Idle EXCEPT !.at = IF cmd = "compile" THEN "next" ELSE "check",
                              !.cmd = cmd, !.deps = toml, !.valid = cmd = "compile",
                              !.todo = IF cmd = "get" THEN toml \cap GitDeps ELSE toml])
    /\ alone' = IF \A q \in Processes \ {p} : proc[q].at \in {"idle", "done"} THEN {p} ELSE {}
    /\ UNCHANGED <<files, cache, lock, events>>

\* magi run goes through magi.lock, and magi get takes the checksums out of it.
CheckLock(p) ==
    /\ At(p, "check")
    /\ Update(p, [proc[p] EXCEPT !.at = "next",
                                 !.valid = @ \/ (proc[p].cmd = "run" /\ check_lock_file),
                                 !.sums = IF proc[p].cmd = "get" /\ lock.form = "get"
                                          THEN lock.entries ELSE {}])
    /\ DisturbOthers(p)
    /\ UNCHANGED <<files, cache, lock, events>>

\* Wrong variant: a source that cannot be read gets an entry, too.
NewEntriesAlways(d) == {<<d, SourceOf(d)>>}

\* The lock entry comes before the source is parsed; a file that is not
\* there is a warning.
NewEntries(d) == IF SourceOf(d) = NoSource THEN {} ELSE {<<d, SourceOf(d)>>}

\* read_to_string of source.magi.
ReadSource(p, d) ==
    /\ DisturbOthers(p)
    /\ UNCHANGED <<files, cache, lock, events>>
    /\ Update(p, [Advance(p) EXCEPT !.todo = @ \ {d}, !.entries = @ \cup NewEntries(d)])

\* The next dependency is a path, outside the project or inside it.
PathDep(p, d) ==
    /\ At(p, "next") /\ d \in proc[p].todo \cap PathDeps
    /\ ReadSource(p, d)

\* Wrong variant: the cache is not looked at.
GitDepBlind(p, d) ==
    /\ At(p, "next") /\ proc[p].cmd # "get" /\ d \in proc[p].todo \cap GitDeps
    /\ Update(p, [proc[p] EXCEPT !.at = "mkdir", !.on = d, !.todo = @ \ {d}])
    /\ DisturbOthers(p)
    /\ UNCHANGED <<files, cache, lock, events>>

\* The next dependency is a git source: is it in the cache already?
GitDep(p, d) ==
    /\ At(p, "next") /\ proc[p].cmd # "get" /\ d \in proc[p].todo \cap GitDeps
    /\ Update(p, [proc[p] EXCEPT !.at = IF HasSource(cache[d]) THEN "read" ELSE "mkdir", !.on = d,
                                 !.todo = @ \ {d}])
    /\ DisturbOthers(p)
    /\ UNCHANGED <<files, cache, lock, events>>

\* magi get first looks at packages/<id>: with the recorded checksum it is
\* kept, with another one removed; without a record it is not looked at.
GetDep(p, d) ==
    /\ At(p, "next") /\ proc[p].cmd = "get" /\ d \in proc[p].todo
    /\ LET known == vendor[d] # NoSource /\ \E e \in proc[p].sums : e[1] = d
           ok == <<d, vendor[d]>> \in proc[p].sums
           cached == HasSource(cache[d])
       IN /\ vendor' = IF known /\ ~ok THEN [vendor EXCEPT ![d] = NoSource] ELSE vendor
          /\ Update(p, [proc[p] EXCEPT
                !.todo = @ \ {d},
                !.at = IF (known /\ ok) \/ cached THEN "next" ELSE "mkdir",
                !.on = IF (known /\ ok) \/ cached THEN NoDep ELSE d,
                !.fetched = @ \/ (known /\ ok) \/ cached])
    /\ DisturbOthers(p)
    /\ UNCHANGED <<toml, upstream, path, cache, lock, events>>

-----------------------------------------------------------------------------
(* resolve_git_dependency after the test of the cache.                     *)

\* create_dir_all, whether the directory exists or not.
CreateDir(p) ==
    LET d == proc[p].on IN
    /\ At(p, "mkdir")
    /\ cache' = IF cache[d] = Absent THEN [cache EXCEPT ![d] = Empty] ELSE cache
    /\ Goto(p, "clone") /\ DisturbOthers(p)
    /\ UNCHANGED <<files, lock, events>>

\* git clone refuses a directory with something in it.
CloneBegin(p) ==
    LET d == proc[p].on IN
    /\ At(p, "clone")
    /\ \/ /\ cache[d] \in {Absent, Empty}
          /\ cache' = [cache EXCEPT ![d] = Partial]
          /\ Goto(p, "cloning")
       \/ /\ cache[d] \notin {Absent, Empty}
          /\ Goto(p, "cleanup") /\ UNCHANGED cache
    /\ DisturbOthers(p)
    /\ UNCHANGED <<files, lock, events>>

\* The checkout ends; it fails when somebody has removed the directory
\* meanwhile.  (A directory removed and made again looks like one's own.)
CloneEnd(p) ==
    LET d == proc[p].on IN
    /\ At(p, "cloning")
    /\ \/ /\ cache[d] = Partial
          /\ cache' = [cache EXCEPT ![d] = Clone(upstream[d])]
          /\ Update(p, IF proc[p].cmd = "get" THEN [Advance(p) EXCEPT !.fetched = TRUE]
                                              ELSE [proc[p] EXCEPT !.at = "read"])
       \/ cache[d] # Partial /\ Goto(p, "cleanup") /\ UNCHANGED cache
    /\ DisturbOthers(p)
    /\ UNCHANGED <<files, lock, events>>

\* The directory cannot be made, or git cannot be run and the directory stays; or
\* git runs and fails.
CloneFails(p) ==
    /\ \/ (At(p, "mkdir") \/ At(p, "clone")) /\ Update(p, Advance(p))
       \/ At(p, "cloning") /\ Goto(p, "cleanup")
    /\ Event /\ DisturbOthers(p)
    /\ UNCHANGED <<files, cache, lock>>

\* Wrong variant: a failed clone is left where it is.
CleanupLeaves(p) ==
    /\ At(p, "cleanup")
    /\ Update(p, Advance(p)) /\ DisturbOthers(p)
    /\ UNCHANGED <<files, cache, lock, events>>

\* remove_dir_all of the failed clone, whoever made what is there now.
Cleanup(p) ==
    /\ At(p, "cleanup")
    /\ cache' = [cache EXCEPT ![proc[p].on] = Absent]
    /\ Update(p, Advance(p)) /\ DisturbOthers(p)
    /\ UNCHANGED <<files, lock, events>>

ReadClone(p) == At(p, "read") /\ ReadSource(p, proc[p].on)

-----------------------------------------------------------------------------
(* The end of a command: magi.lock is truncated and then written.          *)

MustWriteLock(p) ==
    LET r == proc[p] IN
    IF r.cmd = "get" THEN r.fetched ELSE ~r.valid /\ r.entries # {}

\* magi get records every git dependency with what packages/<id> holds,
\* fetched or not.
LockEntries(p) ==
    IF proc[p].cmd = "get" THEN {<<d, vendor[d]>> : d \in proc[p].deps \cap GitDeps}
                           ELSE proc[p].entries

\* A magi run that has ended, with what it read.
Done(p) == IF proc[p].cmd = "run" THEN [Idle EXCEPT !.at = "done", !.entries = proc[p].entries] ELSE Idle

Finish(p) ==
    /\ At(p, "next") /\ proc[p].todo = {}
    /\ Update(p, IF MustWriteLock(p)
                 THEN [Idle EXCEPT !.at = "write", !.cmd = proc[p].cmd, !.entries = LockEntries(p)]
                 ELSE Done(p))
    /\ lock' = IF MustWriteLock(p) THEN Lock("bare", {}) ELSE lock
    /\ DisturbOthers(p)
    /\ UNCHANGED <<files, cache, events>>

WriteLock(p) ==
    /\ At(p, "write")
    /\ lock' = Lock(proc[p].cmd, proc[p].entries)
    /\ Update(p, Done(p)) /\ DisturbOthers(p)
    /\ UNCHANGED <<files, cache, events>>

Crash(p) ==
    /\ proc[p].at \notin {"idle", "done"}
    /\ Event
    /\ Update(p, Idle) /\ DisturbOthers(p)
    /\ UNCHANGED <<files, cache, lock>>

-----------------------------------------------------------------------------
(* From outside.                                                           *)

Edit == Event /\ alone' = {} /\ UNCHANGED <<cache, proc>>

\* magi add and magi remove, or an editor.
EditToml == Edit /\ \E ds \in SUBSET Deps : toml' = ds /\ UNCHANGED <<upstream, path, vendor, lock>>

EditSources ==
    /\ Edit
    /\ \/ \E d \in GitDeps, t \in Trees : upstream' = [upstream EXCEPT ![d] = t] /\ UNCHANGED <<path, vendor>>
       \/ \E d \in PathDeps, t \in Trees : path' = [path EXCEPT ![d] = t] /\ UNCHANGED <<upstream, vendor>>
       \/ \E d \in GitDeps, t \in Trees : vendor' = [vendor EXCEPT ![d] = t] /\ UNCHANGED <<upstream, path>>
    /\ UNCHANGED <<toml, lock>>

\* magi update writes a lock file without packages.
UpdateLock == Edit /\ lock' = Lock("bare", {}) /\ UNCHANGED files

Step(p) ==
    \/ CheckLock(p)
    \/ \E d \in Deps : PathDep(p, d) \/ GitDep(p, d) \/ GetDep(p, d)
    \/ CreateDir(p) \/ CloneBegin(p) \/ CloneEnd(p) \/ Cleanup(p) \/ ReadClone(p)
    \/ Finish(p) \/ WriteLock(p)

Next ==
    \/ \E p \in Processes : Step(p) \/ CloneFails(p) \/ Crash(p) \/ \E cmd \in Commands : Start(p, cmd)
    \/ EditToml \/ EditSources \/ UpdateLock

\* The operating system runs a process that can go on, and the user goes on
\* running the program.
Spec ==
    /\ Init /\ [][Next]_vars
    /\ \A p \in Processes : WF_vars(Step(p))
    /\ WF_vars(\E p \in Processes : Start(p, "run"))

-----------------------------------------------------------------------------

Entries == Deps \X Trees
Quiet(p) == proc[p].at \in {"idle", "done"}

\* Types, and where a process is fits what it is at: a process that creates,
\* fills, removes or reads a clone does so for a git dependency of its magi.toml
\* that it has taken off its list.  A lock file without packages has no entry, and
\* one of magi run has none for a dependency whose source could not be read.
TypeOK ==
    /\ toml \in SUBSET Deps /\ upstream \in [GitDeps -> Trees] /\ path \in [PathDeps -> Trees]
    /\ vendor \in [GitDeps -> Trees]
    /\ \A d \in GitDeps : cache[d] \in {Absent, Empty, Partial} \cup {Clone(t) : t \in Trees}
    /\ \/ lock.form \in {"missing", "bare"} /\ lock.entries = {}
       \/ lock.form = "run" /\ lock.entries \in SUBSET (Deps \X Contents)
       \/ lock.form = "get" /\ lock.entries \in SUBSET Entries
    /\ \A p \in Processes :
          /\ proc[p].deps \in SUBSET Deps /\ proc[p].todo \in SUBSET proc[p].deps
          /\ proc[p].entries \in SUBSET Entries /\ proc[p].sums \in SUBSET Entries
          /\ IF proc[p].at \in {"mkdir", "clone", "cloning", "cleanup", "read"}
             THEN proc[p].on \in (proc[p].deps \cap GitDeps) \ proc[p].todo
             ELSE proc[p].at \in {"idle", "check", "next", "write", "done"} /\ proc[p].on = NoDep
    /\ events \in 0 .. MaxEvents
    /\ alone \in SUBSET Processes

\* After a magi run that nothing has disturbed, whatever state earlier commands and
\* crashes have left the files in, the lock file is one of magi run and agrees
\* with what was read and is still there; it may miss a dependency, because a
\* lock file whose own entries are all right is not written again.
LockAgrees ==
    \A p \in alone : At(p, "done") /\ proc[p].entries # {} =>
        /\ lock.form = "run"
        /\ \A e \in proc[p].entries, f \in lock.entries : e[1] = f[1] => e = f /\ SourceOf(e[1]) = e[2]

\* A finished clone with its source goes only when two commands race: one that has
\* the files to itself since it began never deletes it (resolve_git_dependency
\* removes the directory after any failed clone, and git fails on one that is there).
OnlyRacesDelete ==
    [][\A d \in GitDeps : HasSource(cache[d]) /\ ~HasSource(cache'[d]) =>
          \E p \in Processes \ alone : At(p, "cleanup") /\ proc[p].on = d]_vars

\* The cache heals: whatever crashes, failed and empty clones have left there, if in
\* the end one command at a time runs and the repository has a source, the clone
\* is made and stays.
CacheHeals ==
    \A p \in Processes, d \in GitDeps :
        <>[](d \in toml /\ upstream[d] # NoSource /\ \A q \in Processes \ {p} : Quiet(q))
            => <>[]HasSource(cache[d])
=============================================================================
