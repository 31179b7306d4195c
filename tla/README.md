# Verification of magi-lang

This directory holds TLA+ models of parts of magi-lang, the TLC configurations
that check them on small instances, and TLAPS proofs of what holds for every
instance. Paths below are relative to the repository (`src/...` is the Rust crate);
line numbers refer to `src/syntax/interpreter.rs` unless another file is named.

## 1. The system

magi-lang is a scripting language with a tree-walking interpreter, a type checker,
several compiler back ends, a small bytecode VM, a debugger, a language server and a
package manager. What carries the run-time behaviour of a program is the interpreter,
and inside it the state that is hard to test: the heap with its scopes, and what threads
share. Around it, three parts are driven from outside the process: the debugger, the
language server and the package commands.

| component | state | operations | interaction | hard part |
|---|---|---|---|---|
| virtual heap (416-594) | `values`, `metadata`, `next_addr`, `free_list`, `scope_allocations`, `allocs_since_gc` | `alloc`, `write`, `push_scope`, `pop_scope`, `compact_free_list`, `collect_garbage` | called by the interpreter; told the roots by `run_gc` | two ways of freeing (scope exit and sweep), reuse, coalescing, sizes that change under `write` |
| scopes, calls, control flow (712-1024, 1142-2060, 4730-5052, 12606-13793) | `symbols`, `saved_symbol_stacks`, `call_depth`, `deferred`, the Rust call stack | every statement and expression that opens or leaves a scope | pushes and pops heap scopes, names the roots | errors and signals leave through every open construct at any point |
| channels (84-136, 11292-11704) | `CHANNEL_REGISTRY`, mpsc queues, the receivers' mutexes | `channel`, `chan_send`, `chan_recv`, `chan_try_recv`, `chan_close`, `select` | OS threads started by `spawn` share the registry | blocking calls on clones of endpoints that were closed meanwhile, deadlines, limits |
| tasks (23-83, 12807-12936) | `TASK_REGISTRY`, threads | `spawn`, `await` | a thread with a copy of the spawner's variables | a thread runs before it is registered; slots of tasks nobody awaits |
| synchronisation builtins (11755-11900) | `ATOMICS`, `WAITGROUPS`, `RWLOCKS`, once flags | `once_call`, `wait_group_*`, `atomic_*`, `rwlock_*` | shared between threads | lost wake-ups, a flag set before the work is done |
| debugger (872-1004, 14368-14640, `src/debugger.rs`) | breakpoints, step mode, two mpsc channels | pause, step, evaluate | a second thread drives `debug_check` | evaluation that must leave no trace in heap and scopes |
| bytecode VM (`src/runtime/`) | frames, operand stack, object table | instructions | `src/compiler/bytecode.rs` produces its class files | none: sequential, and its collector is never reached |
| native operations (`src/bin/magi.rs`) | `CONNECTIONS` | mutexes, wait groups, sockets | called from any thread through the evaluator | waiting on a condition variable under a global lock |
| package commands (`src/bin/magi.rs` 7733-7863, 8013-8150, 8500-8908) | `magi.toml`, `magi.lock`, `packages/`, `~/.magi/cache` | `run`, `compile`, `get`, `update`, `add`, `remove` | processes that share files; git | kills between two steps, two commands at once, failing clones |
| versions (`src/registry.rs`, `src/version.rs`) | none | comparison, minimal version selection | not called by the command line | none |
| language server (`src/lsp/`) | documents with their last analysis | notifications and requests | an editor at the other end of two pipes | stale state after a panic, changes under way while a request is made |
| MCP (`src/mcp.rs`) | none | requests | client | none |
| lexer, parser, type checker, optimizer, linter, formatter, compiler back ends | none between runs | pure functions | pipeline | none that a model checker reaches |

What makes each of the modelled parts correct:

* heap: an address is never handed out twice; every block has exactly one owner, so
  exactly one scope exit frees it; what a program can still name is never freed;
* scopes: whatever construct is left, and however (value, error, return, break,
  continue), heap and tables are as high as before it; a variable behaves as a cell of
  its own, as if there were no heap;
* channels: messages arrive once and in order; Null from `chan_recv` means the end;
  a blocked call returns once the other side is gone; a `select` delivers what it takes
  and keeps its deadline;
* threads: a task's result is collected once; awaits form no circle unless a program hands
  futures about; no wake-up is lost; no wait outlives what it waits for;
* package commands: whatever earlier commands left behind, the next undisturbed run ends
  with a lock file that agrees with its sources and a cache that works;
* language server: diagnostics and answers belong to the text the editor has, formatting
  keeps the statements the formatter writes in full, every request is answered;
* debugger: a stop and an evaluation leave the program as it was, and steps go by the
  calls that are in progress, of which the code only keeps the number.

## 2. Modules

| module | what it is |
|---|---|
| `Heap` | the heap's state and methods as operators; `NoDoubleFree`, `OwnedOnce` |
| `Scopes` | EXTENDS `Heap`: the interpreter as the heap's only user; one action per statement, construct entry, construct exit |
| `Env` | abstract specification: variables as cells in nested frames, no heap |
| `MCScopes` | values, names and pointer addresses for TLC |
| `ScopesProofs` | what each heap method preserves; the inductive invariant of `Scopes`: types, addresses, owners |
| `BindingsProofs` | EXTENDS `ScopesProofs`: variables are allocated and apart |
| `BalanceProofs` | EXTENDS `ScopesProofs`: what was pushed has been popped |
| `Channels` | threads, registry, queues, blocking calls |
| `MCChannels` | threads and capacities for TLC |
| `ChannelsProofs` | types and bounds, order, what Null means |
| `Threads`, `MCThreads`, `ThreadsProofs` | spawn, await, wait groups, the read-write lock |
| `Packages`, `MCPackages`, `PackagesProofs` | package commands as processes over shared files |
| `Lsp`, `MCLsp`, `LspProofs` | the language server and its editor |
| `Debugger`, `MCDebugger` | EXTENDS `Scopes`: the interpreter under `debug_check` |
| `DebuggerProofs` | EXTENDS `Debugger` and `BalanceProofs`: a program evaluated above a stopped one |

### Heap

Each field of `struct Heap` is a variable; `gc_stats` is left out. A value is a record
of the kind and the length that `size_of` looks at. The order in which a sweep walks a
`HashMap` is undefined, so the freed blocks are appended in any order (`Orders`); the
order inside one scope's list is left open too. `compact_free_list` is stated by what it
computes: `Coalesced` takes a maximal run of adjacent blocks to one block, and the
result is sorted. `allocs_since_gc` stops counting at the threshold, the only number it
is compared with. `MaxAddr` bounds the bump pointer of the model.

### Scopes

`ctl` is the Rust call stack, one frame per construct in progress: blocks (if, match
arms, block expressions, comprehension rounds), loop heads and iterations, calls,
methods, unsafe blocks, try/catch/finally and running deferred expressions. A frame
records where in the construct execution is (`ph`), how many deferred expressions wait
(`dfr`), a result held back by `finally` or a deferred expression (`pend`), and how high
the symbol stack was when it began (`base`).

What an expression computes is left open; where one may be evaluated (`AtExpression`)
it may fail, call, open a block or write through a pointer. `err` is the `Err(..)` being
propagated; while it is set only the innermost construct moves, and its action is what
the Rust code does with that error: pop, convert, swallow, or, in the head of a C-style
for and among a method's arguments, return at once (`HeadFails`).
`call_function` sets the caller's tables aside and continues with a copy of the outermost
one and a new one; a method runs on top of its caller's tables.

The constant `Features` says which parts of the language a program uses: raw pointers
and unsafe blocks; `static` inside nested blocks; errors raised while a leaking head is
being evaluated. Each run states what it includes.

A scope is opened with at most one variable bound in it. Several parameters or captures
are bound by further `Let`s, which is the same `alloc` and `define`. `defer` at module level joins a
list that is never run and is left out; so is the limit of 512 that `call_impl_method`
(771-797) has in place of `MAX_CALL_DEPTH`.

### Env, and the refinement

`Env` knows nothing of addresses: `Define`, `Assign`, `Enter`, `Leave`, `Call`,
`Return`, nothing else. A frame is what one call sees: its own scopes, and behind them the
first scope of each call it was made from. So a `static` defined at the top of a function is seen by
the calls that function makes, until it returns: that is what copying the outermost table
(4811) and giving back the caller's (4856) amount to. The mapping in `Scopes` shows `Env` the
value each name denotes; a callee's copy of the outermost table is shown only where
it differs from its caller's (`Own`), because the entries it shares are the same cells.
`VariablesAreCells == E!Spec`.

The refinement is model-checked, not proved, in a run with two calls in progress, blocks,
loops, collections, errors, `return` and deferred expressions that may fail themselves. The
run has one name, no raw pointers, no errors in leaking heads and no `static` in a
nested block; the last two break the refinement (`try_leaks`, `static_dangles`).

### Channels

The registry is a set of endpoints, `queue` the messages inside mpsc, `th` what each
thread is doing. Every section under the registry lock is one step, since the code never
blocks under it; `channel()` takes the lock twice and is two steps. A bounded
`chan_send` works on a clone of the sender, a receive on a clone of the receiver's `Arc`,
and both keep the channel alive after `chan_close` (`SenderAlive`, `ReceiverAlive`).
A `chan_recv` holds the receiver's mutex for as long as it waits (`Locked`). `select` is
modelled receiver by receiver: a round of polls, a round of tests for disconnection, the
clock, the sleep. std::sync::mpsc is external and modelled from its use.

`ended` remembers the channels of which some `chan_recv` has returned Null; `NullIsFinal`
says of them that no later step of anyone brings another message, which depends on when the sender
counts as gone and not on what the receiver saw. `Patient` is the specification with the
scheduler's fairness only; `Spec` adds that time passes for a `select`. A `channel()` that
finds only one place left leaves its sender in the registry under an id nobody gets; the model
has that sender, and no property forbids it.

### Threads

A thread is known by where it is (`th`) and by the futures it holds (`knows`), for it can
only await a future it holds. `spawn` is two steps, as in the code: the thread is started
on a copy of the visible variables (12880-12930), and then its handle is stored, or refused
when the registry is full (12932). `await` takes the handle out of the registry under its
lock and then blocks in `join`; when the result is the future of another task that one is
joined too, once (12838). A result is a value, an error (a rejected future and a panic
included) or a future of the thread's. A failed lookup changes nothing and is no action.

`wait_group_wait` drops the registry lock before it takes the group's mutex; the head of
its loop is one step under that mutex, and `SpuriousWakeup` lets a sleeper wake by itself.
A future can reach a thread that was started before it existed by three ways: the read-write
lock (`RwlockWrite`, `RwlockRead`), a channel (`ChanSend`, `ChanRecv`; any `DataType` can be sent,
11382-11410), and the map of `expvar_set`, which is one more cell like the lock. What a
value holds of futures is all the model keeps of it; how a channel blocks, fills and
closes is module `Channels`. `passed` remembers that some thread was handed a future it did
not hold, `silent` which groups `wait_group_add` took to zero, `refused` and `joins` where
handles ended.

### Packages

A process goes step by step through what a command does to files that others see: the read of
`magi.toml` (`Start`), the read of `magi.lock` (`CheckLock`), the test of the cache,
`create_dir_all`, `git clone` (which refuses a directory with something in it; it or
`create_dir_all` may fail), the removal after a failed clone, the read of `source.magi`, and the
two halves of `fs::write` on `magi.lock`, truncation and content. `Crash` may strike between any
two. `magi compile` is `resolve_dependency_sources`: the same walk, no lock file. `magi get`
keeps, removes or ignores `packages/<id>` by the checksums in the lock file, and records every git
dependency in a format of its own; nothing in the code ever fills `packages/`, so only an edit
does. `magi add`, `magi remove` and an editor change `magi.toml`. Contents stand for their hashes;
`events` bounds edits, failures of git and kills together. `alone` holds the commands that nothing
has disturbed since they began.

### Lsp

The server is a loop with one message in hand (`server.rs` 167-208): the action takes it,
does all of its handler, and writes at most one message to `stdout`, which holds `Capacity`
messages. The editor is external: it opens, changes (with one, several or no changes in
a message), closes, asks, sends nonsense, closes its end, and reads when it likes; it applies
a formatting edit if the text is still the one it asked about. A text is what the analysis tells
apart: its good statements, its error, its layout, and whether the analysis panics
(`Panics`), which `on_change` catches.

The formatter is the constant `Layout`: what it writes for a statement, as the parser reads it
again. It writes many statements in full (`Whole`); of some it drops a part (the types in a
trait's signatures and default bodies, `src/formatter/mod.rs` 384-391; the type parameters of
enums and structs, 527 and 548; type annotations of closure parameters, 613-624; their defaults,
1221-1233); and an expression nested 128 deep it writes as `/* ... */` (745), so that the
statement may no longer parse (`Broken`). The run has a statement of each sort. The answers of the
handlers that read a document are the source they were computed from. The log message after
`initialized` is left out.

### Debugger

`ProgramStep` is any step of `Scopes`, allowed at a statement only after `debug_check` has
been called for it; `debug_check` may stop there and take commands. `Evaluate` puts aside
what lines 944-961 save, runs a client's program (the steps of `Scopes` again, on the same
heap, with the debugger off), pops one heap scope and puts back what it saved, the bump
pointer and the free list included. The stopped constructs are on the Rust stack in the code
and in `saved.ctl` here. `deferred` is not among what is saved, so a `defer` at the top of the client's
program stays in the list of the stopped block (`EvaluateDefer`). Breakpoints are any set of lines.

A step compares `call_depth` with its value at the command. What it is meant to follow is the
calls: `CallsInProgress` counts them on `ctl`, a method from the evaluation of its arguments on, because
the code counts it there (13132), and `kept` is how many of those at the command have been in
progress without interruption since. `StepsByCalls` relates where a step stops to `kept`: at the
end of `f` in `f() + g()`, one call is gone and another has come, which the number does not show.
There a step over stops inside `g`; the property leaves open where one stops once its own
call has returned, and the comment at 14561 allows it.

## 3. Runs

| run | checks | distinct states |
|---|---|---|
| `scopes_unwind` | `TypeOK`, `NoDoubleFree`, `OwnedOnce`, `BindingsLive`, `NoAliasing`, with raw pointers and leaking heads | 2.97 million |
| `scopes_refine` | `ScopeBalance`, and `Env` implemented | 1.16 million |
| `channels` | `TypeOK`, `InOrderOnce`, `NullIsFinal`, `SelectEnds` | 1.03 million |
| `channels_live` | `RecvWakes`, `SendWakes` | 62 thousand |
| `threads` | `TypeOK`, `HandleOnce`, `NoCircularAwait`, `NoLostWakeup`, `WaitsEnd` | 408 thousand |
| `packages` | `TypeOK`, `LockAgrees`, `OnlyRacesDelete`, `CacheHeals` | 1.14 million |
| `lsp` | `TypeOK`, `DiagnosticsFresh`, `AnswersCurrent`, `FormattingKeeps`, `RequestsAnswered` | 696 thousand |
| `debugger` | `DebugTypeOK`, `HeapHandedBack`, `StoppedVariablesKept`, `StepsByCalls` | 3.02 million |
| `static_dangles` | `StaticsLive` is violated | |
| `try_leaks` | `TryIsolated` is violated | |
| `select_loses` | `SelectKeepsMessages` is violated | |
| `select_hangs` | `SelectTimesOut` is violated | |

**What the violations show.** A `static` in a nested block is bound at module level to
a block that the inner heap scope owns, and dangles after it (2049-2058). An error in the
head of a C-style for (1556, 1570, 1587) or in the arguments of a method (13144, 13147)
returns without popping, so a surrounding try pops the wrong table and its own variables
leak (1984). `select` takes messages in its test for disconnection and drops them
(11682-11690). `select` waits for a receiver's mutex without a timeout while `chan_recv`
holds it (11666).

The leaking heads reach the debugger, too: with `"headError"` among the `Features` of the run
`debugger`, `StepsByCalls` and `HeapHandedBack` are violated. A method call whose argument fails
leaves `call_depth` one too high, and a step over after it passes by the next statement of its own
function, which the comment at 14561 says it stops at. A client's expression that fails in such a
head leaves a scope open, and the one pop after `Evaluate` (976) frees what is in that one and not
what is below it.

**What the exceptions show.** Some properties hold with a named exception, which is what
the code does in that case; dropping the exception makes TLC find it.

* `NoCircularAwait`: futures handed on by `rwlock_write` or `chan_send` can make two tasks
  await each other for ever.
* `NoLostWakeup`, `WaitsEnd`: a group taken to zero by `wait_group_add` with a negative
  delta leaves its waiters asleep (11845).
* `LockAgrees`: a lock file whose own entries are right is not written again, so a
  dependency added later is missing from it (8815).
* `OnlyRacesDelete`: a command whose clone fails because another's is in progress removes
  the directory under it (8651). The comment at 8605, "If the cache directory already
  exists, the clone is skipped", is not what the code does: it asks for `source.magi` in it, and
  a repository without one is cloned, refused and removed in turns.
* `AnswersCurrent`, `DiagnosticsFresh`: after a panic the server goes on answering from an
  older text, and a change message without changes brings back its diagnostics.
* `FormattingKeeps`: what the formatter does not write in full is lost in part or whole, a
  statement that does not parse is formatted away (so the second formatting of a sum of 129 terms
  removes it, against "format(format(src)) == format(src)" at `src/formatter/mod.rs` 1567), and
  range formatting of a document that is not laid out yet replaces lines by other lines.
* `StoppedVariablesKept`: a client's program that binds a name anew in the same scope and
  then collects garbage frees the stopped program's variable of that name, since the saved
  tables are not among the roots (1017, against the comment at 943).

Two more facts about `Evaluate` that no property states: an assignment in it is not undone,
and in a program with a `main` it calls `main` again instead of evaluating its text (1207).

**Bounds.** `MaxAddr` leaves two allocation units, and the values need one and two: a block is
reused by a smaller and by a larger value, requests no free block can serve fall through to the
bump pointer, two neighbours coalesce and serve a large value, and a `write` changes the recorded
size of a block. Thresholds of 1 and 2 in place of 64 and 256 make compaction and collection
happen within a few steps. Two or three nested constructs are enough for every pair of "what
fails" inside "what is being left"; `scopes_refine` nests three, with two calls among them, one in
the other, so that a callee's static is in the table the next callee copies and callers' tables
must be roots, and one deferred expression, which may replace an error or a return that is under
way. `MaxHeight` stops the leaks of `headError` from growing without end. `MAX_CALL_DEPTH` of 1 or
2 reaches the limit. In `channels` two threads and two channels, one more endpoint than fits, and
four calls reach every interleaving of a close with a send or receive in progress; `channels_live`
has a third thread, so that one receiver can wait behind another while a third one closes. The
registry of `channels` is one place short of two whole channels, so a `select` over both meets one
whose sender is closed, in either place of its list, and another that is closed while it goes
round.

`threads` has two tasks and one slot, so that spawns race for it, and five calls: an `add`, a
`done` and two threads asleep on one group, where waking one of them would not do, or a write and
a read of the lock, or a send and a receive, around an await, which is how a circle closes
(without `passed` the run finds it). A circle of more than two threads is left to the proof.
`packages` has two commands at a time, a git and a path dependency, two contents and none, and one
event: any state one kill, failure or edit can leave, met by any commands afterwards, without end.
`lsp` has one document (documents do not interact), texts of each kind and four messages: open,
two changes or edits and a request overlap in the pipes in every order. `debugger` has one
evaluation and one resumption, because each puts back or replaces the state the last one used; the
program and the client's program nest two constructs between them, every allocation may be
collected, and `Features` is empty, because leaking heads break two of the properties, as said
above.

**Deadlock** is checked for the interpreter, which can always go on, and for the package
commands, which can always be started. It is not for channels and threads, where a program
may wait for a message or task that never comes, for the language server, which stops, and
for the debugger, where the client's commands are bounded.

**Fairness.** Threads: the operating system runs every thread that is inside a builtin and
can go on (`WF` on `Continue`); nothing is assumed about spurious wake-ups. Packages: a running
command goes on (`WF` on `Step`), and the user goes on running the program (`WF` on `Start` of a
run); git failures and kills are not forced and not for ever, being bounded events.
Language server: the loop goes on and the editor reads (`WF` on `Serve` and `Receive`);
nothing makes it send. Channels: the operating system runs every thread that can run
(`WF` on `Continue`); this is `Patient`, and `RecvWakes`, `SendWakes` and `SelectEnds` are checked
under it, so that no deadline helps a `select` to return. For the violation `select_hangs` the
strongest assumption counts: there a `select` that keeps going round meets its deadline (`SF`
on `SelectTimeout`), because time passes while it sleeps, and still hangs. Nothing is assumed about what
the program calls next.

## 4. Proofs

`ScopesProofs` proves, for every set of names and values, every threshold, limit and
bound, every feature and every program:

* `TypeCorrect`: `Spec => []TypeOK`. This includes that a call always finds the stack it
  saved, that no pop meets an empty stack and that `call_depth` never goes below zero;
* `AddressesUnique`: `Spec => []NoDoubleFree`;
* `OwnersUnique`: `Spec => []OwnedOnce`.

The assumptions are those of `Heap` and `Scopes`: values have the kinds `size_of` knows,
`__unsafe_context` is no variable name, addresses passed to `ptr_write` are non-negative.

None of the three is inductive. A pop frees what the last scope owns and is only harmless
if the construct being left did push; whether it did depends on the whole stack of
constructs, and errors in leaking heads break any equation between the heights. The
invariant `Inv` therefore bounds the stacks from below, construct by construct: `Chained`
(the symbol stack is at least as high as when the innermost construct began, plus what it
pushed, and so outwards), `Linked` (the saved stacks are those of the calls in progress,
in order, as high as when each began), `IterOK` (an iteration has its loop below it), and
counts for the heap scopes and the call depth. The moves of such a stack (push, pop, call,
return, change of the innermost construct) are lemmas `Stack...`; the moves of the heap
are its first part, where `HeapInv` adds to `NoDoubleFree` that a block has a value,
so that a sweep cannot miss an owner; then there is one lemma per group of actions.

`BindingsProofs` proves `VariablesLive` (`[]BindingsLive`) and `VariablesApart`
(`[]NoAliasing`) for every program that defines no `static` in a nested block. The
hypothesis is needed: `static_dangles` shows a variable that is freed while it can be
named. Raw pointers and errors in heads are allowed.

A variable is in a symbol table, its block in a heap scope, and the two are popped by
different rules: an unsafe block pops a table and no scope, a call puts back a whole stack of
tables, a leaking head leaves one or both behind. So "the owner is as deep as the table" is
false. What is inductive (`Deep`) counts from the top: leave all constructs from the j-th on, and
every variable that is still named then has its owner among the scopes that are still there; a
variable d tables further up may have it d scopes further up. `Kept` says so for a stack
of tables, and `Safe` for the current one and for each saved one, seen from the call that saved it.
`Apart` is `NoAliasing` with the saved stacks told apart by position. A new block is in no
scope yet (`OwnedOnce`), so it differs from all others; that is where the first invariant is used.

`BalanceProofs` proves `ScopesBalance` (`[]ScopeBalance`) for every program in which no error
or signal arises in a leaking head (`"headError" \notin Features`; otherwise the scopes do
leak, as `try_leaks` shows). The equations between heights and constructs (`Exact`) are not
inductive: they fail if an error ever meets such a head. One may come out long after it arose, because
deferred expressions and finally blocks hold it back while heads are entered. `Calm` says
that there is no leaking head under an error that is propagated (`Clear`), none below a construct
that holds one back (`Held`), and that a C-style for outside its head has its iteration on top of it
(`Bodied`), so that no error can meet it elsewhere.

`DebuggerProofs` proves all four properties of the debugger, for every program, client, mode and
bound, as long as no error arises in a leaking head: `DebugTypeCorrect` (`[]DebugTypeOK`),
`EvaluateHandsBack` (`[]HeapHandedBack`), `StepsGoByCalls` (`StepsByCalls`) and, without
raw pointers (`PtrAddrs = {}`), `StoppedVariablesAreKept` (`StoppedVariablesKept`). Both hypotheses
are needed. After an error in a leaking head `call_depth` is not the number of calls in progress
and a scope beyond the restored bump pointer stays open (see section 3);
`ptr_write` takes any address, that of a variable too. For `StepsByCalls` the invariant
adds `SteppingInv`: `call_depth` is the number of calls in progress, `kept` is at most that and at
most the number at the command.

The client's program is an execution of the interpreter in its own right, so the invariants
above hold of it, but not from zero. `Linked` lets the lowest saved stacks be of no call in
progress, and `Exact` and `Even` count from a floor: `Ground` for a program that runs by itself,
`Floor(saved)` for one that runs above a stopped one. `DebugInv` says that either the
program is alone and even with the ground (`AtRest`), or it is stopped, what was saved of it
still satisfies its invariants, and the client's is even with the floor (`Amid`). `HeapBelow` makes the
handing back sound: the saved free list and bump pointer fit the blocks that the stopped
program's scopes own now. It is kept because a step of the client adds no block to a
scope below its own (`ScopesBelow`), only a collection takes some away, and a smaller set of blocks
in use fits the same free list. That every allocation, sweep and pop of the client is one of seven moves
of the heap is `NextMoves`.

`ThreadsProofs`, for any number of tasks, groups, locks and calls:

* `TypeCorrect`: the registry keeps its limit whatever spawns race for the last place;
* `HandlesOnce`: `[]HandleOnce`. Inductive with `HandleInv`: where a task's handle is (with its
  spawner, in the registry, refused, taken) goes with where threads are;
* `WakeupsReach`: `[]NoLostWakeup`, inductive by itself given the types, because the test and
  the sleep are one step under the group's mutex;
* `NoCircle`: `[]NoCircularAwait`. There is no order on tasks by number, since a task may return the
  future of a younger one or hand on an older one. `CircleInv` is that the union of "waits
  for" and "holds a future of" is acyclic; a join follows an edge of it, a spawn adds a
  thread nobody points to, a result copies edges along a path that was there. A lock or a channel adds
edges; as long as each was there before (`passed` is false), nothing is added.

`ChannelsProofs`, for any threads, capacities and limits:

* `TypeCorrect`: registry and queues keep their limits although senders wait outside the lock;
* `ReceivedOnce`: `[]InOrderOnce`. Inductive with `OrderInv`: the messages received, the ones
  in the queue and the one a blocked sender still has are, for each sender and channel, in
  the order of the calls;
* `NullStands`: the action property `NullIsFinal`. Inductive with: of a channel in `ended`, the
  sender is not in the registry, no thread has a clone of it in a send, and the queue is empty;
  that ids are not given out twice keeps it so.

`PackagesProofs`, for any processes, dependencies and contents:

* `TypeCorrect`, with `Fitting` (where a process is fits its command and its list) and
  `Written` (a lock file of `magi run` has entries only for sources that could be read);
* `UndisturbedLock`: `[]LockAgrees`. Inductive with `AloneInv`: what an undisturbed command has read
  so far is still there, and no other process is between two steps;
* `DeletesRace`: the action property `OnlyRacesDelete`, from the same invariant.

`LspProofs`, for any documents, texts, pipe capacity and number of messages:

* `TypeCorrect`, `AnswersAreCurrent` (`[]AnswersCurrent`), `DiagnosticsAreFresh`
  (`[]DiagnosticsFresh`), and `FormattingIsSafe` (the action property `FormattingKeeps`), whatever
  `Layout` drops.

The server is behind the editor, so nothing the properties say holds of its present state. `LspInv`
speaks of what a document will be when the messages before a request (`Views`), or all messages
(`Current`), are handled, and of what will be shown when all of `stdout` is read (`Fresh`);
`Ids` keeps requests and responses apart, `Answers` has what is already answered.

In all of these the assumptions are the named `ASSUME`s of the modules, which fix the
types of the constants.

**Only model-checked.** The refinement of `Env` (`VariablesAreCells`).
Liveness is out of the prover's reach and stays with TLC: `RecvWakes`, `SendWakes`,
`SelectEnds`, `WaitsEnd`, `CacheHeals`, `RequestsAnswered`.

## 5. Plan

The models the plan began with are written; every invariant and action property their passing
runs check is proved, but for the refinement. What is left is the refinement of `Env`, step by
step, from the invariant of `BindingsProofs`.

### Not modelled

* `once_call` and the atomics: one atomic operation each; nothing says what a second caller of
  `once_call` may expect. Timers, tickers and contexts: sleeps and flags.
* Native operations (`src/bin/magi.rs`): calls into the operating system. The wait of its wait
  groups holds the global lock of `CONNECTIONS` (6364-6378), which `done` needs; it is listed
  as a hazard.
* Bytecode VM: sequential; `add_root` has no caller and `src/compiler/bytecode.rs` emits none
  of the allocating opcodes, so the collector never runs.
* `src/registry.rs`, `src/version.rs`: pure, and not called by the package commands.
* Lexer, parser, type checker, optimizer, linter, the text the formatter writes (only what it
  drops is in `Lsp`), compiler back ends, values and their operations: pure functions whose
  correctness is about texts, trees and values of any size; a model would repeat them. They are
  most of the repository's lines, which is why the models stand for a small share of them.
* TLS, platform and telemetry (I/O), MCP (no state), the prompt of `src/debugger.rs` (it executes
  the top-level statements one by one, as programs of their own), the self-hosted implementation
  in `self/`.
