------------------------------- MODULE Scopes -------------------------------
(***************************************************************************)
(* The tree-walking interpreter as a user of its heap: the stack of symbol *)
(* tables, the calls that set a stack aside, and the errors and signals    *)
(* (return, break, continue) that unwind through blocks, loops, calls,     *)
(* `unsafe`, try/catch/finally and deferred expressions.                   *)
(*                                                                         *)
(* The Rust call stack of exec_statement / eval_expr / call_function is    *)
(* the variable `ctl`: one frame per construct that is being executed.     *)
(* What an expression computes is left open (any value of Vals); what it   *)
(* does to scopes and heap is exactly the actions below.                   *)
(***************************************************************************)
EXTENDS Heap

CONSTANTS
    Names,           \* variable names of the program
    PtrAddrs,        \* the integers a program passes to ptr_write
    Features,        \* what the program does, out of FeatureNames
    Raised,          \* the error and the signals the program raises
    MAX_CALL_DEPTH,  \* 128 in the code
    MAX_VARIABLES,   \* 10 million in the code
    MaxNesting,      \* bound of the model: frames in ctl
    MaxHeight,       \* bound of the model: open heap scopes, leaked ones included
    MaxDefers        \* bound of the model: pending deferred expressions of a block

\* "unsafe": unsafe blocks and raw pointers; "nestedStatic": `static` in a
\* block inside a function or module; "headError": an error or signal raised
\* while the head of a C-style for, or the arguments of a method call, are
\* being evaluated.
FeatureNames == {"unsafe", "nestedStatic", "headError"}

UnsafeContext == "__unsafe_context"
True == [kind |-> "Bool", len |-> 1]

ASSUME ScopesAssumption ==
    /\ UnsafeContext \notin Names
    /\ True \in Vals
    /\ PtrAddrs \subseteq Nat
    /\ Features \subseteq FeatureNames
    /\ Raised \subseteq {"error", "return", "break", "continue"}
    /\ {MAX_CALL_DEPTH, MAX_VARIABLES, MaxNesting, MaxHeight, MaxDefers} \subseteq Nat

VARIABLES
    symbols,              \* stack of scopes: name -> [addr, mutable]
    saved_symbol_stacks,  \* the callers' stacks
    call_depth,
    ctl,                  \* constructs being executed, innermost last
    err                   \* the Err(..) being propagated, "none" while Ok

scopeVars == <<symbols, saved_symbol_stacks, call_depth, ctl, err>>
vars == <<heapVars, scopeVars>>

Signals == {"return", "break", "continue"}
Errs == {"none", "error"} \cup Signals

\* Frames whose statements exec_block runs, and frames between two blocks.
Bodies == {"block", "iter", "call", "method", "unsafe", "try", "catch", "finally"}
Heads == {"while", "for", "do", "cfor", "margs", "caught", "finish", "defer"}
Phases == {"run", "leaving", "init", "cond", "body", "update", "check", "tail", "exit"}

\* ph: where in the construct; dfr: deferred expressions pending in a block;
\* pend: the result a `finally` or a deferred expression holds back;
\* base: height of the symbol stack when the construct began.
Frame(k, ph) == [k |-> k, ph |-> ph, dfr |-> 0, pend |-> "none", base |-> Len(symbols)]
Top == Last(ctl)
Push(f) == ctl' = Append(ctl, f)
Pop == ctl' = Front(ctl)
SetTop(f) == ctl' = [ctl EXCEPT ![Len(ctl)] = f]
SetPhase(p) == SetTop([Top EXCEPT !.ph = p])
Running(ks) == ctl # << >> /\ Top.k \in ks
CanNest == Len(ctl) < MaxNesting /\ Len(scope_allocations) < MaxHeight

\* Where a statement, and where an expression, can be evaluated next.
InBody == Running(Bodies) /\ Top.ph = "run"
AtStatement ==
    /\ err = "none"
    /\ ctl = << >> \/ InBody \/ (Running({"cfor"}) /\ Top.ph \in {"init", "update"})
AtExpression ==
    \/ AtStatement
    \/ /\ err = "none"
       /\ \/ Running({"while", "cfor"}) /\ Top.ph = "cond"
          \/ Running({"do"}) /\ Top.ph = "check"
          \/ Running({"margs", "defer"})

\* A frame whose `?` returns without popping the scopes it pushed.
LeakyHead(f) == f.k = "margs" \/ (f.k = "cfor" /\ f.ph \in {"init", "cond", "update"})

\* e is raised inside the constructs fs.
RaiseIn(fs, e) ==
    /\ (\E i \in DOMAIN fs : LeakyHead(fs[i])) => "headError" \in Features
    /\ err' = e
Raise(e) == RaiseIn(ctl, e)

-----------------------------------------------------------------------------
(* Symbol tables.                                                          *)

Entry(a, m) == [addr |-> a, mutable |-> m]
Extend(scope, n, e) == [x \in DOMAIN scope \cup {n} |-> IF x = n THEN e ELSE scope[x]]

\* lookup: the innermost scope that has the name.
Innermost(i, n) ==
    /\ i \in DOMAIN symbols /\ n \in DOMAIN symbols[i]
    /\ \A j \in DOMAIN symbols : n \in DOMAIN symbols[j] => j <= i
Undefined(n) == \A i \in DOMAIN symbols : n \notin DOMAIN symbols[i]

\* define, for a stack of scopes `base`.
Define(base, i, n, e) == symbols' = [base EXCEPT ![i] = Extend(@, n, e)]

total_variable_count ==
    Cardinality({b \in (DOMAIN symbols) \X (Names \cup {UnsafeContext}) :
                    b[2] \in DOMAIN symbols[b[1]]})

\* A scope opens empty or with one variable already bound in it (a parameter,
\* a loop or a catch variable); further ones are bound the same way as Let.
Bindings == {{}} \cup {{[n |-> n, v |-> v]} : n \in Names, v \in Vals}

Open(base, B, mutable) ==
    \/ B = {} /\ push_scope /\ symbols' = base
    \/ \E b \in B, a \in Candidates :
          /\ alloc(b.v, a, Append(scope_allocations, {}))
          /\ Define(base, Len(base), b.n, Entry(a, mutable))
Enter(B, mutable) == Open(Append(symbols, << >>), B, mutable)
Leave == pop_scope /\ symbols' = Front(symbols)

-----------------------------------------------------------------------------
(* Statements that bind or assign.                                         *)

Let(n, v) ==
    /\ AtStatement
    /\ \/ /\ total_variable_count >= MAX_VARIABLES
          /\ Raise("error")
          /\ UNCHANGED <<heapVars, symbols>>
       \/ /\ total_variable_count < MAX_VARIABLES
          /\ \E a \in Candidates :
                /\ alloc(v, a, scope_allocations)
                /\ Define(symbols, Len(symbols), n, Entry(a, TRUE))
          /\ UNCHANGED err
    /\ UNCHANGED <<saved_symbol_stacks, call_depth, ctl>>

ConstDef(n, v) ==
    /\ AtStatement
    /\ \E a \in Candidates :
          /\ alloc(v, a, scope_allocations)
          /\ Define(symbols, Len(symbols), n, Entry(a, FALSE))
    /\ UNCHANGED <<saved_symbol_stacks, call_depth, ctl, err>>

\* `static` allocates in the current heap scope and binds in the outermost
\* symbol table.
StaticDef(n, v) ==
    /\ AtStatement
    /\ ctl = << >> \/ Running({"call"}) \/ "nestedStatic" \in Features
    /\ \E a \in Candidates :
          /\ alloc(v, a, scope_allocations)
          /\ \E m \in BOOLEAN : Define(symbols, 1, n, Entry(a, m))
    /\ UNCHANGED <<saved_symbol_stacks, call_depth, ctl, err>>

\* Wrong variant: immutable variables are assigned to as well.
AssignmentToAny(n, v) ==
    /\ AtStatement
    /\ \/ Undefined(n) /\ Raise("error") /\ UNCHANGED heapVars
       \/ \E i \in DOMAIN symbols :
             Innermost(i, n) /\ write(symbols[i][n].addr, v) /\ UNCHANGED err
    /\ UNCHANGED <<symbols, saved_symbol_stacks, call_depth, ctl>>

Assignment(n, v) ==
    /\ AtStatement
    /\ \/ /\ Undefined(n) \/ \E i \in DOMAIN symbols : Innermost(i, n) /\ ~symbols[i][n].mutable
          /\ Raise("error")
          /\ UNCHANGED heapVars
       \/ \E i \in DOMAIN symbols :
             /\ Innermost(i, n) /\ symbols[i][n].mutable
             /\ write(symbols[i][n].addr, v)
             /\ UNCHANGED err
    /\ UNCHANGED <<symbols, saved_symbol_stacks, call_depth, ctl>>

\* throw, return, break, continue, `?`, and every error of an expression.
Fail(e) ==
    /\ AtExpression
    /\ Raise(e)
    /\ UNCHANGED <<heapVars, symbols, saved_symbol_stacks, call_depth, ctl>>

-----------------------------------------------------------------------------
(* Blocks and deferred expressions.                                        *)

\* if / else arms, block expressions, match arms, comprehension rounds.
EnterBlock(B) ==
    /\ AtExpression /\ CanNest
    /\ Enter(B, FALSE)
    /\ Push(Frame("block", "run"))
    /\ UNCHANGED <<saved_symbol_stacks, call_depth, err>>

\* A body can be left when its deferred expressions have run.
AtEnd(k) == Running({k}) /\ Top.dfr = 0

LeaveBlock ==
    /\ AtEnd("block")
    /\ Leave /\ Pop
    /\ UNCHANGED <<saved_symbol_stacks, call_depth, err>>

\* `defer e`; at module level the list it joins is never run.
Defer ==
    /\ AtStatement
    /\ Running(Bodies) /\ Top.dfr < MaxDefers /\ CanNest
    /\ SetTop([Top EXCEPT !.dfr = @ + 1])
    /\ UNCHANGED <<heapVars, symbols, saved_symbol_stacks, call_depth, err>>

OneDeferredLess(f) == [f EXCEPT !.dfr = @ - 1, !.ph = "leaving"]

\* exec_block runs what was deferred at the end of the block, also when an
\* error leaves it, and discards what the deferred expression returns.
RunDeferred ==
    /\ Running(Bodies) /\ Top.dfr > 0
    /\ ctl' = Append([ctl EXCEPT ![Len(ctl)] = OneDeferredLess(Top)],
                     [Frame("defer", "run") EXCEPT !.pend = err])
    /\ err' = "none"
    /\ UNCHANGED <<heapVars, symbols, saved_symbol_stacks, call_depth>>

EndDeferred ==
    /\ Running({"defer"})
    /\ err' = Top.pend
    /\ Pop
    /\ UNCHANGED <<heapVars, symbols, saved_symbol_stacks, call_depth>>

-----------------------------------------------------------------------------
(* Loops.  Each iteration is a scope of its own.                           *)

StartLoop(k) ==
    /\ AtStatement /\ CanNest
    /\ Push(Frame(k, "cond"))
    /\ UNCHANGED <<heapVars, symbols, saved_symbol_stacks, call_depth, err>>

\* A C-style for also has a scope for its own variables.
StartCStyleFor ==
    /\ AtStatement /\ CanNest
    /\ Enter({}, FALSE)
    /\ Push(Frame("cfor", "init"))
    /\ UNCHANGED <<saved_symbol_stacks, call_depth, err>>

Iterate(k, B) ==
    /\ err = "none" /\ CanNest
    /\ Running({k}) /\ Top.ph \in {"init", "cond"}
    /\ Enter(B, FALSE)
    /\ ctl' = Append([ctl EXCEPT ![Len(ctl)] = [@ EXCEPT !.ph = "body"]], Frame("iter", "run"))
    /\ UNCHANGED <<saved_symbol_stacks, call_depth, err>>

ForLoop(B) == Iterate("for", B)
WhileLoop == Iterate("while", {})
DoWhileLoop == Iterate("do", {})
CStyleFor == Iterate("cfor", {})

\* Where a loop goes after an iteration that ended with e: `continue` in a
\* for loop skips the end of the iteration, where the collector runs.
PhaseAfter(k, e) ==
    CASE k = "for" /\ e = "continue" -> "cond"
      [] k = "cfor" -> "update"
      [] k = "do" -> "check"
      [] OTHER -> "tail"

\* A labelled break or continue that names an outer loop passes through.
LeaveIteration ==
    LET loop == ctl[Len(ctl) - 1]
        Loop(f) == ctl' = [Front(ctl) EXCEPT ![Len(ctl) - 1] = f]
        GiveUp == IF loop.k = "cfor" THEN Loop([loop EXCEPT !.ph = "exit"])
                                     ELSE ctl' = Front(Front(ctl))
    IN
    /\ AtEnd("iter")
    /\ Leave
    /\ \/ /\ err \in {"none", "continue"}
          /\ Loop([loop EXCEPT !.ph = PhaseAfter(loop.k, err)])
          /\ err' = "none"
       \/ /\ err = "break"
          /\ GiveUp
          /\ err' = "none"
       \/ /\ err # "none"
          /\ GiveUp
          /\ err' = err
    /\ UNCHANGED <<saved_symbol_stacks, call_depth>>

\* Addresses the collector keeps: every symbol table, the callers' included.
Tables == {symbols} \cup Range(saved_symbol_stacks)
AddrsOf(scope) == {scope[n].addr : n \in DOMAIN scope}
TableAddrs(t) == UNION {AddrsOf(t[i]) : i \in DOMAIN t}

\* Wrong variant: the callers' variables are not roots.
RootsOfCallee == TableAddrs(symbols)

Roots == UNION {TableAddrs(t) : t \in Tables}

\* The end of an iteration: maybe_gc, then the loop goes round.
MaybeGc ==
    /\ err = "none"
    /\ Running({"while", "for", "do", "cfor"}) /\ Top.ph \in {"update", "check", "tail"}
    /\ IF should_gc THEN collect_garbage(Roots) ELSE UNCHANGED heapVars
    /\ SetPhase("cond")
    /\ UNCHANGED <<symbols, saved_symbol_stacks, call_depth, err>>

EndLoop ==
    /\ err = "none"
    /\ \/ Running({"while", "for"}) /\ Top.ph = "cond"
       \/ Running({"do"}) /\ Top.ph = "check"
    /\ Pop
    /\ UNCHANGED <<heapVars, symbols, saved_symbol_stacks, call_depth, err>>

\* Wrong variant: the limit returns from a C-style for like from the others.
LoopLimitLeaks ==
    /\ err = "none"
    /\ Running({"while", "for", "do", "cfor"}) /\ Top.ph \in {"init", "cond"}
    /\ RaiseIn(Front(ctl), "error")
    /\ Pop
    /\ UNCHANGED <<heapVars, symbols, saved_symbol_stacks, call_depth>>

\* Cancellation and the iteration limit, tested before each iteration.
LoopLimit ==
    /\ err = "none"
    /\ Running({"while", "for", "do", "cfor"}) /\ Top.ph \in {"init", "cond"}
    /\ RaiseIn(Front(ctl), "error")
    /\ IF Top.k = "cfor" THEN SetPhase("exit") ELSE Pop
    /\ UNCHANGED <<heapVars, symbols, saved_symbol_stacks, call_depth>>

EndCStyleFor ==
    /\ Running({"cfor"})
    /\ Top.ph = "exit" \/ (err = "none" /\ Top.ph \in {"init", "cond"})
    /\ Leave /\ Pop
    /\ UNCHANGED <<saved_symbol_stacks, call_depth, err>>

\* `?` in a loop condition, in the head of a C-style for and among the
\* arguments of a method call returns at once: nothing is popped.
HeadFails ==
    /\ err # "none"
    /\ Running({"while", "do", "cfor", "margs"}) /\ Top.ph # "exit"
    /\ Pop
    /\ UNCHANGED <<heapVars, symbols, saved_symbol_stacks, call_depth, err>>

-----------------------------------------------------------------------------
(* Calls.                                                                  *)

\* call_function sets the caller's stack aside and starts from a copy of the
\* outermost scope and one new scope, in which captures and parameters are
\* bound.
call_function(B) ==
    /\ AtExpression /\ CanNest
    /\ \/ /\ call_depth >= MAX_CALL_DEPTH
          /\ Raise("error")
          /\ UNCHANGED <<heapVars, symbols, saved_symbol_stacks, call_depth, ctl>>
       \/ /\ call_depth < MAX_CALL_DEPTH
          /\ Open(<<Head(symbols), << >> >>, B, FALSE)
          /\ saved_symbol_stacks' = Append(saved_symbol_stacks, symbols)
          /\ call_depth' = call_depth + 1
          /\ Push(Frame("call", "run"))
          /\ UNCHANGED err

\* A return ends here; a stray break or continue becomes an error, unless it
\* is labelled.
LeaveCall ==
    /\ AtEnd("call")
    /\ symbols' = Last(saved_symbol_stacks)
    /\ saved_symbol_stacks' = Front(saved_symbol_stacks)
    /\ pop_scope
    /\ call_depth' = call_depth - 1
    /\ err' \in CASE err \in {"none", "return"} -> {"none"}
                  [] err \in {"break", "continue"} -> {"error", err}
                  [] OTHER -> {"error"}
    /\ Pop

\* A method runs on top of its caller's scopes.  The receiver is bound before
\* the arguments are evaluated.
EnterMethod(B) ==
    /\ AtExpression /\ CanNest
    /\ \/ /\ call_depth + 1 > MAX_CALL_DEPTH
          /\ Raise("error")
          /\ UNCHANGED <<heapVars, symbols, call_depth, ctl>>
       \/ /\ call_depth + 1 <= MAX_CALL_DEPTH
          /\ Enter(B, TRUE)
          /\ call_depth' = call_depth + 1
          /\ Push(Frame("margs", "run"))
          /\ UNCHANGED err
    /\ UNCHANGED saved_symbol_stacks

RunMethod ==
    /\ err = "none"
    /\ Running({"margs"})
    /\ SetTop([Top EXCEPT !.k = "method"])
    /\ UNCHANGED <<heapVars, symbols, saved_symbol_stacks, call_depth, err>>

LeaveMethod ==
    /\ AtEnd("method")
    /\ Leave /\ Pop
    /\ call_depth' = call_depth - 1
    /\ err' = IF err = "return" THEN "none" ELSE err
    /\ UNCHANGED saved_symbol_stacks

-----------------------------------------------------------------------------
(* Unsafe blocks and raw pointers.                                         *)

\* The symbol table is pushed, the heap scope is not.
EnterUnsafe ==
    /\ "unsafe" \in Features
    /\ AtExpression /\ CanNest
    /\ \E a \in Candidates :
          /\ alloc(True, a, scope_allocations)
          /\ Define(Append(symbols, << >>), Len(symbols) + 1, UnsafeContext, Entry(a, FALSE))
    /\ Push(Frame("unsafe", "run"))
    /\ UNCHANGED <<saved_symbol_stacks, call_depth, err>>

\* Wrong variant: the heap scope is popped as well.
LeaveUnsafePopsHeap ==
    /\ AtEnd("unsafe")
    /\ Leave
    /\ err' = IF err = "return" THEN "none" ELSE err
    /\ Pop
    /\ UNCHANGED <<saved_symbol_stacks, call_depth>>

LeaveUnsafe ==
    /\ AtEnd("unsafe")
    /\ symbols' = Front(symbols)
    /\ err' = IF err = "return" THEN "none" ELSE err
    /\ Pop
    /\ UNCHANGED <<heapVars, saved_symbol_stacks, call_depth>>

InUnsafe ==
    \E i \in DOMAIN symbols :
        /\ UnsafeContext \in DOMAIN symbols[i]
        /\ LET a == symbols[i][UnsafeContext].addr IN a \in DOMAIN values /\ values[a] = True

PtrNew(v) ==
    /\ AtExpression /\ InUnsafe
    /\ \E a \in Candidates : alloc(v, a, scope_allocations)
    /\ UNCHANGED scopeVars

\* ptr_write to any non-negative integer; ptr_free writes Null.
PtrWrite(a, v) ==
    /\ AtExpression /\ InUnsafe
    /\ write(a, v)
    /\ UNCHANGED scopeVars

-----------------------------------------------------------------------------
(* try / catch / finally.                                                  *)

EnterTry ==
    /\ AtExpression /\ CanNest
    /\ Enter({}, FALSE)
    /\ Push(Frame("try", "run"))
    /\ UNCHANGED <<saved_symbol_stacks, call_depth, err>>

\* What follows the try and catch blocks: the statement ends with the result
\* they left, or a finally block runs first and holds that result back.
Conclude ==
    \/ Pop /\ UNCHANGED err
    \/ SetTop([Top EXCEPT !.k = "finish", !.ph = "run", !.pend = err]) /\ err' = "none"

\* An error goes to the catch block; return, break and continue pass it by.
LeaveTry ==
    /\ AtEnd("try")
    /\ Leave
    /\ \/ err = "error" /\ SetTop([Top EXCEPT !.k = "caught", !.ph = "run"]) /\ err' = "none"
       \/ err # "error" /\ Conclude
    /\ UNCHANGED <<saved_symbol_stacks, call_depth>>

EnterCatch(B) ==
    /\ Running({"caught"})
    /\ Enter(B, FALSE)
    /\ SetTop([Top EXCEPT !.k = "catch"])
    /\ UNCHANGED <<saved_symbol_stacks, call_depth, err>>

LeaveCatch ==
    /\ AtEnd("catch")
    /\ Leave
    /\ Conclude
    /\ UNCHANGED <<saved_symbol_stacks, call_depth>>

EnterFinally ==
    /\ Running({"finish"})
    /\ Enter({}, FALSE)
    /\ SetTop([Top EXCEPT !.k = "finally"])
    /\ UNCHANGED <<saved_symbol_stacks, call_depth, err>>

\* An error or signal of the finally block replaces the result held back.
LeaveFinally ==
    /\ AtEnd("finally")
    /\ Leave /\ Pop
    /\ err' = IF err = "none" THEN Top.pend ELSE err
    /\ UNCHANGED <<saved_symbol_stacks, call_depth>>

\* A statement of the program has failed: with --keep-going, and at the next
\* line of a session, execution goes on with the same interpreter.
NextTopLevel ==
    /\ ctl = << >> /\ err # "none"
    /\ err' = "none"
    /\ UNCHANGED <<heapVars, symbols, saved_symbol_stacks, call_depth, ctl>>

-----------------------------------------------------------------------------
Init ==
    /\ HeapInit
    /\ symbols = << << >> >>
    /\ saved_symbol_stacks = << >>
    /\ call_depth = 0
    /\ ctl = << >>
    /\ err = "none"

Statement ==
    \/ \E n \in Names, v \in Vals : Let(n, v) \/ ConstDef(n, v) \/ StaticDef(n, v) \/ Assignment(n, v)
    \/ \E e \in Raised : Fail(e)
    \/ Defer
    \/ \E k \in {"while", "for", "do"} : StartLoop(k)
    \/ StartCStyleFor

Loops ==
    \/ \E B \in Bindings : ForLoop(B)
    \/ WhileLoop \/ DoWhileLoop \/ CStyleFor
    \/ LeaveIteration \/ MaybeGc \/ EndLoop \/ LoopLimit \/ EndCStyleFor \/ HeadFails

Calls ==
    \/ \E B \in Bindings : call_function(B) \/ EnterMethod(B)
    \/ LeaveCall \/ RunMethod \/ LeaveMethod

Blocks ==
    \/ \E B \in Bindings : EnterBlock(B) \/ EnterCatch(B)
    \/ LeaveBlock \/ RunDeferred \/ EndDeferred
    \/ EnterTry \/ LeaveTry \/ LeaveCatch \/ EnterFinally \/ LeaveFinally

Pointers ==
    \/ EnterUnsafe \/ LeaveUnsafe
    \/ \E v \in Vals : PtrNew(v) \/ \E a \in PtrAddrs : PtrWrite(a, v)

Next == Statement \/ Loops \/ Calls \/ Blocks \/ Pointers \/ NextTopLevel

Spec == Init /\ [][Next]_vars

-----------------------------------------------------------------------------
IsScope(s) ==
    /\ DOMAIN s \subseteq Names \cup {UnsafeContext}
    /\ s \in [DOMAIN s -> [addr : Nat, mutable : BOOLEAN]]
IsTable(t) == t # << >> /\ t \in Seq(Range(t)) /\ \A i \in DOMAIN t : IsScope(t[i])
FrameType == [k : Bodies \cup Heads, ph : Phases, dfr : Nat, pend : Errs, base : Nat]

TypeOK ==
    /\ HeapTypeOK
    /\ \A t \in Tables : IsTable(t)
    /\ saved_symbol_stacks \in Seq(Range(saved_symbol_stacks))
    /\ scope_allocations # << >>
    /\ call_depth \in Nat
    /\ ctl \in Seq(FrameType)
    /\ err \in Errs

\* A name that can be looked up, now or after the calls in progress return,
\* denotes an allocated block: no scope exit, collection or unwinding frees a
\* variable that is still in scope (pop_scope and collect_garbage against the
\* symbol tables).
BindingsLive == \A t \in Tables : TableAddrs(t) \subseteq DOMAIN metadata

\* Two variables never share a block.  The only two bindings of one address
\* are copies of an outermost scope, which call_function makes on purpose.
NoAliasing ==
    \A s, t \in Tables : \A i \in DOMAIN s, j \in DOMAIN t :
        \A n \in DOMAIN s[i], m \in DOMAIN t[j] :
            s[i][n].addr = t[j][m].addr => n = m /\ (i = j /\ (s = t \/ i = 1))

\* The scopes and the heap are as deep as the constructs being executed say:
\* what a construct pushed has been popped, however it was left.
Count(ks) == Cardinality({i \in DOMAIN ctl : ctl[i].k \in ks})
ScopeBalance ==
    /\ Len(scope_allocations) =
          1 + Count((Bodies \ {"unsafe"}) \cup {"cfor", "margs"})
    /\ Len(saved_symbol_stacks) = Count({"call"})
    /\ call_depth = Count({"call", "method", "margs"})

\* The comment on the try block: "Scope-isolate the try block so variables
\* don't leak".  When the try block has been left for the catch block, the
\* symbol stack is as high as before the try.
TryIsolated ==
    \A i \in DOMAIN ctl : i = Len(ctl) /\ ctl[i].k = "caught" => Len(symbols) = ctl[i].base

\* The comment on StaticDef: "Static variables are module-level bindings,
\* stored in the outermost scope".  A variable of the outermost scope denotes
\* an allocated block for as long as that scope exists.
StaticsLive == AddrsOf(symbols[1]) \subseteq DOMAIN metadata

-----------------------------------------------------------------------------
(* The variables a program sees, without addresses.                        *)

Dangling == [kind |-> "Dangling", len |-> 0]
ValueAt(a) == IF a \in DOMAIN values THEN values[a] ELSE Dangling
ValuesOf(scope) == [n \in DOMAIN scope |-> ValueAt(scope[n].addr)]
Stacks == Append(saved_symbol_stacks, symbols)

\* A callee starts from a copy of its caller's outermost scope, whose names
\* stay the caller's: only what the callee has redefined there is its own.
Own(scope, callers) ==
    Restrict(scope, {n \in DOMAIN scope : n \notin DOMAIN callers \/ scope[n] # callers[n]})
FrameView(k, t) ==
    [i \in DOMAIN t |-> ValuesOf(IF i = 1 /\ k > 1 THEN Own(t[1], Stacks[k - 1][1]) ELSE t[i])]

E == INSTANCE Env WITH frames <- [k \in DOMAIN Stacks |-> FrameView(k, Stacks[k])]

\* Blocks are reused, swept, coalesced and resized; the program sees none of
\* it: every step is a step of Env or changes no variable.
VariablesAreCells == E!Spec
=============================================================================
