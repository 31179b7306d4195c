--------------------------- MODULE DebuggerProofs ---------------------------
(***************************************************************************)
(* The debugger, for every program and every client: the heap is handed    *)
(* back whole after Evaluate, the variables of the stopped program are     *)
(* kept, and the stepping commands go by the calls in progress.            *)
(*                                                                         *)
(* While the client's program runs it is an execution of the interpreter   *)
(* in its own right, above a floor: the scopes, stacks and depth of the    *)
(* stopped program.  So the invariants of ScopesProofs and BalanceProofs   *)
(* hold of it as they are, with that floor; what is new is that its steps  *)
(* take from the scopes below the floor and never add to them.             *)
(***************************************************************************)
EXTENDS Debugger, BalanceProofs

-----------------------------------------------------------------------------
(* What a step of a program does to the heap.                              *)

AssignmentMove ==
    \E i \in DOMAIN symbols, n \in Names, v \in Vals :
        /\ Innermost(i, n) /\ symbols[i][n].mutable
        /\ write(symbols[i][n].addr, v)
        /\ UNCHANGED symbols

AllocMove ==
    \E v \in Vals, a \in Candidates :
        alloc(v, a, scope_allocations) \/ alloc(v, a, Append(scope_allocations, {}))

PointerMove == \E a \in PtrAddrs, v \in Vals : write(a, v)

HeapMove ==
    \/ UNCHANGED heapVars \/ push_scope \/ pop_scope
    \/ AllocMove \/ collect_garbage(Roots) \/ AssignmentMove \/ PointerMove

LEMMA OpenMoves ==
    ASSUME NEW base, NEW B \in Bindings, NEW m, Open(base, B, m)
    PROVE  HeapMove
<1>1. CASE push_scope
    BY <1>1 DEF HeapMove
<1>2. ASSUME NEW b \in B, NEW a \in Candidates, alloc(b.v, a, Append(scope_allocations, {}))
      PROVE  HeapMove
    <2>1. b.v \in Vals
        BY DEF Bindings
    <2> QED
        BY <1>2, <2>1 DEF HeapMove, AllocMove
<1> QED
    BY <1>1, <1>2 DEF Open

LEMMA StatementMoves ==
    ASSUME Statement
    PROVE  HeapMove
<1>1. ASSUME NEW n \in Names, NEW v \in Vals,
             Let(n, v) \/ ConstDef(n, v) \/ StaticDef(n, v)
      PROVE  HeapMove
    <2>1. UNCHANGED heapVars \/ \E a \in Candidates : alloc(v, a, scope_allocations)
        BY <1>1 DEF Let, ConstDef, StaticDef
    <2> QED
        BY <2>1 DEF HeapMove, AllocMove
<1>2. ASSUME NEW n \in Names, NEW v \in Vals, Assignment(n, v)
      PROVE  HeapMove
    <2>1. UNCHANGED heapVars \/ AssignmentMove
        BY <1>2 DEF Assignment, AssignmentMove
    <2> QED
        BY <2>1 DEF HeapMove
<1>3. ASSUME NEW e \in Raised, Fail(e)
      PROVE  HeapMove
    BY <1>3 DEF Fail, HeapMove
<1>4. ASSUME Defer \/ \E k \in {"while", "for", "do"} : StartLoop(k)
      PROVE  HeapMove
    BY <1>4 DEF Defer, StartLoop, HeapMove
<1>5. ASSUME StartCStyleFor
      PROVE  HeapMove
    BY <1>5, NoBinding, OpenMoves DEF StartCStyleFor, Enter
<1> QED
    BY <1>1, <1>2, <1>3, <1>4, <1>5 DEF Statement

LEMMA LoopsMoves ==
    ASSUME Loops
    PROVE  HeapMove
<1>1. ASSUME NEW k, NEW B \in Bindings, Iterate(k, B)
      PROVE  HeapMove
    BY <1>1, OpenMoves DEF Iterate, Enter
<1>2. ASSUME LeaveIteration \/ EndCStyleFor
      PROVE  HeapMove
    <2>1. pop_scope
        BY <1>2 DEF LeaveIteration, EndCStyleFor, Leave
    <2> QED
        BY <2>1 DEF HeapMove
<1>3. ASSUME MaybeGc
      PROVE  HeapMove
    <2>1. collect_garbage(Roots) \/ UNCHANGED heapVars
        BY <1>3 DEF MaybeGc
    <2> QED
        BY <2>1 DEF HeapMove
<1>4. ASSUME EndLoop \/ LoopLimit \/ HeadFails
      PROVE  HeapMove
    <2>1. UNCHANGED heapVars
        BY <1>4 DEF EndLoop, LoopLimit, HeadFails
    <2> QED
        BY <2>1 DEF HeapMove
<1> QED
    BY <1>1, <1>2, <1>3, <1>4, NoBinding DEF Loops, ForLoop, WhileLoop, DoWhileLoop, CStyleFor

LEMMA CallsMoves ==
    ASSUME Calls
    PROVE  HeapMove
<1>1. ASSUME NEW B \in Bindings, call_function(B)
      PROVE  HeapMove
    <2>1. UNCHANGED heapVars \/ Open(<<Head(symbols), << >> >>, B, FALSE)
        BY <1>1 DEF call_function
    <2> QED
        BY <2>1, OpenMoves DEF HeapMove
<1>2. ASSUME NEW B \in Bindings, EnterMethod(B)
      PROVE  HeapMove
    <2>1. UNCHANGED heapVars \/ Open(Append(symbols, << >>), B, TRUE)
        BY <1>2 DEF EnterMethod, Enter
    <2> QED
        BY <2>1, OpenMoves DEF HeapMove
<1>3. ASSUME LeaveCall \/ RunMethod \/ LeaveMethod
      PROVE  HeapMove
    <2>1. pop_scope \/ UNCHANGED heapVars
        BY <1>3 DEF LeaveCall, RunMethod, LeaveMethod, Leave
    <2> QED
        BY <2>1 DEF HeapMove
<1> QED
    BY <1>1, <1>2, <1>3 DEF Calls

LEMMA BlocksMoves ==
    ASSUME Blocks
    PROVE  HeapMove
<1>1. ASSUME NEW B \in Bindings, EnterBlock(B) \/ EnterCatch(B)
      PROVE  HeapMove
    <2>1. Open(Append(symbols, << >>), B, FALSE)
        BY <1>1 DEF EnterBlock, EnterCatch, Enter
    <2> QED
        BY <2>1, OpenMoves
<1>2. ASSUME EnterTry \/ EnterFinally
      PROVE  HeapMove
    <2>1. Open(Append(symbols, << >>), {}, FALSE)
        BY <1>2 DEF EnterTry, EnterFinally, Enter
    <2> QED
        BY <2>1, NoBinding, OpenMoves
<1>3. ASSUME LeaveBlock \/ LeaveTry \/ LeaveCatch \/ LeaveFinally
      PROVE  HeapMove
    <2>1. pop_scope
        BY <1>3 DEF LeaveBlock, LeaveTry, LeaveCatch, LeaveFinally, Leave
    <2> QED
        BY <2>1 DEF HeapMove
<1>4. ASSUME RunDeferred \/ EndDeferred
      PROVE  HeapMove
    <2>1. UNCHANGED heapVars
        BY <1>4 DEF RunDeferred, EndDeferred
    <2> QED
        BY <2>1 DEF HeapMove
<1> QED
    BY <1>1, <1>2, <1>3, <1>4 DEF Blocks

LEMMA PointersMoves ==
    ASSUME Pointers
    PROVE  HeapMove
<1>1. ASSUME EnterUnsafe
      PROVE  HeapMove
    <2>1. True \in Vals
        BY ScopesAssumption
    <2>2. \E a \in Candidates : alloc(True, a, scope_allocations)
        BY <1>1 DEF EnterUnsafe
    <2> QED
        BY <2>1, <2>2 DEF HeapMove, AllocMove
<1>2. ASSUME LeaveUnsafe
      PROVE  HeapMove
    BY <1>2 DEF LeaveUnsafe, HeapMove
<1>3. ASSUME NEW v \in Vals, PtrNew(v)
      PROVE  HeapMove
    BY <1>3 DEF PtrNew, HeapMove, AllocMove
<1>4. ASSUME NEW v \in Vals, NEW a \in PtrAddrs, PtrWrite(a, v)
      PROVE  HeapMove
    BY <1>4 DEF PtrWrite, HeapMove, PointerMove
<1> QED
    BY <1>1, <1>2, <1>3, <1>4 DEF Pointers

LEMMA NextMoves ==
    ASSUME Next
    PROVE  HeapMove
<1>1. CASE NextTopLevel
    BY <1>1 DEF NextTopLevel, HeapMove
<1> QED
    BY <1>1, StatementMoves, LoopsMoves, CallsMoves, BlocksMoves, PointersMoves DEF Next

-----------------------------------------------------------------------------
(* The scopes below the innermost one.                                     *)

LEMMA AppendBelow ==
    ASSUME NEW s \in Seq(SUBSET Nat), NEW i \in 1..Len(s)
    PROVE  /\ i \in DOMAIN Append(s, {}) /\ Append(s, {})[i] = s[i]
           /\ Len(Append(s, {})) = Len(s) + 1
OBVIOUS

\* No scope but the innermost gets a block, and no step closes any other.
LEMMA ScopesBelow ==
    ASSUME Inv, Next, NEW i \in 1..(Len(scope_allocations) - 1)
    PROVE  i \in DOMAIN scope_allocations' /\ scope_allocations'[i] \subseteq scope_allocations[i]
<1> DEFINE s == scope_allocations
           n == Len(s)
<1>1. s \in Seq(SUBSET Nat) /\ s # << >>
    BY InvFacts
<1>2. n \in Nat /\ DOMAIN s = 1..n /\ i \in 1..n /\ i # n /\ i \in 1..(n + 1) /\ i # n + 1
    BY <1>1
<1>3. HeapMove
    BY NextMoves
<1>4. CASE scope_allocations' = scope_allocations
    BY <1>4, <1>2
<1>5. CASE push_scope
    <2>1. scope_allocations' = Append(s, {})
        BY <1>5 DEF push_scope
    <2>2. i \in DOMAIN Append(s, {}) /\ Append(s, {})[i] = s[i]
        BY <1>1, <1>2, AppendBelow
    <2> QED
        BY <2>1, <2>2
<1>6. CASE pop_scope
    <2>1. scope_allocations' = Front(s)
        BY <1>6 DEF pop_scope
    <2>2. DOMAIN Front(s) = 1..(n - 1) /\ \A j \in 1..(n - 1) : Front(s)[j] = s[j]
        BY <1>1, FrontAppend
    <2> QED
        BY <2>1, <2>2
<1>7. CASE AllocMove
    <2>1. PICK a : \/ scope_allocations' = [s EXCEPT ![Len(s)] = @ \cup {a}]
                   \/ scope_allocations' =
                        [Append(s, {}) EXCEPT ![Len(Append(s, {}))] = @ \cup {a}]
        BY <1>7 DEF AllocMove, alloc
    <2>2. /\ i \in DOMAIN Append(s, {}) /\ Append(s, {})[i] = s[i]
          /\ Len(Append(s, {})) = n + 1
        BY <1>1, <1>2, AppendBelow
    <2> QED
        BY <2>1, <2>2, <1>2
<1>8. CASE collect_garbage(Roots)
    <2>1. scope_allocations' = [j \in DOMAIN s |-> s[j] \cap Roots]
        BY <1>8 DEF collect_garbage
    <2> QED
        BY <2>1, <1>2
<1>9. UNCHANGED heapVars \/ AssignmentMove \/ PointerMove => scope_allocations' = scope_allocations
    BY DEF heapVars, AssignmentMove, PointerMove, write
<1> QED
    BY <1>3, <1>4, <1>5, <1>6, <1>7, <1>8, <1>9 DEF HeapMove

\* The blocks of the first h scopes.
Below(h, s) == UNION {s[i] : i \in 1..h}

LEMMA LessBelow ==
    ASSUME Inv, Next, NEW h \in Nat, h < Len(scope_allocations)
    PROVE  Below(h, scope_allocations') \subseteq Below(h, scope_allocations)
<1>1. Len(scope_allocations) \in Nat
    BY InvFacts
<1>2. \A i \in 1..h : i \in 1..(Len(scope_allocations) - 1)
    BY <1>1
<1>3. \A i \in 1..h : scope_allocations'[i] \subseteq scope_allocations[i]
    BY <1>2, ScopesBelow
<1> QED
    BY <1>3 DEF Below

LEMMA FewerInUse ==
    ASSUME NEW f, NEW D, NEW B, NEW n, FreeListOK(f, D, n), B \subseteq D
    PROVE  FreeListOK(f, B, n)
BY DEF FreeListOK

-----------------------------------------------------------------------------
(* The invariant.                                                          *)

\* The next thing that happens in c is a statement.
StatementOf(c) ==
    \/ c = << >>
    \/ Last(c).k \in Bodies /\ Last(c).ph = "run"
    \/ Last(c).k = "cfor" /\ Last(c).ph \in {"init", "update"}

SavedType ==
    [on : {TRUE}, next_addr : Nat, free_list : Seq(BlockType), allocs : Nat,
     symbols : Seq(ScopeType), stacks : Seq(Seq(ScopeType)), depth : Nat,
     ctl : Seq(FrameType), height : Nat]

\* The stopped program: what the invariants say of its stacks.
SavedOK(s) ==
    /\ s \in SavedType
    /\ StackOK(s.ctl, Len(s.symbols), s.height, s.depth, s.stacks)
    /\ Exact(Ground, s.ctl, s.height, s.depth, Len(s.stacks))
    /\ Calm(s.ctl, "none")
    /\ StatementOf(s.ctl)

\* Its free list and bump pointer fit the blocks it still has.
HeapBelow(s) == FreeListOK(s.free_list, Below(s.height, scope_allocations), s.next_addr)

\* The client's program: above the stopped one and its own heap scope.
Floor(s) == [heap |-> s.height + 1, depth |-> s.depth, saved |-> Len(s.stacks)]

AtRest == saved = Nothing /\ Even(Ground) /\ (paused => AtStatement)
Amid == paused /\ SavedOK(saved) /\ HeapBelow(saved) /\ Even(Floor(saved))

Session ==
    /\ debug \in [mode : StepModes, start : Nat, calls : Nat, kept : Nat]
    /\ debug.start = debug.calls
    /\ checked \in BOOLEAN /\ paused \in BOOLEAN /\ connected \in BOOLEAN
    /\ paused => checked
    /\ resumes \in 0 .. MaxResumes /\ evaluations \in 0 .. MaxEvaluations

DebugInv == Inv /\ Session /\ (AtRest \/ Amid)

LEMMA GroundFloor == Ground \in Floors
BY DEF Ground, Floors

LEMMA NotOn ==
    ASSUME AtRest \/ Amid
    PROVE  /\ AtRest => ~saved.on
           /\ Amid => saved.on
           /\ saved.on \in BOOLEAN
<1>1. AtRest => saved.on = FALSE
    BY DEF AtRest, Nothing
<1>2. Amid => saved.on = TRUE
    BY DEF Amid, SavedOK, SavedType
<1> QED
    BY <1>1, <1>2

LEMMA FloorTyped ==
    ASSUME NEW s \in SavedType
    PROVE  Floor(s) \in Floors
<1>1. s.height \in Nat /\ s.depth \in Nat /\ s.stacks \in Seq(Seq(ScopeType))
    BY DEF SavedType
<1>2. Len(s.stacks) \in Nat /\ s.height + 1 \in Nat
    BY <1>1
<1> QED
    BY <1>1, <1>2 DEF Floor, Floors

\* Under exactly its floor, call_depth counts the calls in progress.
LEMMA DepthIsCalls ==
    ASSUME Inv, Even(Ground)
    PROVE  call_depth = CallsInProgress /\ CallsInProgress \in Nat
<1>1. CallsInProgress = Cnt(ctl, DepthKinds)
    BY DEF CallsInProgress, Count, Cnt, DepthKinds
<1>2. Cnt(ctl, DepthKinds) \in Nat
    BY InvFacts, CntFinite
<1>3. call_depth = 0 + Cnt(ctl, DepthKinds)
    BY DEF Even, Exact, Ground
<1> QED
    BY <1>1, <1>2, <1>3

LEMMA DepthIsCallsNext ==
    (Inv /\ Even(Ground))' => (call_depth = CallsInProgress /\ CallsInProgress \in Nat)'
<1>1. Inv /\ Even(Ground) => call_depth = CallsInProgress /\ CallsInProgress \in Nat
    BY DepthIsCalls
<1> QED
    BY <1>1, PTL

LEMMA StatementIs ==
    ASSUME AtStatement
    PROVE  err = "none" /\ StatementOf(ctl)
BY DEF AtStatement, InBody, Running, StatementOf, Top

LEMMA IsStatement ==
    ASSUME err = "none", StatementOf(ctl)
    PROVE  AtStatement
BY DEF AtStatement, InBody, Running, StatementOf, Top

-----------------------------------------------------------------------------
(* Steps of the program and of debug_check, while nothing is evaluated.    *)

LEMMA ProgramInv ==
    ASSUME "headError" \notin Features, DebugInv, ProgramStep
    PROVE  DebugInv'
<1>1. /\ ~paused /\ Next /\ UNCHANGED <<paused, connected, saved, resumes, evaluations>>
      /\ checked' \in BOOLEAN
      /\ debug' = [debug EXCEPT !.kept = IF CallsInProgress' < @ THEN CallsInProgress' ELSE @]
    BY DEF ProgramStep
<1>2. Inv /\ Session /\ AtRest
    BY <1>1 DEF DebugInv, Amid
<1>3. Inv' /\ Even(Ground)'
    BY <1>1, <1>2, NextInv, NextEven, GroundFloor DEF AtRest
<1>4. Session'
    <2>1. CallsInProgress' \in Nat
        BY <1>3, DepthIsCallsNext
    <2>2. /\ debug' \in [mode : StepModes, start : Nat, calls : Nat, kept : Nat]
          /\ debug'.start = debug'.calls
        BY <1>1, <1>2, <2>1 DEF Session
    <2> QED
        BY <1>1, <1>2, <2>2 DEF Session
<1>5. AtRest'
    BY <1>1, <1>2, <1>3 DEF AtRest
<1> QED
    BY <1>3, <1>4, <1>5 DEF DebugInv

\* Commands and checks leave the program alone.
LEMMA StillInv ==
    ASSUME "headError" \notin Features, DebugInv, AtRest, UNCHANGED <<vars, saved>>, Session',
           paused' => AtStatement
    PROVE  DebugInv'
<1>1. Inv' /\ Even(Ground)'
    BY NextInv, NextEven, GroundFloor DEF AtRest, DebugInv
<1>2. paused' => AtStatement'
    BY DEF AtStatement, InBody, Running, Top, vars, scopeVars
<1>3. AtRest'
    BY <1>1, <1>2 DEF AtRest
<1> QED
    BY <1>1, <1>3 DEF DebugInv

LEMMA CheckInv ==
    ASSUME "headError" \notin Features, DebugInv, debug_check
    PROVE  DebugInv'
<1>1. /\ AtStatement /\ ~paused /\ checked' = TRUE
      /\ UNCHANGED <<vars, debug, connected, saved, resumes, evaluations>>
    BY DEF debug_check
<1>2. paused' \in BOOLEAN
    BY DEF debug_check
<1>3. Session /\ AtRest
    BY <1>1 DEF DebugInv, Amid
<1>4. Session'
    BY <1>1, <1>2, <1>3 DEF Session
<1> QED
    BY <1>1, <1>3, <1>4, StillInv

LEMMA ResumeInv ==
    ASSUME "headError" \notin Features, DebugInv, NEW mode \in StepModes, Resume(mode)
    PROVE  DebugInv'
<1>1. /\ ~saved.on /\ paused' = FALSE
      /\ resumes < MaxResumes /\ resumes' = resumes + 1
      /\ UNCHANGED <<vars, checked, connected, saved, evaluations>>
      /\ \/ debug' = [mode |-> mode, start |-> call_depth,
                       calls |-> CallsInProgress, kept |-> CallsInProgress]
         \/ debug' = [debug EXCEPT !.mode = mode]
    BY DEF Resume
<1>2. Inv /\ Session /\ AtRest
    BY <1>1, NotOn DEF DebugInv
<1>3. call_depth = CallsInProgress /\ CallsInProgress \in Nat
    BY <1>2, DepthIsCalls DEF AtRest
<1>4. /\ debug' \in [mode : StepModes, start : Nat, calls : Nat, kept : Nat]
      /\ debug'.start = debug'.calls
    BY <1>1, <1>2, <1>3 DEF Session
<1>5. resumes' \in 0 .. MaxResumes
    BY <1>1, <1>2, DebuggerAssumption DEF Session
<1>6. Session'
    BY <1>1, <1>2, <1>4, <1>5 DEF Session
<1> QED
    BY <1>1, <1>2, <1>6, StillInv

LEMMA DisconnectInv ==
    ASSUME "headError" \notin Features, DebugInv, Disconnect
    PROVE  DebugInv'
<1>1. /\ ~saved.on /\ paused' = FALSE
      /\ resumes < MaxResumes /\ resumes' = resumes + 1
      /\ connected' = FALSE /\ UNCHANGED <<vars, debug, checked, saved, evaluations>>
    BY DEF Disconnect
<1>2. Session /\ AtRest
    BY <1>1, NotOn DEF DebugInv
<1>3. resumes' \in 0 .. MaxResumes
    BY <1>1, <1>2, DebuggerAssumption DEF Session
<1>4. Session'
    BY <1>1, <1>2, <1>3 DEF Session
<1> QED
    BY <1>1, <1>2, <1>4, StillInv

-----------------------------------------------------------------------------
(* Evaluate.                                                               *)

LEMMA CntEmpty == \A ks : Cnt(<< >>, ks) = 0
<1>1. ASSUME NEW ks
      PROVE  {i \in DOMAIN << >> : << >>[i].k \in ks} = {}
    OBVIOUS
<1> QED
    BY <1>1, FS_EmptySet DEF Cnt

\* The client's program begins above the stopped one.
LEMMA EmptyStack ==
    ASSUME Inv, NEW H \in Nat, H >= 1
    PROVE  StackOK(<< >>, Len(symbols), H, call_depth, saved_symbol_stacks)
<1>1. /\ saved_symbol_stacks \in Seq(Seq(ScopeType)) /\ Len(symbols) >= 1 /\ call_depth \in Nat
    BY InvFacts
<1>2. << >> \in Seq(FrameType) /\ Len(<< >>) = 0 /\ DOMAIN << >> = {}
    OBVIOUS
<1>3. Chained(<< >>, Len(symbols))
    BY <1>1, <1>2 DEF Chained, Height
<1>4. Linked(<< >>, saved_symbol_stacks)
    <2> DEFINE idx == [i \in DOMAIN saved_symbol_stacks |-> 0]
    <2>1. idx \in [DOMAIN saved_symbol_stacks -> DOMAIN << >> \cup {0}]
        OBVIOUS
    <2>2. \A i \in DOMAIN saved_symbol_stacks : idx[i] = 0
        OBVIOUS
    <2> HIDE DEF idx
    <2>3. \A i \in DOMAIN saved_symbol_stacks : Len(saved_symbol_stacks[i]) >= 1
        <3>1. ASSUME NEW i \in DOMAIN saved_symbol_stacks
              PROVE  Len(saved_symbol_stacks[i]) >= 1
            <4>1. saved_symbol_stacks[i] # << >> /\ saved_symbol_stacks[i] \in Seq(ScopeType)
                BY <1>1, SavedNonempty
            <4> QED
                BY <4>1
        <3> QED
            BY <3>1
    <2>4. Links(idx, << >>, saved_symbol_stacks)
        BY <2>2, <2>3 DEF Links
    <2> QED
        BY <2>1, <2>4 DEF Linked
<1>5. IterOK(<< >>)
    BY DEF IterOK
<1> QED
    BY <1>1, <1>2, <1>3, <1>4, <1>5, CntEmpty DEF StackOK

LEMMA CalmEmpty == Calm(<< >>, "none")
<1>1. Len(<< >>) = 0
    OBVIOUS
<1> QED
    BY <1>1 DEF Calm, Held, Bodied, Clear

\* What is saved of a program that has stopped.
LEMMA SavesOK ==
    ASSUME Inv, Even(Ground), AtStatement
    PROVE  SavedOK(Saved)
<1>1. /\ HeapTypeOK /\ symbols \in Seq(ScopeType) /\ saved_symbol_stacks \in Seq(Seq(ScopeType))
      /\ call_depth \in Nat /\ ctl \in Seq(FrameType) /\ Len(scope_allocations) \in Nat
      /\ StackOK(ctl, Len(symbols), Len(scope_allocations), call_depth, saved_symbol_stacks)
    BY InvFacts DEF HeapOK, HeapInv
<1>2. next_addr \in Nat /\ free_list \in Seq(BlockType) /\ allocs_since_gc \in Nat
    BY <1>1 DEF HeapTypeOK, BlockType
<1>3. Saved \in SavedType
    BY <1>1, <1>2 DEF Saved, SavedType
<1>4. err = "none" /\ StatementOf(ctl)
    BY StatementIs
<1>5. Exact(Ground, ctl, Len(scope_allocations), call_depth, Len(saved_symbol_stacks)) /\ Calm(ctl, "none")
    BY <1>4 DEF Even
<1>6. /\ Saved.ctl = ctl /\ Saved.symbols = symbols /\ Saved.height = Len(scope_allocations)
      /\ Saved.depth = call_depth /\ Saved.stacks = saved_symbol_stacks
    BY DEF Saved
<1> QED
    BY <1>1, <1>3, <1>4, <1>5, <1>6 DEF SavedOK

LEMMA BeginInv ==
    ASSUME "headError" \notin Features, DebugInv, BeginEvaluate
    PROVE  DebugInv'
<1>1. /\ paused /\ ~saved.on /\ push_scope /\ ctl' = << >> /\ saved' = Saved
      /\ evaluations < MaxEvaluations /\ evaluations' = evaluations + 1
      /\ UNCHANGED <<symbols, saved_symbol_stacks, call_depth, err, debug, checked, paused, connected, resumes>>
    BY DEF BeginEvaluate
<1>2. Inv /\ Session /\ AtRest
    BY <1>1, NotOn DEF DebugInv
<1>3. Even(Ground) /\ AtStatement /\ err = "none"
    BY <1>1, <1>2, StatementIs DEF AtRest
<1>4. /\ HeapOK /\ scope_allocations \in Seq(SUBSET Nat) /\ Len(scope_allocations) \in Nat
      /\ symbols \in Seq(ScopeType) /\ saved_symbol_stacks \in Seq(Seq(ScopeType))
      /\ call_depth \in Nat
    BY <1>2, InvFacts
<1>5. HeapOK' /\ Len(scope_allocations') = Len(scope_allocations) + 1
    BY <1>1, <1>4, PushHeap
<1> PICK H \in Nat : H = Len(scope_allocations)
    BY <1>4
<1>6. StackOK(<< >>, Len(symbols), H + 1, call_depth, saved_symbol_stacks)
    BY <1>2, EmptyStack
<1>7. Inv'
    BY <1>1, <1>3, <1>4, <1>5, <1>6 DEF Inv, Errs
<1>8. Session'
    <2>1. evaluations' \in 0 .. MaxEvaluations
        BY <1>1, <1>2, DebuggerAssumption DEF Session
    <2> QED
        BY <2>1, <1>1, <1>2 DEF Session
<1> PICK s : s = Saved
    OBVIOUS
<1>9. SavedOK(s)
    BY <1>2, <1>3, SavesOK
<1>10. /\ s.height = H /\ s.depth = call_depth /\ s.stacks = saved_symbol_stacks
       /\ s.free_list = free_list /\ s.next_addr = next_addr
    BY DEF Saved
<1>11. FreeListOK(s.free_list, Below(s.height, scope_allocations'), s.next_addr)
    <2>1. FreeListOK(free_list, DOMAIN metadata, next_addr)
        BY <1>4 DEF HeapOK, HeapInv, NoDoubleFree, FreeListOK, DistinctAddrs
    <2>2. ASSUME NEW i \in 1..H
          PROVE  scope_allocations'[i] \subseteq DOMAIN metadata
        <3>1. scope_allocations' = Append(scope_allocations, {})
            BY <1>1 DEF push_scope
        <3>2. scope_allocations'[i] = scope_allocations[i] /\ i \in DOMAIN scope_allocations
            BY <3>1, <1>4, AppendBelow
        <3> QED
            BY <3>2, <1>4 DEF HeapOK, OwnedOnce
    <2>3. Below(H, scope_allocations') \subseteq DOMAIN metadata
        BY <2>2 DEF Below
    <2> QED
        BY <2>1, <2>3, <1>10, FewerInUse
<1>12. Exact(Floor(s), << >>, H + 1, call_depth, Len(saved_symbol_stacks))
    <2>1. \A n \in Nat : n = n + 0
        OBVIOUS
    <2>2. H + 1 \in Nat /\ Len(saved_symbol_stacks) \in Nat
        BY <1>4
    <2>3. /\ Floor(s).heap = H + 1 /\ Floor(s).depth = call_depth
          /\ Floor(s).saved = Len(saved_symbol_stacks)
        BY <1>10 DEF Floor
    <2> QED
        BY <2>1, <2>2, <2>3, <1>4, CntEmpty DEF Exact
<1>13. Even(Floor(s))'
    BY <1>1, <1>3, <1>5, <1>12, CalmEmpty DEF Even
<1>14. Amid'
    BY <1>1, <1>9, <1>11, <1>13 DEF Amid, HeapBelow
<1> QED
    BY <1>7, <1>8, <1>14 DEF DebugInv

LEMMA StepInv ==
    ASSUME "headError" \notin Features, DebugInv, EvaluateStep
    PROVE  DebugInv'
<1>1. /\ saved.on /\ Next
      /\ UNCHANGED <<debug, checked, paused, connected, saved, resumes, evaluations>>
    BY DEF EvaluateStep, debugVars
<1>2. Inv /\ Session /\ Amid
    BY <1>1, NotOn DEF DebugInv
<1> PICK s : s = saved
    OBVIOUS
<1>3. paused /\ SavedOK(s) /\ HeapBelow(s) /\ Even(Floor(s)) /\ s \in SavedType
    BY <1>2 DEF Amid, SavedOK
<1>4. Floor(s) \in Floors
    BY <1>3, FloorTyped
<1>5. Inv' /\ Even(Floor(s))'
    BY <1>1, <1>2, <1>3, <1>4, NextInv, NextEven
<1>6. s.height \in Nat /\ s.height < Len(scope_allocations)
    <2>1. s.height \in Nat /\ Cnt(ctl, HeapKinds) \in Nat
        BY <1>2, <1>3, InvFacts, CntFinite DEF SavedType
    <2>2. Len(scope_allocations) = s.height + 1 + Cnt(ctl, HeapKinds)
        BY <1>3 DEF Even, Exact, Floor
    <2> QED
        BY <2>1, <2>2
<1>7. HeapBelow(s)'
    BY <1>1, <1>2, <1>3, <1>6, LessBelow, FewerInUse DEF HeapBelow
<1>8. Amid'
    BY <1>1, <1>3, <1>5, <1>7 DEF Amid
<1>9. Session'
    BY <1>1, <1>2 DEF Session
<1> QED
    BY <1>5, <1>8, <1>9 DEF DebugInv

LEMMA FunctionIsSeq ==
    ASSUME NEW S, NEW m \in Nat, NEW q \in [1..m -> S]
    PROVE  q \in Seq(S) /\ Len(q) = m
OBVIOUS

\* A deferred expression joins a block of the stopped program.
LEMMA DeferOK ==
    ASSUME NEW s, SavedOK(s), NEW i \in DOMAIN s.ctl
    PROVE  LET z == [s EXCEPT !.ctl[i].dfr = @ + 1] IN
           /\ SavedOK(z)
           /\ z.height = s.height /\ z.depth = s.depth /\ z.stacks = s.stacks
           /\ z.free_list = s.free_list /\ z.next_addr = s.next_addr
<1> DEFINE z == [s EXCEPT !.ctl[i].dfr = @ + 1]
           c == s.ctl
           e == z.ctl
           n == Len(c)
<1>1. /\ s \in SavedType /\ StackOK(c, Len(s.symbols), s.height, s.depth, s.stacks)
      /\ Exact(Ground, c, s.height, s.depth, Len(s.stacks)) /\ Calm(c, "none") /\ StatementOf(c)
    BY DEF SavedOK
<1>2. /\ c \in Seq(FrameType) /\ s.symbols \in Seq(ScopeType) /\ s.stacks \in Seq(Seq(ScopeType))
      /\ s.height \in Nat /\ s.depth \in Nat
    BY <1>1 DEF SavedType
<1>3. n \in Nat /\ DOMAIN c = 1..n /\ i \in 1..n
    BY <1>2
<1>4. /\ e = [c EXCEPT ![i].dfr = @ + 1]
      /\ z.symbols = s.symbols /\ z.height = s.height /\ z.depth = s.depth /\ z.stacks = s.stacks
      /\ z.free_list = s.free_list /\ z.next_addr = s.next_addr /\ z = [s EXCEPT !.ctl = e]
    BY <1>1 DEF SavedType
<1>5. \A j \in 1..n : c[j] \in FrameType
    BY <1>2, <1>3
<1> HIDE DEF z, c, e, n
<1>6. /\ DOMAIN e = 1..n
      /\ \A j \in 1..n : /\ e[j] \in FrameType /\ e[j].k = c[j].k /\ e[j].base = c[j].base
                         /\ e[j].ph = c[j].ph /\ e[j].pend = c[j].pend
    <2> DEFINE f == [c[i] EXCEPT !.dfr = @ + 1]
    <2>1. /\ f \in FrameType /\ f.k = c[i].k /\ f.base = c[i].base
          /\ f.ph = c[i].ph /\ f.pend = c[i].pend
        BY <1>3, <1>5 DEF FrameType
    <2>2. e = [c EXCEPT ![i] = f]
        BY <1>4
    <2> HIDE DEF f
    <2>3. DOMAIN e = 1..n /\ \A j \in 1..n : e[j] = IF j = i THEN f ELSE c[j]
        BY <2>2, <1>3
    <2> QED
        BY <2>1, <2>3, <1>5
<1>7. e \in Seq(FrameType) /\ Len(e) = n
    <2>1. n \in Nat /\ DOMAIN c = 1..n /\ e = [c EXCEPT ![i].dfr = @ + 1]
        BY <1>3, <1>4
    <2>2. e \in [1..n -> FrameType]
        BY <2>1, <1>6
    <2> QED
        BY <2>1, <2>2, FunctionIsSeq
<1>8. StackOK(e, Len(s.symbols), s.height, s.depth, s.stacks)
    <2>1. Len(s.symbols) \in Nat
        BY <1>2
    <2> QED
        BY <2>1, <1>1, <1>2, <1>6, <1>7, StackLike DEF n
<1>9. \A ks : Cnt(e, ks) = Cnt(c, ks)
    <2>1. ASSUME NEW ks
          PROVE  {j \in DOMAIN e : e[j].k \in ks} = {j \in DOMAIN c : c[j].k \in ks}
        BY <1>3, <1>6
    <2> QED
        BY <2>1 DEF Cnt
<1>10. Exact(Ground, e, s.height, s.depth, Len(s.stacks))
    BY <1>1, <1>9 DEF Exact
<1>11. \A j \in 1..n : LeakyHead(e[j]) <=> LeakyHead(c[j])
    BY <1>6 DEF LeakyHead
<1>12. Calm(e, "none")
    <2>1. Held(c) /\ Bodied(c)
        BY <1>1 DEF Calm
    <2>2. Held(e)
        <3>1. ASSUME NEW j \in 1..n, e[j].pend # "none", NEW k \in 1..(j - 1)
              PROVE  ~LeakyHead(e[k])
            <4>1. k \in 1..n /\ c[j].pend # "none"
                BY <3>1, <1>3, <1>6
            <4>2. ~LeakyHead(c[k])
                BY <4>1, <2>1 DEF Held, n
            <4> QED
                BY <4>1, <4>2, <1>11
        <3> QED
            BY <3>1, <1>7 DEF Held
    <2>3. Bodied(e)
        <3>1. ASSUME NEW j \in 1..n, e[j].k = "cfor", e[j].ph \notin HeadPhases
              PROVE  j + 1 \in 1..n /\ e[j + 1].k = "iter"
            <4>1. c[j].k = "cfor" /\ c[j].ph \notin HeadPhases
                BY <3>1, <1>6
            <4>2. j + 1 \in 1..n /\ c[j + 1].k = "iter"
                BY <4>1, <2>1 DEF Bodied, n
            <4> QED
                BY <4>2, <1>6
        <3> QED
            BY <3>1, <1>7 DEF Bodied
    <2> QED
        BY <2>2, <2>3 DEF Calm
<1>13. StatementOf(e)
    <2>1. CASE c = << >>
        BY <2>1, <1>3 DEF n
    <2>2. CASE c # << >>
        <3>1. Last(c) = c[n] /\ Last(e) = e[n] /\ n \in 1..n
            BY <2>2, <1>2, <1>3, <1>7 DEF Last, n
        <3>2. Last(e).k = Last(c).k /\ Last(e).ph = Last(c).ph
            BY <3>1, <1>6
        <3> QED
            BY <3>2, <2>2, <1>1 DEF StatementOf
    <2> QED
        BY <2>1, <2>2
<1>14. z \in SavedType
    BY <1>1, <1>4, <1>7 DEF SavedType
<1>15. SavedOK(z)
    BY <1>4, <1>8, <1>10, <1>12, <1>13, <1>14 DEF SavedOK, e
<1> QED
    BY <1>4, <1>15 DEF z

LEMMA DeferInv ==
    ASSUME "headError" \notin Features, DebugInv, EvaluateDefer
    PROVE  DebugInv'
<1>1. saved.on /\ UNCHANGED <<vars, debug, checked, paused, connected, resumes, evaluations>>
    BY DEF EvaluateDefer
<1>2. PICK i \in DOMAIN saved.ctl : saved' = [saved EXCEPT !.ctl[i].dfr = @ + 1]
    BY DEF EvaluateDefer
<1>3. Inv /\ Session /\ Amid
    BY <1>1, NotOn DEF DebugInv
<1> PICK s : s = saved
    OBVIOUS
<1>4. paused /\ SavedOK(s) /\ HeapBelow(s) /\ Even(Floor(s)) /\ s \in SavedType
    BY <1>3 DEF Amid, SavedOK
<1> PICK z : z = [s EXCEPT !.ctl[i].dfr = @ + 1]
    OBVIOUS
<1>5. /\ SavedOK(z)
      /\ z.height = s.height /\ z.depth = s.depth /\ z.stacks = s.stacks
      /\ z.free_list = s.free_list /\ z.next_addr = s.next_addr
    BY <1>2, <1>4, DeferOK
<1>6. Floor(z) = Floor(s)
    BY <1>5 DEF Floor
<1>7. Inv' /\ Even(Floor(s))'
    BY <1>1, <1>3, <1>4, FloorTyped, NextInv, NextEven
<1>8. HeapBelow(z)'
    BY <1>1, <1>4, <1>5 DEF HeapBelow, vars, heapVars
<1>9. Amid'
    BY <1>1, <1>2, <1>4, <1>5, <1>6, <1>7, <1>8 DEF Amid
<1>10. Session'
    BY <1>1, <1>3 DEF Session
<1> QED
    BY <1>7, <1>9, <1>10 DEF DebugInv

\* The heap without its innermost scope, with a free list that fits the others.
LEMMA HandedBack ==
    ASSUME HeapOK, NEW h \in Nat, Len(scope_allocations) = h + 1,
           NEW f \in Seq(BlockType), NEW n \in Nat, NEW g \in Nat,
           FreeListOK(f, Below(h, scope_allocations), n),
           NEW freed, freed = Last(scope_allocations) \cap DOMAIN metadata,
           scope_allocations' = Front(scope_allocations),
           values' = Restrict(values, DOMAIN values \ freed),
           metadata' = Restrict(metadata, DOMAIN metadata \ freed),
           next_addr' = n, free_list' = f, allocs_since_gc' = g
    PROVE  HeapOK'
<1>1. /\ HeapInv /\ HeapTypeOK /\ scope_allocations \in Seq(SUBSET Nat)
      /\ Owned(scope_allocations, DOMAIN metadata)
    BY DEF HeapOK, HeapInv, HeapTypeOK, OwnedOnce, Owned
<1>2. scope_allocations # << >>
    BY <1>1
<1>3. /\ DOMAIN metadata' = DOMAIN metadata \ Last(scope_allocations)
      /\ metadata' \in [DOMAIN metadata' -> Nat]
    BY <1>1 DEF Restrict, HeapTypeOK
<1>4. DOMAIN values' = DOMAIN values \ freed /\ values' \in [DOMAIN values' -> Vals]
    BY <1>1 DEF Restrict, HeapTypeOK
<1>5. IsFiniteSet(DOMAIN metadata')
    <2>1. IsFiniteSet(DOMAIN metadata)
        BY <1>1 DEF HeapTypeOK
    <2>2. IsFiniteSet(DOMAIN metadata \ Last(scope_allocations))
        BY <2>1, FS_Difference
    <2> QED
        BY <2>2, <1>3
<1>6. /\ scope_allocations' \in Seq(SUBSET Nat) /\ DOMAIN scope_allocations' = 1..h
      /\ \A i \in 1..h : scope_allocations'[i] = scope_allocations[i]
    <2>1. /\ Front(scope_allocations) \in Seq(SUBSET Nat)
          /\ DOMAIN Front(scope_allocations) = 1..(Len(scope_allocations) - 1)
          /\ \A i \in 1..(Len(scope_allocations) - 1) :
                Front(scope_allocations)[i] = scope_allocations[i]
        BY <1>1, <1>2, FrontAppend
    <2>2. Len(scope_allocations) - 1 = h
        OBVIOUS
    <2> QED
        BY <2>1, <2>2
<1>7. Owned(scope_allocations', DOMAIN metadata')
    BY <1>1, <1>2, <1>3, PopOwned
<1>8. DOMAIN metadata' \subseteq Below(h, scope_allocations)
    <2>1. ASSUME NEW b \in DOMAIN metadata'
          PROVE  b \in Below(h, scope_allocations)
        <3>1. PICK i \in 1..h : b \in scope_allocations'[i]
            BY <2>1, <1>6, <1>7 DEF Owned
        <3>2. b \in scope_allocations[i]
            BY <3>1, <1>6
        <3> QED
            BY <3>2 DEF Below
    <2> QED
        BY <2>1
<1>9. FreeListOK(f, DOMAIN metadata', n)
    BY <1>8, FewerInUse
<1>10. HeapTypeOK'
    BY <1>1, <1>3, <1>4, <1>5, <1>6 DEF HeapTypeOK, BlockType
<1>11. NoDoubleFree'
    BY <1>9 DEF NoDoubleFree, FreeListOK, DistinctAddrs
<1>12. DOMAIN metadata' \subseteq DOMAIN values'
    BY <1>1, <1>3, <1>4 DEF HeapInv
<1> QED
    BY <1>7, <1>10, <1>11, <1>12 DEF HeapOK, HeapInv, OwnedOnce, Owned

LEMMA EndInv ==
    ASSUME "headError" \notin Features, DebugInv, EndEvaluate
    PROVE  DebugInv'
<1> DEFINE freed == Last(scope_allocations) \cap DOMAIN metadata
<1>1. /\ saved.on /\ ctl = << >> /\ scope_allocations' = Front(scope_allocations)
      /\ values' = Restrict(values, DOMAIN values \ freed)
      /\ metadata' = Restrict(metadata, DOMAIN metadata \ freed)
      /\ next_addr' = saved.next_addr /\ free_list' = saved.free_list
      /\ allocs_since_gc' = saved.allocs
      /\ symbols' = saved.symbols /\ saved_symbol_stacks' = saved.stacks
      /\ call_depth' = saved.depth /\ ctl' = saved.ctl
      /\ err' = "none" /\ saved' = Nothing
      /\ UNCHANGED <<debug, checked, paused, connected, resumes, evaluations>>
    BY DEF EndEvaluate
<1> HIDE DEF freed
<1>2. Inv /\ Session /\ Amid
    BY <1>1, NotOn DEF DebugInv
<1> PICK s : s = saved
    OBVIOUS
<1>3. paused /\ SavedOK(s) /\ HeapBelow(s) /\ Even(Floor(s)) /\ s \in SavedType
    BY <1>2 DEF Amid, SavedOK
<1>4. /\ s.next_addr \in Nat /\ s.free_list \in Seq(BlockType) /\ s.allocs \in Nat
      /\ s.symbols \in Seq(ScopeType) /\ s.stacks \in Seq(Seq(ScopeType))
      /\ s.depth \in Nat /\ s.ctl \in Seq(FrameType) /\ s.height \in Nat
    BY <1>3 DEF SavedType
<1>5. Len(scope_allocations) = s.height + 1
    <2>1. Len(scope_allocations) = (s.height + 1) + 0
        BY <1>1, <1>3, CntEmpty DEF Even, Exact, Floor
    <2> QED
        BY <2>1, <1>4
<1>6. HeapOK'
    <2>1. HeapOK
        BY <1>2, InvFacts
    <2>2. FreeListOK(s.free_list, Below(s.height, scope_allocations), s.next_addr)
        BY <1>3 DEF HeapBelow
    <2> QED
        BY <2>1, <2>2, <1>1, <1>4, <1>5, HandedBack DEF freed
<1>7. Len(scope_allocations') = s.height
    <2>1. scope_allocations \in Seq(SUBSET Nat) /\ scope_allocations # << >>
        BY <1>2, InvFacts
    <2>2. Len(Front(scope_allocations)) = Len(scope_allocations) - 1
        BY <2>1, FrontAppend
    <2> QED
        BY <2>2, <1>1, <1>4, <1>5
<1>8. /\ StackOK(s.ctl, Len(s.symbols), s.height, s.depth, s.stacks)
      /\ Exact(Ground, s.ctl, s.height, s.depth, Len(s.stacks))
      /\ Calm(s.ctl, "none") /\ StatementOf(s.ctl)
    BY <1>3 DEF SavedOK
<1>9. Inv'
    BY <1>1, <1>4, <1>6, <1>7, <1>8 DEF Inv, Errs
<1>10. Even(Ground)'
    BY <1>1, <1>7, <1>8 DEF Even
<1>11. AtStatement'
    BY <1>1, <1>8, IsStatement DEF AtStatement, InBody, Running, StatementOf, Top
<1>12. AtRest'
    BY <1>1, <1>10, <1>11 DEF AtRest
<1>13. Session'
    BY <1>1, <1>2 DEF Session
<1> QED
    BY <1>9, <1>12, <1>13 DEF DebugInv

-----------------------------------------------------------------------------
(* The theorems.                                                           *)

LEMMA DebugInitInv == DebugInit => DebugInv
<1> SUFFICES ASSUME DebugInit PROVE DebugInv
    OBVIOUS
<1>1. Inv /\ Even(Ground)
    BY InitInv, InitEven DEF DebugInit
<1>2. Session
    <2>1. MaxResumes \in Nat /\ MaxEvaluations \in Nat
        BY DebuggerAssumption
    <2>2. resumes \in 0 .. MaxResumes /\ evaluations \in 0 .. MaxEvaluations
        BY <2>1 DEF DebugInit
    <2>3. /\ debug \in [mode : StepModes, start : Nat, calls : Nat, kept : Nat]
          /\ debug.start = debug.calls
        BY DEF DebugInit, StepModes
    <2>4. checked \in BOOLEAN /\ paused \in BOOLEAN /\ connected \in BOOLEAN /\ (paused => checked)
        BY DEF DebugInit
    <2> QED
        BY <2>2, <2>3, <2>4 DEF Session
<1>3. AtRest
    BY <1>1 DEF DebugInit, AtRest
<1> QED
    BY <1>1, <1>2, <1>3 DEF DebugInv

LEMMA DebugNextInv ==
    ASSUME "headError" \notin Features, DebugInv, [DebugNext]_allVars
    PROVE  DebugInv'
<1>1. CASE DebugNext
    BY <1>1, ProgramInv, CheckInv, ResumeInv, DisconnectInv, BeginInv, StepInv, DeferInv, EndInv
    DEF DebugNext
<1>2. CASE UNCHANGED allVars
    <2>1. UNCHANGED vars /\ UNCHANGED <<debug, checked, paused, connected, saved, resumes, evaluations>>
        BY <1>2 DEF allVars, debugVars
    <2>2. Session'
        BY <2>1 DEF DebugInv, Session
    <2>3. CASE AtRest
        BY <2>1, <2>2, <2>3, StillInv DEF AtRest
    <2>4. CASE Amid
        <3> PICK s : s = saved
            OBVIOUS
        <3>1. Inv /\ paused /\ SavedOK(s) /\ HeapBelow(s) /\ Even(Floor(s)) /\ s \in SavedType
            BY <2>4 DEF DebugInv, Amid, SavedOK
        <3>2. Inv' /\ Even(Floor(s))'
            BY <2>1, <3>1, FloorTyped, NextInv, NextEven
        <3>3. HeapBelow(s)'
            BY <2>1, <3>1 DEF HeapBelow, vars, heapVars
        <3>4. Amid'
            BY <2>1, <3>1, <3>2, <3>3 DEF Amid
        <3> QED
            BY <2>2, <3>2, <3>4 DEF DebugInv
    <2> QED
        BY <2>3, <2>4 DEF DebugInv
<1> QED
    BY <1>1, <1>2

\* The invariant holds throughout every session.
THEOREM DebugInvariant ==
    ASSUME "headError" \notin Features
    PROVE  DebugSpec => []DebugInv
<1>1. DebugInit => DebugInv
    BY DebugInitInv
<1>2. DebugInv /\ [DebugNext]_allVars => DebugInv'
    BY DebugNextInv
<1> QED
    BY <1>1, <1>2, PTL DEF DebugSpec

\* Under the debugger, whatever the client sends and evaluates, the interpreter
\* stays type correct, and the program stops only before a statement and not twice
\* before the same one (debug_check, Evaluate).
THEOREM DebugTypeCorrect ==
    ASSUME "headError" \notin Features
    PROVE  DebugSpec => []DebugTypeOK
<1>1. DebugInv => DebugTypeOK
    <2> SUFFICES ASSUME DebugInv PROVE DebugTypeOK
        OBVIOUS
    <2>1. TypeOK
        BY InvTypeOK DEF DebugInv
    <2>2. /\ Session /\ saved.on \in BOOLEAN
          /\ paused => saved.on \/ AtStatement
          /\ saved.on => paused
        BY NotOn DEF DebugInv, AtRest, Amid
    <2>3. /\ debug \in [mode : StepModes, start : Nat, calls : Nat, kept : Nat]
          /\ resumes \in 0 .. MaxResumes /\ evaluations \in 0 .. MaxEvaluations
        BY <2>2 DEF Session
    <2>4. {checked, paused, saved.on} \subseteq BOOLEAN
        <3>1. checked \in BOOLEAN /\ paused \in BOOLEAN /\ saved.on \in BOOLEAN
            BY <2>2 DEF Session
        <3> QED
            BY <3>1
    <2>5. connected \in BOOLEAN
        BY <2>2 DEF Session
    <2>6. {checked, paused, connected, saved.on} \subseteq BOOLEAN
        BY <2>4, <2>5
    <2>7. paused => checked /\ (saved.on \/ AtStatement)
        BY <2>2, Zenon DEF Session
    <2> QED
        BY <2>1, <2>2, <2>3, <2>6, <2>7, Zenon DEF DebugTypeOK
<1> QED
    BY <1>1, DebugInvariant, PTL

\* Evaluate hands the heap back whole: whatever the client's program allocated,
\* freed and collected, when the bump pointer and the free list are put back over it
\* no block is both free and in use, and each block in use has one owner.
THEOREM EvaluateHandsBack ==
    ASSUME "headError" \notin Features
    PROVE  DebugSpec => []HeapHandedBack
<1>1. DebugInv => HeapHandedBack
    BY DEF DebugInv, Inv, HeapOK, HeapInv, HeapHandedBack
<1> QED
    BY <1>1, DebugInvariant, PTL

-----------------------------------------------------------------------------
(* Stepping.                                                               *)

\* Only debug_check marks a statement as checked, without a step of the program.
LEMMA OnlyChecks ==
    ASSUME DebugInv, [DebugNext]_allVars, ~checked, checked', UNCHANGED vars
    PROVE  debug_check
<1>1. ASSUME ProgramStep
      PROVE  FALSE
    <2>1. Len(ctl) \in Nat /\ ctl' = ctl
        BY InvFacts DEF DebugInv, vars, scopeVars
    <2>2. checked' \in IF Len(ctl') < Len(ctl) THEN BOOLEAN ELSE {FALSE}
        BY <1>1 DEF ProgramStep
    <2>3. ~(Len(ctl') < Len(ctl))
        BY <2>1
    <2>4. checked' \in {FALSE}
        BY <2>2, <2>3
    <2> QED
        BY <2>4
<1>2. ASSUME UNCHANGED checked
      PROVE  FALSE
    BY <1>2
<1> QED
    BY <1>1, <1>2 DEF DebugNext, Resume, Disconnect, BeginEvaluate, EvaluateStep,
                      EvaluateDefer, EndEvaluate, debugVars, allVars

\* kept is at most the calls in progress, and at most those at the command.
KeptOK ==
    /\ debug.kept <= debug.calls
    /\ IF saved.on THEN debug.kept <= saved.depth ELSE debug.kept <= call_depth

SteppingInv == DebugInv /\ KeptOK

LEMMA KeptLeast ==
    ASSUME NEW k \in Nat, NEW m \in Nat, NEW c \in Nat, m <= k
    PROVE  /\ (IF c < m THEN c ELSE m) <= k
           /\ (IF c < m THEN c ELSE m) <= c
OBVIOUS

LEMMA KeptProgram ==
    ASSUME "headError" \notin Features, SteppingInv, ProgramStep
    PROVE  KeptOK'
<1>1. Session /\ DebugInv'
    BY ProgramInv DEF SteppingInv, DebugInv
<1>2. /\ ~paused /\ saved' = saved
      /\ debug' = [debug EXCEPT !.kept = IF CallsInProgress' < @ THEN CallsInProgress' ELSE @]
    BY DEF ProgramStep
<1>3. ~saved.on
    BY <1>1, <1>2, NotOn DEF SteppingInv, DebugInv, Amid
<1>4. AtRest' /\ Inv'
    <2>1. (AtRest \/ Amid)'
        BY <1>1 DEF DebugInv
    <2>2. ~Amid'
        BY <1>2, <1>3 DEF Amid, SavedOK, SavedType
    <2> QED
        BY <1>1, <2>1, <2>2 DEF DebugInv
<1>5. call_depth' = CallsInProgress' /\ CallsInProgress' \in Nat
    BY <1>4, DepthIsCallsNext DEF AtRest
<1> PICK c : c = CallsInProgress'
    OBVIOUS
<1>6. debug.kept \in Nat /\ debug.calls \in Nat /\ debug.kept <= debug.calls
    BY <1>1 DEF Session, SteppingInv, KeptOK
<1>7. debug'.kept = (IF c < debug.kept THEN c ELSE debug.kept) /\ debug'.calls = debug.calls
    BY <1>1, <1>2 DEF Session
<1>8. debug'.kept <= debug'.calls /\ debug'.kept <= call_depth'
    BY <1>5, <1>6, <1>7, KeptLeast
<1> QED
    BY <1>2, <1>3, <1>8 DEF KeptOK

LEMMA KeptCommand ==
    ASSUME SteppingInv, NEW mode \in StepModes, Resume(mode)
    PROVE  KeptOK'
<1>1. /\ ~saved.on /\ UNCHANGED <<saved, vars>>
      /\ \/ debug' = [mode |-> mode, start |-> call_depth,
                       calls |-> CallsInProgress, kept |-> CallsInProgress]
         \/ debug' = [debug EXCEPT !.mode = mode]
    BY DEF Resume
<1>2. Inv /\ Session /\ AtRest
    BY <1>1, NotOn DEF SteppingInv, DebugInv
<1>3. call_depth = CallsInProgress /\ CallsInProgress \in Nat
    BY <1>2, DepthIsCalls DEF AtRest
<1>4. call_depth' = call_depth
    BY <1>1 DEF vars, scopeVars
<1>5. debug'.kept <= debug'.calls /\ debug'.kept <= call_depth
    BY <1>1, <1>2, <1>3 DEF Session, SteppingInv, KeptOK
<1> QED
    BY <1>1, <1>4, <1>5 DEF KeptOK

\* The client's program has a depth of its own, which EndEvaluate puts back.
LEMMA KeptEvaluate ==
    ASSUME SteppingInv, BeginEvaluate \/ EvaluateStep \/ EvaluateDefer \/ EndEvaluate
    PROVE  KeptOK'
<1>1. debug' = debug /\ debug.kept <= debug.calls
    BY DEF SteppingInv, KeptOK, BeginEvaluate, EvaluateStep, EvaluateDefer, EndEvaluate, debugVars
<1>2. saved.on => debug.kept <= saved.depth
    BY DEF SteppingInv, KeptOK
<1>3. CASE BeginEvaluate
    <2>1. ~saved.on /\ saved' = Saved
        BY <1>3 DEF BeginEvaluate
    <2>2. saved'.on /\ saved'.depth = call_depth
        BY <2>1 DEF Saved
    <2> QED
        BY <1>1, <2>1, <2>2 DEF SteppingInv, KeptOK
<1>4. CASE EvaluateStep
    BY <1>1, <1>2, <1>4 DEF KeptOK, EvaluateStep, debugVars
<1>5. CASE EvaluateDefer
    <2>1. saved.on /\ \E i \in DOMAIN saved.ctl : saved' = [saved EXCEPT !.ctl[i].dfr = @ + 1]
        BY <1>5 DEF EvaluateDefer
    <2>2. saved \in SavedType
        BY <2>1, NotOn DEF SteppingInv, DebugInv, Amid, SavedOK
    <2>3. saved'.on /\ saved'.depth = saved.depth
        BY <2>1, <2>2 DEF SavedType
    <2> QED
        BY <1>1, <1>2, <2>1, <2>3 DEF KeptOK
<1>6. CASE EndEvaluate
    <2>1. saved.on /\ saved' = Nothing /\ call_depth' = saved.depth
        BY <1>6 DEF EndEvaluate
    <2>2. ~saved'.on
        BY <2>1 DEF Nothing
    <2> QED
        BY <1>1, <1>2, <2>1, <2>2 DEF KeptOK
<1> QED
    BY <1>3, <1>4, <1>5, <1>6

LEMMA KeptNext ==
    ASSUME "headError" \notin Features, SteppingInv, [DebugNext]_allVars
    PROVE  SteppingInv'
<1>1. DebugInv'
    BY DebugNextInv DEF SteppingInv
<1>2. ASSUME UNCHANGED <<debug, saved, call_depth>>
      PROVE  KeptOK'
    BY <1>2 DEF SteppingInv, KeptOK
<1>3. debug_check => KeptOK'
    BY <1>2 DEF debug_check, vars, scopeVars
<1>4. Disconnect => KeptOK'
    BY <1>2 DEF Disconnect, vars, scopeVars
<1>5. UNCHANGED allVars => KeptOK'
    BY <1>2 DEF allVars, debugVars, vars, scopeVars
<1>6. KeptOK'
    BY <1>3, <1>4, <1>5, KeptProgram, KeptCommand, KeptEvaluate DEF DebugNext
<1> QED
    BY <1>1, <1>6 DEF SteppingInv

\* What a check of a statement decides, of the numbers the modes compare.
LEMMA Compared ==
    ASSUME NEW c \in Nat, NEW m \in Nat, NEW k \in Nat, k <= m, k <= c
    PROVE  /\ c = k => c <= m
           /\ k = m /\ c # k => ~(c <= m)
           /\ c = k /\ k # m => c < m
           /\ k = m => ~(c < m)
OBVIOUS

LEMMA StepsStep ==
    ASSUME SteppingInv, [DebugNext]_allVars, ~checked, checked', connected, UNCHANGED vars
    PROVE  /\ debug.mode = "StepOver" =>
                  /\ CallsInProgress = debug.kept => paused'
                  /\ debug.kept = debug.calls /\ CallsInProgress # debug.kept => ~paused'
           /\ debug.mode = "StepOut" =>
                  /\ CallsInProgress = debug.kept /\ debug.kept # debug.calls => paused'
                  /\ debug.kept = debug.calls => ~paused'
<1>1. debug_check
    BY OnlyChecks DEF SteppingInv
<1>2. Inv /\ Session /\ AtRest /\ KeptOK
    BY <1>1 DEF debug_check, SteppingInv, DebugInv, Amid
<1>3. call_depth = CallsInProgress /\ CallsInProgress \in Nat
    BY <1>2, DepthIsCalls DEF AtRest
<1>4. debug.start = debug.calls /\ debug.calls \in Nat /\ debug.kept \in Nat
    BY <1>2 DEF Session
<1>5. debug.kept <= debug.calls /\ debug.kept <= CallsInProgress
    BY <1>2, <1>3, NotOn DEF KeptOK
<1> PICK c : c = CallsInProgress
    OBVIOUS
<1>6. /\ c = debug.kept => c <= debug.calls
      /\ debug.kept = debug.calls /\ c # debug.kept => ~(c <= debug.calls)
      /\ c = debug.kept /\ debug.kept # debug.calls => c < debug.calls
      /\ debug.kept = debug.calls => ~(c < debug.calls)
    BY <1>3, <1>4, <1>5, Compared
<1>7. PICK pause \in should_pause : paused' = (pause /\ connected)
    BY <1>1 DEF debug_check
<1>8. ASSUME debug.mode = "StepOver"
      PROVE  paused' <=> c <= debug.calls
    <2>1. pause = (call_depth <= debug.start)
        BY <1>7, <1>8 DEF should_pause
    <2> QED
        BY <2>1, <1>3, <1>4, <1>7
<1>9. ASSUME debug.mode = "StepOut"
      PROVE  paused' <=> c < debug.calls
    <2>1. pause = (call_depth < debug.start)
        BY <1>7, <1>9 DEF should_pause
    <2> QED
        BY <2>1, <1>3, <1>4, <1>7
<1> QED
    BY <1>6, <1>8, <1>9

\* Without an error in the arguments of a method, in the pairs of a map or in the
\* head of a for (each leaves call_depth or a stack too high), step over and step out
\* go by calls: the first stops at the next statement of a call that was in progress
\* at the command and, while that of the command goes on, at none of a call it
\* makes; the second at the next statement of a caller, and at none before the call
\* of the command has returned (debug_check, DebugState, Evaluate's call_depth).
THEOREM StepsGoByCalls ==
    ASSUME "headError" \notin Features
    PROVE  DebugSpec => StepsByCalls
<1>1. DebugInit => SteppingInv
    <2> SUFFICES ASSUME DebugInit PROVE SteppingInv
        OBVIOUS
    <2>1. DebugInv /\ debug.kept = 0 /\ debug.calls = 0 /\ ~saved.on /\ call_depth = 0
        BY DebugInitInv DEF DebugInit, Nothing, Init
    <2> QED
        BY <2>1 DEF SteppingInv, KeptOK
<1>2. SteppingInv /\ [DebugNext]_allVars => SteppingInv'
    BY KeptNext
<1>3. SteppingInv /\ [DebugNext]_allVars
      => [~checked /\ checked' /\ connected /\ UNCHANGED vars =>
             LET inOld == CallsInProgress = debug.kept
                 ownGoesOn == debug.kept = debug.calls
             IN  /\ debug.mode = "StepOver" =>
                       /\ inOld => paused'
                       /\ ownGoesOn /\ ~inOld => ~paused'
                 /\ debug.mode = "StepOut" =>
                       /\ inOld /\ ~ownGoesOn => paused'
                       /\ ownGoesOn => ~paused']_allVars
    BY StepsStep
<1> QED
    BY <1>1, <1>2, <1>3, PTL DEF DebugSpec, StepsByCalls

-----------------------------------------------------------------------------
(* The variables of the stopped program.                                   *)

\* A variable of a scope below the floor is a block in use, and no block of the
\* innermost scope.
LEMMA StoppedBlock ==
    ASSUME DebugInv, saved.on, NEW a \in StoppedAddrs
    PROVE  a \in DOMAIN metadata /\ a \in DOMAIN values /\ a \notin Last(scope_allocations)
<1>1. Inv /\ Amid
    BY NotOn DEF DebugInv
<1> PICK s : s = saved
    OBVIOUS
<1>2. s \in SavedType /\ Even(Floor(s))
    BY <1>1 DEF Amid, SavedOK
<1>3. s.height \in Nat /\ Cnt(ctl, HeapKinds) \in Nat
    BY <1>1, <1>2, InvFacts, CntFinite DEF SavedType
<1>4. Len(scope_allocations) = s.height + 1 + Cnt(ctl, HeapKinds)
    BY <1>2 DEF Even, Exact, Floor
<1>5. PICK i \in 1..s.height : a \in scope_allocations[i]
    BY DEF StoppedAddrs
<1>6. /\ scope_allocations \in Seq(SUBSET Nat) /\ scope_allocations # << >>
      /\ HeapInv /\ OwnedOnce
    BY <1>1, InvFacts DEF HeapOK
<1>7. /\ Last(scope_allocations) = scope_allocations[Len(scope_allocations)]
      /\ DOMAIN scope_allocations = 1..Len(scope_allocations)
      /\ Len(scope_allocations) \in 1..Len(scope_allocations)
    BY <1>6, FrontAppend
<1>8. i \in 1..Len(scope_allocations) /\ i # Len(scope_allocations)
    BY <1>3, <1>4
<1>9. a \in DOMAIN metadata
    BY <1>5, <1>6, <1>7, <1>8 DEF OwnedOnce
<1>10. a \notin Last(scope_allocations)
    <2>1. i \in DOMAIN scope_allocations /\ Len(scope_allocations) \in DOMAIN scope_allocations
        BY <1>7, <1>8
    <2>2. scope_allocations[i] \cap scope_allocations[Len(scope_allocations)] = {}
        BY <1>6, <1>8, <2>1 DEF OwnedOnce
    <2> QED
        BY <2>2, <1>5, <1>7
<1> QED
    BY <1>6, <1>9, <1>10 DEF HeapInv

\* A step of the client's program, on a block that is not of its innermost scope.
LEMMA ClientKeeps ==
    ASSUME Inv, PtrAddrs = {}, Next, NEW a \in DOMAIN metadata, a \in DOMAIN values,
           a \notin Last(scope_allocations)
    PROVE  IF a \in DOMAIN values' THEN values'[a] = values[a] \/ AssignedTo(a) ELSE a \notin Roots
<1>1. HeapMove
    BY NextMoves
<1>2. /\ HeapInv /\ scope_allocations \in Seq(SUBSET Nat) /\ symbols \in Seq(ScopeType)
      /\ Append(scope_allocations, {}) \in Seq(SUBSET Nat)
    BY InvFacts DEF HeapOK
<1>3. ASSUME UNCHANGED values
      PROVE  a \in DOMAIN values' /\ values'[a] = values[a]
    BY <1>3
<1>4. CASE UNCHANGED heapVars \/ push_scope
    BY <1>3, <1>4 DEF heapVars, push_scope
<1>5. CASE pop_scope
    <2>1. a \in DOMAIN values \ (Last(scope_allocations) \cap DOMAIN metadata)
        OBVIOUS
    <2>2. values' = Restrict(values, DOMAIN values \ (Last(scope_allocations) \cap DOMAIN metadata))
        BY <1>5 DEF pop_scope
    <2> QED
        BY <2>1, <2>2 DEF Restrict
<1>6. CASE AllocMove
    <2>1. PICK v \in Vals, b \in Candidates :
              alloc(v, b, scope_allocations) \/ alloc(v, b, Append(scope_allocations, {}))
        BY <1>6 DEF AllocMove
    <2>2. b \notin DOMAIN metadata
        BY <2>1, <1>2, AllocInv
    <2>3. values' = [x \in DOMAIN values \cup {b} |-> IF x = b THEN v ELSE values[x]]
        BY <2>1 DEF alloc
    <2> QED
        BY <2>2, <2>3
<1>7. CASE collect_garbage(Roots)
    <2>1. values' = Restrict(values, DOMAIN values \ (DOMAIN values \ Roots))
        BY <1>7 DEF collect_garbage
    <2>2. a \in Roots => a \in DOMAIN values' /\ values'[a] = values[a]
        BY <2>1 DEF Restrict
    <2>3. a \notin Roots => a \notin DOMAIN values'
        BY <2>1 DEF Restrict
    <2> QED
        BY <2>2, <2>3
<1>8. CASE AssignmentMove
    <2>1. PICK i \in DOMAIN symbols, n \in Names, v \in Vals :
              /\ Innermost(i, n) /\ symbols[i][n].mutable
              /\ write(symbols[i][n].addr, v)
              /\ UNCHANGED symbols
        BY <1>8 DEF AssignmentMove
    <2>2. symbols[i][n] \in EntryType
        BY <2>1, <1>2 DEF Innermost, ScopeType
    <2> PICK e \in EntryType : e = symbols[i][n]
        BY <2>2
    <2>3. e.mutable /\ write(e.addr, v)
        BY <2>1
    <2>4. /\ values' = [x \in DOMAIN values \cup {e.addr} |-> IF x = e.addr THEN v ELSE values[x]]
          /\ UNCHANGED <<scope_allocations, free_list>>
        BY <2>3 DEF write
    <2>5. CASE e.addr = a
        <3>1. e = Entry(a, TRUE)
            BY <2>3, <2>5 DEF EntryType, Entry
        <3>2. AssignedTo(a)
            BY <2>1, <2>4, <3>1 DEF AssignedTo
        <3> QED
            BY <2>4, <3>2
    <2>6. CASE e.addr # a
        BY <2>4, <2>6
    <2> QED
        BY <2>5, <2>6
<1>9. CASE PointerMove
    BY <1>9 DEF PointerMove
<1> QED
    BY <1>1, <1>4, <1>5, <1>6, <1>7, <1>8, <1>9 DEF HeapMove

LEMMA KeptStep ==
    ASSUME "headError" \notin Features, PtrAddrs = {}, DebugInv, [DebugNext]_allVars, saved.on,
           NEW a \in StoppedAddrs
    PROVE  IF a \in DOMAIN values' THEN values'[a] = values[a] \/ AssignedTo(a)
                                   ELSE a \notin Roots /\ saved'.on
<1>1. Inv /\ paused
    BY NotOn DEF DebugInv, Amid
<1>2. a \in DOMAIN metadata /\ a \in DOMAIN values /\ a \notin Last(scope_allocations)
    BY StoppedBlock
<1>3. CASE EvaluateStep
    <2>1. Next /\ saved' = saved
        BY <1>3 DEF EvaluateStep, debugVars
    <2>2. IF a \in DOMAIN values' THEN values'[a] = values[a] \/ AssignedTo(a) ELSE a \notin Roots
        BY <1>1, <1>2, <2>1, ClientKeeps
    <2> QED
        BY <2>1, <2>2
<1>4. CASE EvaluateDefer \/ UNCHANGED allVars
    <2>1. values' = values
        BY <1>4 DEF EvaluateDefer, vars, allVars, heapVars
    <2> QED
        BY <2>1, <1>2
<1>5. CASE EndEvaluate
    <2>1. a \in DOMAIN values \ (Last(scope_allocations) \cap DOMAIN metadata)
        BY <1>2
    <2>2. values' = Restrict(values, DOMAIN values \ (Last(scope_allocations) \cap DOMAIN metadata))
        BY <1>5 DEF EndEvaluate
    <2> QED
        BY <2>1, <2>2 DEF Restrict
<1> QED
    BY <1>1, <1>3, <1>4, <1>5 DEF DebugNext, ProgramStep, debug_check, Resume, Disconnect, BeginEvaluate

\* Without pointers, Evaluate changes a variable of the stopped program only by an
\* assignment through a mutable binding in sight of the client's program, and takes
\* one away only by a collection for which it is no root.
THEOREM StoppedVariablesAreKept ==
    ASSUME "headError" \notin Features, PtrAddrs = {}
    PROVE  DebugSpec => StoppedVariablesKept
<1>1. DebugInv /\ [DebugNext]_allVars
      => [saved.on => \A a \in StoppedAddrs :
             IF a \in DOMAIN values' THEN values'[a] = values[a] \/ AssignedTo(a)
                                     ELSE a \notin Roots /\ saved'.on]_allVars
    BY KeptStep
<1> QED
    BY <1>1, DebugInvariant, PTL DEF DebugSpec, StoppedVariablesKept
=============================================================================
