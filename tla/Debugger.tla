------------------------------ MODULE Debugger ------------------------------
(***************************************************************************)
(* The interpreter under its debugger: debug_check, called before every    *)
(* statement, may stop the program and take commands from a client on      *)
(* another thread until one of them resumes it.  Evaluate runs a program   *)
(* of the client's in the middle of the stopped one, on the same heap, and *)
(* then puts back what it saved.                                           *)
(*                                                                         *)
(* Both programs take the steps of module Scopes.  While the client's runs *)
(* `ctl` holds its constructs, and those of the stopped program are saved  *)
(* with the rest: in the code they are the Rust stack under debug_check.   *)
(***************************************************************************)
EXTENDS Scopes

CONSTANTS
    MaxResumes,      \* bound of the model: times the client lets the program go on
    MaxEvaluations,  \* bound of the model: Evaluate commands
    MaxClientDefers  \* bound of the model: pending deferred expressions with the client's

ASSUME DebuggerAssumption == {MaxResumes, MaxEvaluations, MaxClientDefers} \subseteq Nat

VARIABLES
    debug,      \* step_mode and step_start_depth; history: calls, those in progress at
                \* the command, and kept, how many of them have been in progress since
    checked,    \* debug_check has been called for the statement at hand
    paused,     \* waiting for a command
    connected,  \* the client still has its end of the channels
    saved,      \* what Evaluate has put aside
    resumes, evaluations

debugVars == <<debug, checked, paused, connected, saved, resumes, evaluations>>
allVars == <<vars, debugVars>>

StepModes == {"Continue", "StepOver", "StepInto", "StepOut"}
Nothing == [on |-> FALSE]
\* A method is counted as called from the evaluation of its arguments on.
CallsInProgress == Count({"call", "method", "margs"})

(***************************************************************************)
(* The program.                                                            *)
(***************************************************************************)

\* After a construct has been left the statement it is part of may go on; every
\* other step leads to another statement, if to any.
ProgramStep ==
    /\ ~paused
    /\ AtStatement => checked
    /\ Next
    /\ checked' \in IF Len(ctl') < Len(ctl) THEN BOOLEAN ELSE {FALSE}
    /\ debug' = [debug EXCEPT !.kept = IF CallsInProgress' < @ THEN CallsInProgress' ELSE @]
    /\ UNCHANGED <<paused, connected, saved, resumes, evaluations>>

(***************************************************************************)
(* debug_check.                                                            *)
(***************************************************************************)

\* Wrong variant: step over stops only in the callers.
should_pauseOut ==
    CASE debug.mode = "Continue" -> BOOLEAN
      [] debug.mode = "StepInto" -> {TRUE}
      [] debug.mode \in {"StepOver", "StepOut"} -> {call_depth < debug.start}

\* Any statement may have a breakpoint on its line.
should_pause ==
    CASE debug.mode = "Continue" -> BOOLEAN
      [] debug.mode = "StepInto" -> {TRUE}
      [] debug.mode = "StepOver" -> {call_depth <= debug.start}
      [] debug.mode = "StepOut" -> {call_depth < debug.start}

\* Wrong variant: the statement is checked once more when it is resumed.
debug_checkAgain ==
    /\ AtStatement /\ ~checked /\ ~paused
    /\ \E pause \in should_pause : paused' = (pause /\ connected)
    /\ checked' = ~paused'
    /\ UNCHANGED <<vars, debug, connected, saved, resumes, evaluations>>

debug_check ==
    /\ AtStatement /\ ~checked /\ ~paused
    /\ \E pause \in should_pause : paused' = (pause /\ connected)
    /\ checked' = TRUE
    /\ UNCHANGED <<vars, debug, connected, saved, resumes, evaluations>>

\* A command that resumes; only the two that compare depths set step_start_depth.
Resume(mode) ==
    /\ paused /\ ~saved.on
    /\ resumes < MaxResumes /\ resumes' = resumes + 1
    /\ debug' = IF mode \in {"StepOver", "StepOut"}
                THEN [mode |-> mode, start |-> call_depth,
                      calls |-> CallsInProgress, kept |-> CallsInProgress]
                ELSE [debug EXCEPT !.mode = mode]
    /\ paused' = FALSE
    /\ UNCHANGED <<vars, checked, connected, saved, evaluations>>

\* The client has dropped its channels: recv fails, now and at every later stop.
Disconnect ==
    /\ paused /\ ~saved.on
    /\ resumes < MaxResumes /\ resumes' = resumes + 1
    /\ connected' = FALSE /\ paused' = FALSE
    /\ UNCHANGED <<vars, debug, checked, saved, evaluations>>

(***************************************************************************)
(* Evaluate.                                                               *)
(***************************************************************************)

\* height: the heap scopes of the stopped program (history).
Saved ==
    [on |-> TRUE, next_addr |-> next_addr, free_list |-> free_list, allocs |-> allocs_since_gc,
     symbols |-> symbols, stacks |-> saved_symbol_stacks, depth |-> call_depth, ctl |-> ctl,
     height |-> Len(scope_allocations)]

BeginEvaluate ==
    /\ paused /\ ~saved.on
    /\ evaluations < MaxEvaluations /\ evaluations' = evaluations + 1
    /\ saved' = Saved
    /\ push_scope
    /\ ctl' = << >>
    /\ UNCHANGED <<symbols, saved_symbol_stacks, call_depth, err, debug, checked, paused, connected, resumes>>

\* self.debug is taken: nothing stops the client's program.
EvaluateStep ==
    /\ saved.on
    /\ Next
    /\ Len(saved.ctl) + Len(ctl') <= MaxNesting  \* bound of the model
    /\ UNCHANGED debugVars

\* `defer` at the top of the client's program: the list of the innermost block of
\* the stopped program gets the expression, and is not put back.
EvaluateDefer ==
    /\ saved.on /\ ctl = << >> /\ err = "none"
    /\ \E i \in DOMAIN saved.ctl :
          /\ saved.ctl[i].k \in Bodies /\ saved.ctl[i].dfr < MaxClientDefers
          /\ \A j \in DOMAIN saved.ctl : saved.ctl[j].k \in Bodies => j <= i
          /\ saved' = [saved EXCEPT !.ctl[i].dfr = @ + 1]
    /\ UNCHANGED <<vars, debug, checked, paused, connected, resumes, evaluations>>

\* Wrong variant: the free list is put back before the scope is popped.
EndEvaluateSwapped ==
    LET freed == Last(scope_allocations) \cap DOMAIN metadata IN
    /\ saved.on /\ ctl = << >>
    /\ scope_allocations' = Front(scope_allocations)
    /\ values' = Restrict(values, DOMAIN values \ freed)
    /\ metadata' = Restrict(metadata, DOMAIN metadata \ freed)
    /\ next_addr' = saved.next_addr
    /\ \E o \in Orders(freed) : free_list' = saved.free_list \o o
    /\ allocs_since_gc' = saved.allocs
    /\ symbols' = saved.symbols /\ saved_symbol_stacks' = saved.stacks
    /\ call_depth' = saved.depth /\ ctl' = saved.ctl
    /\ err' = "none"
    /\ saved' = Nothing
    /\ UNCHANGED <<debug, checked, paused, connected, resumes, evaluations>>

\* The result, a value or an error, has been found: one heap scope is popped, and
\* what pop_scope did to the free list is overwritten by the saved one.
EndEvaluate ==
    LET freed == Last(scope_allocations) \cap DOMAIN metadata IN
    /\ saved.on /\ ctl = << >>
    /\ scope_allocations' = Front(scope_allocations)
    /\ values' = Restrict(values, DOMAIN values \ freed)
    /\ metadata' = Restrict(metadata, DOMAIN metadata \ freed)
    /\ next_addr' = saved.next_addr /\ free_list' = saved.free_list
    /\ allocs_since_gc' = saved.allocs
    /\ symbols' = saved.symbols /\ saved_symbol_stacks' = saved.stacks
    /\ call_depth' = saved.depth /\ ctl' = saved.ctl
    /\ err' = "none"
    /\ saved' = Nothing
    /\ UNCHANGED <<debug, checked, paused, connected, resumes, evaluations>>

-----------------------------------------------------------------------------
\* A session begins with breakpoints; any first stop is that of some set of them.
DebugInit ==
    /\ Init
    /\ debug = [mode |-> "Continue", start |-> 0, calls |-> 0, kept |-> 0]
    /\ checked = FALSE /\ paused = FALSE /\ connected = TRUE
    /\ saved = Nothing
    /\ resumes = 0 /\ evaluations = 0

DebugNext ==
    \/ ProgramStep
    \/ debug_check
    \/ \E mode \in StepModes : Resume(mode)
    \/ Disconnect
    \/ BeginEvaluate \/ EvaluateStep \/ EvaluateDefer \/ EndEvaluate

DebugSpec == DebugInit /\ [][DebugNext]_allVars

-----------------------------------------------------------------------------
\* Types.  The program stops only before a statement, and never twice before the same.
DebugTypeOK ==
    /\ TypeOK
    /\ debug \in [mode : StepModes, start : Nat, calls : Nat, kept : Nat]
    /\ {checked, paused, connected, saved.on} \subseteq BOOLEAN
    /\ paused => checked /\ (saved.on \/ AtStatement)
    /\ saved.on => paused
    /\ resumes \in 0 .. MaxResumes /\ evaluations \in 0 .. MaxEvaluations

\* Evaluate hands the heap back whole: with the bump pointer and the free list put
\* back over whatever the client's program allocated, freed and collected, no block
\* is both free and in use, and every block in use belongs to one open scope.
HeapHandedBack == NoDoubleFree /\ OwnedOnce

\* The variables of the stopped program: one changes only by an assignment through a
\* mutable binding in sight of the client's program, and one is lost only if that
\* program binds its name anew in the same scope and then collects garbage, for which
\* the saved tables are not roots (run_gc against Evaluate).
StoppedAddrs ==
    (UNION {TableAddrs(t) : t \in {saved.symbols} \cup Range(saved.stacks)})
        \cap (UNION {scope_allocations[i] : i \in 1 .. saved.height})
AssignedTo(a) ==
    /\ UNCHANGED <<symbols, scope_allocations, free_list>>
    /\ \E i \in DOMAIN symbols, n \in Names : Innermost(i, n) /\ symbols[i][n] = Entry(a, TRUE)
StoppedVariablesKept ==
    [][saved.on => \A a \in StoppedAddrs :
          IF a \in DOMAIN values' THEN values'[a] = values[a] \/ AssignedTo(a)
                                  ELSE a \notin Roots /\ saved'.on]_allVars

\* Steps go by calls, of which call_depth is only the number.  Step over stops at the
\* next statement of a call that was in progress at the command, its own or a caller,
\* and while its own goes on at none of a call made by it; step out stops at the next
\* one of a caller and at none before the command's own call has returned.  Once that
\* has returned, a step over stops in the next call of its caller too: at the end of f
\* in f() + g() it stops inside g, and the property leaves that open.
StepsByCalls ==
    [][~checked /\ checked' /\ connected /\ UNCHANGED vars =>
          LET inOld == CallsInProgress = debug.kept
              ownGoesOn == debug.kept = debug.calls
          IN  /\ debug.mode = "StepOver" =>
                    /\ inOld => paused'
                    /\ ownGoesOn /\ ~inOld => ~paused'
              /\ debug.mode = "StepOut" =>
                    /\ inOld /\ ~ownGoesOn => paused'
                    /\ ownGoesOn => ~paused']_allVars
=============================================================================
