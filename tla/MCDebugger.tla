----------------------------- MODULE MCDebugger -----------------------------
\* A small program under the debugger, with a block to reuse and one to collect.
EXTENDS Debugger

MCVals == {True, [kind |-> "Int64", len |-> 0]}
MCNames == {"x"}
=============================================================================
