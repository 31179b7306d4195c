------------------------------ MODULE MCScopes ------------------------------
\* Small programs for Scopes: a value of one allocation unit and one of two,
\* and room for two units, so that blocks are reused, resized and coalesced.
EXTENDS Scopes

MCVals == {True, [kind |-> "String", len |-> 5]}
OneName == {"x"}
MCPtrAddrs == {HEAP_BASE, HEAP_BASE + 8}
=============================================================================
