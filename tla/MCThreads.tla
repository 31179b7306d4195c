----------------------------- MODULE MCThreads -----------------------------
\* The main thread and the tasks it and they spawn, with one wait group.
EXTENDS Threads

CONSTANTS group

MCGroups == {group}
MCDeltas == {1, -1}
=============================================================================
