----------------------------- MODULE MCPackages -----------------------------
\* Two commands at a time, a dependency of each kind.
EXTENDS Packages

CONSTANTS one, two, old, new

MCProcesses == {one, two}
MCGit == {"git"}
MCPath == {"local"}
MCContents == {old, new}
MCInitial == {old, NoSource}
=============================================================================
