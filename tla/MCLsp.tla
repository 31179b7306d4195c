------------------------------- MODULE MCLsp -------------------------------
\* Texts of each kind the analysis tells apart, one that makes it panic and, for
\* the formatter, statements it writes in full, in part, and so that they are lost.
EXTENDS Lsp

CONSTANTS doc, stmt, generic, deep

MCDocs == {doc}
MCStmts == {stmt, generic, deep}
MCLayout == [s \in MCStmts |-> IF s = deep THEN Broken ELSE stmt]
Untidy(good, error) == [good |-> good, error |-> error, tidy |-> FALSE]
MCTyped ==
    {Untidy({stmt, generic, deep}, "none"), Untidy({stmt}, "parse"),
     Untidy({stmt}, "lex"), Untidy({}, "none")}
MCPanics == {Untidy({}, "none")}
=============================================================================
