SPECIFICATION Spec
CONSTANTS
    doc = doc
    stmt = stmt
    generic = generic
    deep = deep
    Layout <- MCLayout
    Broken = Broken
    Docs <- MCDocs
    Stmts <- MCStmts
    Typed <- MCTyped
    Panics <- MCPanics
    Methods = {"query", "formatting", "rangeFormatting", "plain", "unknown"}
    Closed = Closed
    NoText = NoText
    Null = Null
    Capacity = 2
    MaxSends = 4
CHECK_DEADLOCK FALSE
INVARIANTS
    TypeOK
    DiagnosticsFresh
    AnswersCurrent
PROPERTIES
    FormattingKeeps
    RequestsAnswered
