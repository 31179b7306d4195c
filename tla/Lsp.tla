-------------------------------- MODULE Lsp --------------------------------
(***************************************************************************)
(* The language server (src/src/lsp) and the editor at the other end of    *)
(* its two pipes.  The server reads one message at a time from stdin,      *)
(* handles it to the end and writes at most one message to stdout.  The    *)
(* editor is external: it sends what the server has handlers for, whenever *)
(* it likes, and reads stdout in its own time.                             *)
(*                                                                         *)
(* A text is the set of its well-formed statements, the kind of error it   *)
(* has (none, a statement that does not parse, a character that does not   *)
(* lex) and whether it is laid out as the formatter would.                 *)
(***************************************************************************)
EXTENDS Naturals, Sequences, SequencesExt

CONSTANTS
    Docs,       \* documents the editor may open
    Stmts,      \* statements
    Layout,     \* what the formatter writes for a statement, as it is read again
    Broken,     \* a layout that does not parse
    Typed,      \* the texts a user types
    Panics,     \* texts that make the analysis panic
    Methods,    \* which requests the editor makes
    Closed,     \* no text: the document is not open in the editor
    NoText,     \* no text: the server has no state, or no diagnostics are shown
    Null,       \* a response without a result
    Capacity,   \* messages that fit into stdout
    MaxSends    \* bound of the model: messages the editor sends

Texts == [good : SUBSET Stmts, error : {"none", "parse", "lex"}, tidy : BOOLEAN]

ASSUME LspAssumption ==
    /\ Closed \notin Texts /\ NoText \notin Texts
    /\ Broken \notin Stmts /\ Layout \in [Stmts -> Stmts \cup {Broken}]
    /\ Typed \subseteq Texts /\ Panics \subseteq Texts
    /\ Methods \subseteq {"query", "formatting", "rangeFormatting", "plain", "unknown"}
    /\ Capacity \in Nat \ {0} /\ MaxSends \in Nat

VARIABLES
    text,            \* document -> what the editor has of it
    shown,           \* document -> the text whose diagnostics the editor shows
    asked,           \* the requests made, each with the text it was about
    answered,        \* the requests whose response has arrived
    stdin, stdout,   \* the pipes
    open,            \* the editor has not closed stdin
    documents,       \* document -> the source of its DocumentState
    running,         \* the loop of LspServer::run
    sends            \* messages the editor has sent

editor == <<text, shown, asked, answered, open, sends>>
server == <<documents, running>>
vars == <<editor, stdin, stdout, server>>

\* The statements the formatter writes in full.  Of others it drops parts: the type
\* parameters of a struct or an enum, the types in a trait, the defaults of a closure's
\* parameters; and of an expression 128 levels deep it writes a comment.
Whole == {s \in Stmts : Layout[s] = s}

\* The layout of a program's statements, read as a text.
format_program(t) ==
    [good |-> {Layout[s] : s \in t.good} \ {Broken},
     error |-> IF \E s \in t.good : Layout[s] = Broken THEN "parse" ELSE "none",
     tidy |-> TRUE]

(***************************************************************************)
(* The editor.                                                             *)
(***************************************************************************)

\* Writing to a pipe that has no reader any more fails.
Send(m) ==
    /\ open /\ running /\ sends < MaxSends
    /\ stdin' = Append(stdin, m)
    /\ sends' = sends + 1
    /\ UNCHANGED <<stdout, server, open>>

Notify(m) == Send(m) /\ UNCHANGED <<shown, asked, answered>>

Open(d, t) ==
    /\ text[d] = Closed
    /\ Notify([kind |-> "didOpen", doc |-> d, texts |-> <<t>>])
    /\ text' = [text EXCEPT ![d] = t]

\* The editor may put several changes, or none, into one message.
Change(d, ts) ==
    /\ text[d] # Closed
    /\ Notify([kind |-> "didChange", doc |-> d, texts |-> ts])
    /\ text' = IF ts = <<>> THEN text ELSE [text EXCEPT ![d] = Last(ts)]

Close(d) ==
    /\ text[d] # Closed
    /\ Notify([kind |-> "didClose", doc |-> d])
    /\ text' = [text EXCEPT ![d] = Closed]

Request(method, d) ==
    /\ Send([kind |-> "request", method |-> method, doc |-> d, id |-> Len(asked) + 1])
    /\ asked' = Append(asked, [doc |-> d, text |-> text[d]])
    /\ UNCHANGED <<text, shown, answered>>

\* A notification the server has no handler for or a body that is not JSON is
\* ignored; exit, a header without a length and a body that is not UTF-8 are fatal.
Other(kind) == Notify([kind |-> kind]) /\ UNCHANGED text

CloseStdin ==
    /\ open /\ running /\ open' = FALSE
    /\ UNCHANGED <<text, shown, asked, answered, sends, stdin, stdout, server>>

\* The editor applies an edit if the document has not changed since it asked for
\* it, and reports the new text.  Lines are counted in the source the edit was
\* computed from, and for a range in its layout too: unless the two are the same, it
\* may hit anything.
\* A range ends before the line break its new text ends with: a blank line more.
Fits(edit, t) == edit.source = t /\ (edit.whole \/ format_program(t) = t)

Apply(d, edit) ==
    \E t \in IF Fits(edit, text[d]) THEN {[format_program(text[d]) EXCEPT !.tidy = edit.whole]} ELSE Typed :
        /\ text' = [text EXCEPT ![d] = t]
        /\ stdin' = IF open THEN Append(stdin, [kind |-> "didChange", doc |-> d, texts |-> <<t>>])
                            ELSE stdin

Receive ==
    /\ stdout # <<>>
    /\ stdout' = Tail(stdout)
    /\ LET m == Head(stdout) IN
          \/ /\ m.kind = "diagnostics"
             /\ shown' = [shown EXCEPT ![m.doc] = m.of]
             /\ UNCHANGED <<text, answered, stdin>>
          \/ /\ m.kind = "response"
             /\ answered' = answered \cup {m.id}
             /\ IF /\ m.result # Null /\ m.result.edit
                   /\ text[asked[m.id].doc] = asked[m.id].text
                THEN Apply(asked[m.id].doc, m.result)
                ELSE UNCHANGED <<text, stdin>>
             /\ UNCHANGED shown
    /\ UNCHANGED <<asked, open, sends, server>>

(***************************************************************************)
(* The server.                                                             *)
(***************************************************************************)

Publish(d, t) == stdout' = Append(stdout, [kind |-> "diagnostics", doc |-> d, of |-> t])
Respond(m, result) == stdout' = Append(stdout, [kind |-> "response", id |-> m.id, result |-> result])

\* Wrong variant: the source is stored before it is analysed.
on_changeEarly(d, t) == documents' = [documents EXCEPT ![d] = t] /\ Publish(d, t)

\* A panic is caught: a diagnostic of its own is published, the state stays.
on_change(d, t) ==
    /\ documents' = IF t \in Panics THEN documents ELSE [documents EXCEPT ![d] = t]
    /\ Publish(d, t)

handle_did_open(m) == on_change(m.doc, m.texts[1])

\* Wrong variant: the first of several changes is taken.
handle_did_changeFirst(m) ==
    IF m.texts # <<>>
    THEN on_change(m.doc, Head(m.texts))
    ELSE UNCHANGED <<documents, stdout>>

\* The last change is the text; without changes the stored source is analysed again.
handle_did_change(m) ==
    IF m.texts # <<>> THEN on_change(m.doc, Last(m.texts))
    ELSE IF documents[m.doc] # NoText THEN on_change(m.doc, documents[m.doc])
    ELSE UNCHANGED <<documents, stdout>>

\* Wrong variant: a closed document keeps its state.
handle_did_closeKeeps(m) == Publish(m.doc, NoText) /\ UNCHANGED documents

handle_did_close(m) ==
    /\ documents' = [documents EXCEPT ![m.doc] = NoText]
    /\ Publish(m.doc, NoText)

\* The handlers that read a document (hover to call hierarchy): the answer is
\* computed from the stored state.  Null stands for parameters that do not parse,
\* a panic, and nothing found.
Query(m) ==
    \/ Respond(m, Null)
    \/ documents[m.doc] # NoText /\ Respond(m, [source |-> documents[m.doc], edit |-> FALSE])

\* Wrong variant: whatever the parser has accepted is formatted.
HasProgramAlways(t) == TRUE

\* DocumentState.program: the program, a partial one after a parse error, or None.
HasProgram(t) == t.error = "none" \/ (t.error = "parse" /\ t.good # {})

\* An edit that replaces the stored source by its program laid out anew.
Formatted(m, whole) ==
    \/ Respond(m, Null)
    \/ /\ documents[m.doc] # NoText /\ HasProgram(documents[m.doc])
       /\ Respond(m, [source |-> documents[m.doc], edit |-> TRUE, whole |-> whole])

handle_formatting(m) == Formatted(m, TRUE)

\* Some lines of the source are replaced by the lines with the same numbers of the
\* new layout.
handle_range_formatting(m) == Formatted(m, FALSE)

\* Wrong variant: a method nobody has registered is passed over.
UnknownIgnored(m) == UNCHANGED stdout

\* "method not found"
Unknown(m) == Respond(m, Null)

\* Requests whose answer depends on no document: initialize, the symbols of the
\* files under the workspace root, the handlers with a constant result, and shutdown,
\* which is answered in the loop itself and does not end it.
Plain(m) == Respond(m, Null)

\* One turn of the loop: the message at the head of stdin is handled to the end.
Take(kind) ==
    /\ running /\ Len(stdout) < Capacity
    /\ stdin # <<>> /\ Head(stdin).kind = kind
    /\ stdin' = Tail(stdin)
    /\ UNCHANGED editor

ServeNotification ==
    /\ \/ Take("didOpen") /\ handle_did_open(Head(stdin))
       \/ Take("didChange") /\ handle_did_change(Head(stdin))
       \/ Take("didClose") /\ handle_did_close(Head(stdin))
    /\ UNCHANGED running

ServeRequest ==
    /\ Take("request")
    /\ LET m == Head(stdin) IN
          \/ m.method = "query" /\ Query(m)
          \/ m.method = "formatting" /\ handle_formatting(m)
          \/ m.method = "rangeFormatting" /\ handle_range_formatting(m)
          \/ m.method = "plain" /\ Plain(m)
          \/ m.method = "unknown" /\ Unknown(m)
    /\ UNCHANGED <<documents, running>>

\* A notification without a handler, or a body parse_rpc makes nothing of.
Skip ==
    /\ Take("ignored")
    /\ UNCHANGED <<stdout, server>>

\* exit, or read_message returns None: at the end of stdin, and for a bad frame.
Stop ==
    /\ \/ Take("fatal")
       \/ running /\ stdin = <<>> /\ ~open /\ UNCHANGED <<editor, stdin>>
    /\ running' = FALSE
    /\ UNCHANGED <<stdout, documents>>

Serve == ServeNotification \/ ServeRequest \/ Skip \/ Stop

(***************************************************************************)
(* The specification.                                                      *)
(***************************************************************************)

Init ==
    /\ text = [d \in Docs |-> Closed]
    /\ shown = [d \in Docs |-> NoText]
    /\ asked = <<>> /\ answered = {}
    /\ stdin = <<>> /\ stdout = <<>> /\ open = TRUE
    /\ documents = [d \in Docs |-> NoText]
    /\ running = TRUE
    /\ sends = 0

Edit ==
    \/ \E d \in Docs : Close(d) \/ Change(d, <<>>)
    \/ \E d \in Docs, t \in Typed : Open(d, t) \/ Change(d, <<t>>)
    \/ \E d \in Docs, t, u \in Typed : t # u /\ Change(d, <<t, u>>)

Next ==
    \/ Edit
    \/ \E method \in Methods, d \in Docs : Request(method, d)
    \/ \E kind \in {"ignored", "fatal"} : Other(kind)
    \/ CloseStdin
    \/ Receive
    \/ Serve

\* The server runs its loop and the editor reads what arrives; nothing makes it send.
Spec == Init /\ [][Next]_vars /\ WF_vars(Serve) /\ WF_vars(Receive)

(***************************************************************************)
(* Properties.                                                             *)
(***************************************************************************)

\* Types.  A stored source is one whose analysis has come to its end, and no more
\* responses are on their way or arrived than there are requests.
TypeOK ==
    /\ text \in [Docs -> Texts \cup {Closed}]
    /\ shown \in [Docs -> Texts \cup {NoText}]
    /\ documents \in [Docs -> (Texts \ Panics) \cup {NoText}]
    /\ answered \subseteq DOMAIN asked
    /\ \A i \in DOMAIN stdout : stdout[i].kind = "response" => stdout[i].id \in DOMAIN asked \ answered
    /\ Len(stdout) <= Capacity
    /\ {open, running} \subseteq BOOLEAN

\* When the pipes are empty the editor shows the diagnostics of the very text it
\* has, and none for a closed document.  The one exception is a text whose analysis
\* panics: a change message without changes then brings back those of an older text.
DiagnosticsFresh ==
    running /\ open /\ stdin = <<>> /\ stdout = <<>> =>
        \A d \in Docs :
            IF text[d] = Closed THEN shown[d] = NoText ELSE shown[d] = text[d] \/ text[d] \in Panics

\* A request is answered from the text the document had in the editor when the
\* request was made, however many changes were under way; only for a text whose
\* analysis panicked is it an older one, and for a closed document there is none.
AnswersCurrent ==
    \A i \in DOMAIN stdout :
        stdout[i].kind = "response" /\ stdout[i].result # Null =>
            LET asking == asked[stdout[i].id].text
            IN  stdout[i].result.source = asking \/ asking \in Panics

\* Formatting leaves every statement in place that the formatter writes in full, and a
\* document of such statements as it is.  The exceptions: a document with a statement
\* that does not parse (it is formatted away) or whose analysis panicked, and a range in
\* a document whose lines are not those of its layout.
FormattingKeeps ==
    [][\A d \in Docs :
          /\ answered' # answered /\ text'[d] # text[d]
          /\ text[d] \notin Panics /\ text[d].error # "parse"
          /\ Head(stdout).result.whole \/ (text[d].tidy /\ text[d].good \subseteq Whole)
          => /\ text[d].good \cap Whole \subseteq text'[d].good
             /\ text[d].good \subseteq Whole =>
                   text'[d].good = text[d].good /\ text'[d].error = text[d].error]_vars

\* Every request is answered, unknown methods and shutdown included, unless the
\* server stops first; the full pipe of an editor that reads holds nothing up.
RequestsAnswered ==
    \A id \in 1 .. MaxSends : id \in DOMAIN asked ~> id \in answered \/ ~running
=============================================================================
