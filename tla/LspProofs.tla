------------------------------ MODULE LspProofs ------------------------------
(***************************************************************************)
(* The language server for any documents, texts, pipes and number of       *)
(* messages: types, that the diagnostics end up those of the text, that a  *)
(* request is answered from the text it was about, and what formatting     *)
(* keeps.                                                                  *)
(*                                                                         *)
(* The server is always behind the editor.  The invariant therefore speaks *)
(* of what a document will be when the messages in front of a request, or  *)
(* all messages, have been handled, and of what the editor will show when  *)
(* it has read all of stdout.                                              *)
(***************************************************************************)
EXTENDS Lsp, SequenceTheorems, TLAPS

\* What travels in the pipes.
Messages ==
    [kind : {"didOpen", "didChange"}, doc : Docs, texts : Seq(Texts)]
        \cup [kind : {"didClose"}, doc : Docs]
        \cup [kind : {"request"}, method : Methods, doc : Docs, id : Nat]
        \cup [kind : {"ignored", "fatal"}]
Results ==
    {Null} \cup [source : Texts, edit : {FALSE}]
           \cup [source : Texts, edit : {TRUE}, whole : BOOLEAN]
Outputs ==
    [kind : {"diagnostics"}, doc : Docs, of : Texts \cup {NoText}]
        \cup [kind : {"response"}, id : Nat, result : Results]
Questions == Seq([doc : Docs, text : Texts \cup {Closed}])

\* Message m makes a the text of document d (Closed: it closes it).  A change
\* message without changes does not.
Sets(m, d) ==
    /\ m.kind \in {"didOpen", "didChange", "didClose"} /\ m.doc = d
    /\ m.kind # "didClose" => m.texts # << >>
SetTo(m) == IF m.kind = "didClose" THEN Closed ELSE Last(m.texts)

\* The state x the server keeps for a document whose text is a.
Stored(x, a) == x = a \/ a \in Panics \/ (a = Closed /\ x = NoText)

\* a is what document d will be once the messages before the i-th of s have
\* been handled, x being stored for it now.
Holds(s, x, i, d, a) ==
    \/ \E k \in 1..Len(s) :
          /\ k < i /\ Sets(s[k], d) /\ SetTo(s[k]) = a
          /\ \A l \in 1..Len(s) : k < l /\ l < i => ~Sets(s[l], d)
    \/ /\ \A l \in 1..Len(s) : l < i => ~Sets(s[l], d)
       /\ Stored(x, a)

\* Every request on its way will meet the text it was about ...
Views(s, kept, ask) ==
    \A i \in 1..Len(s) :
        s[i].kind = "request" =>
            Holds(s, kept[s[i].doc], i, s[i].doc, ask[s[i].id].text)
\* ... and what is sent next, the text the editor has.
Current(s, kept, txt) == \A d \in Docs : Holds(s, kept[d], Len(s) + 1, d, txt[d])

\* The diagnostics of text x are those to show for a document with text a.
Right(x, a) == IF a = Closed THEN x = NoText ELSE x = a \/ a \in Panics
About(m, d) == m.kind = "diagnostics" /\ m.doc = d
\* With x shown now, what is in o leaves the right diagnostics of d.
Ends(o, x, d, a) ==
    /\ \A k \in 1..Len(o) :
          About(o[k], d) /\ (\A l \in 1..Len(o) : k < l => ~About(o[l], d)) => Right(o[k].of, a)
    /\ (\A k \in 1..Len(o) : ~About(o[k], d)) => Right(x, a)
Fresh(s, o, sh, txt) ==
    \A d \in Docs : (\A k \in 1..Len(s) : ~Sets(s[k], d)) => Ends(o, sh[d], d, txt[d])

\* A request is on its way, answered on its way, or answered, and that once.
Requests(s, n) == \A i \in 1..Len(s) : s[i].kind = "request" => s[i].id \in 1..n
Responses(o, n) == \A i \in 1..Len(o) : o[i].kind = "response" => o[i].id \in 1..n
RequestsDiffer(s) ==
    \A i, j \in 1..Len(s) :
        s[i].kind = "request" /\ s[j].kind = "request" /\ s[i].id = s[j].id => i = j
ResponsesDiffer(o) ==
    \A i, j \in 1..Len(o) :
        o[i].kind = "response" /\ o[j].kind = "response" /\ o[i].id = o[j].id => i = j
Unanswered(s, o, ans) ==
    /\ \A i \in 1..Len(s) : s[i].kind = "request" => s[i].id \notin ans
    /\ \A j \in 1..Len(o) : o[j].kind = "response" => o[j].id \notin ans
    /\ \A i \in 1..Len(s), j \in 1..Len(o) :
          s[i].kind = "request" /\ o[j].kind = "response" => s[i].id # o[j].id
Ids(s, o, n, ans) ==
    /\ Requests(s, n) /\ Responses(o, n)
    /\ RequestsDiffer(s) /\ ResponsesDiffer(o) /\ Unanswered(s, o, ans)

\* What is answered, from the text asked about.
Faithful(result, a) ==
    /\ result.source = a \/ a \in Panics
    /\ a \in Texts
    /\ result.edit => HasProgram(result.source)
Answers(o, ask) ==
    \A i \in 1..Len(o) :
        o[i].kind = "response" /\ o[i].result # Null => Faithful(o[i].result, ask[o[i].id].text)

\* A didOpen carries one text.
GoodInput(s) ==
    /\ s \in Seq(Messages)
    /\ \A i \in 1..Len(s) : s[i].kind = "didOpen" => Len(s[i].texts) = 1

TypeInv ==
    /\ text \in [Docs -> Texts \cup {Closed}]
    /\ shown \in [Docs -> Texts \cup {NoText}]
    /\ documents \in [Docs -> (Texts \ Panics) \cup {NoText}]
    /\ asked \in Questions /\ answered \subseteq 1..Len(asked)
    /\ GoodInput(stdin) /\ stdout \in Seq(Outputs) /\ Len(stdout) <= Capacity
    /\ open \in BOOLEAN /\ running \in BOOLEAN

LspInv ==
    /\ TypeInv
    /\ Ids(stdin, stdout, Len(asked), answered)
    /\ Views(stdin, documents, asked)
    /\ open => Current(stdin, documents, text) /\ Fresh(stdin, stdout, shown, text)
    /\ Answers(stdout, asked)

-----------------------------------------------------------------------------
(* Sequences and messages.                                                 *)

LEMMA TailFacts ==
    ASSUME NEW S, NEW q \in Seq(S), q # << >>
    PROVE  /\ Tail(q) \in Seq(S) /\ Len(q) > 0 /\ Len(q) \in Nat /\ Len(Tail(q)) = Len(q) - 1
           /\ Head(q) = q[1] /\ q[1] \in S
           /\ \A i \in 1..Len(Tail(q)) : i + 1 \in 1..Len(q) /\ Tail(q)[i] = q[i + 1]
           /\ \A i \in 1..Len(q) : i > 1 => i - 1 \in 1..Len(Tail(q)) /\ Tail(q)[i - 1] = q[i]
OBVIOUS

LEMMA AppendFacts ==
    ASSUME NEW S, NEW q \in Seq(S), NEW m \in S
    PROVE  /\ Append(q, m) \in Seq(S) /\ Len(Append(q, m)) = Len(q) + 1 /\ Len(q) \in Nat
           /\ Append(q, m)[Len(q) + 1] = m
           /\ \A i \in 1..Len(q) : Append(q, m)[i] = q[i] /\ i \in 1..Len(Append(q, m))
           /\ \A i \in 1..Len(Append(q, m)) : i = Len(q) + 1 \/ i \in 1..Len(q)
OBVIOUS

LEMMA LastFacts ==
    ASSUME NEW S, NEW q \in Seq(S), q # << >>
    PROVE  Last(q) \in S /\ (Len(q) = 1 => Last(q) = q[1])
BY DEF Last

LEMMA MessageFacts ==
    ASSUME NEW m \in Messages
    PROVE  /\ m.kind \in {"didOpen", "didChange", "didClose", "request", "ignored", "fatal"}
           /\ m.kind \in {"didOpen", "didChange"} => m.doc \in Docs /\ m.texts \in Seq(Texts)
           /\ m.kind = "didClose" => m.doc \in Docs
           /\ m.kind = "request" => m.method \in Methods /\ m.doc \in Docs /\ m.id \in Nat
BY DEF Messages

LEMMA OutputFacts ==
    ASSUME NEW m \in Outputs
    PROVE  /\ m.kind \in {"diagnostics", "response"}
           /\ m.kind = "diagnostics" => m.doc \in Docs /\ m.of \in Texts \cup {NoText}
           /\ m.kind = "response" => m.id \in Nat /\ m.result \in Results
BY DEF Outputs

LEMMA SetToType ==
    ASSUME NEW m \in Messages, NEW d \in Docs, Sets(m, d)
    PROVE  SetTo(m) \in Texts \cup {Closed} /\ (SetTo(m) = Closed <=> m.kind = "didClose")
<1>1. CASE m.kind = "didClose"
    BY <1>1 DEF SetTo
<1>2. CASE m.kind # "didClose"
    <2>1. m.texts \in Seq(Texts) /\ m.texts # << >>
        BY <1>2, MessageFacts DEF Sets
    <2>2. Last(m.texts) \in Texts
        BY <2>1, LastFacts
    <2> QED
        BY <1>2, <2>2, LspAssumption DEF SetTo
<1> QED
    BY <1>1, <1>2

-----------------------------------------------------------------------------
(* What a document will be.                                                *)

\* The head of s has been handled: y is stored now.
LEMMA HoldsTail ==
    ASSUME NEW s \in Seq(Messages), s # << >>, NEW d, NEW a, NEW x, NEW y,
           Sets(s[1], d) => Stored(y, SetTo(s[1])), ~Sets(s[1], d) => y = x,
           NEW i \in Nat, i > 1, Holds(s, x, i, d, a)
    PROVE  Holds(Tail(s), y, i - 1, d, a)
<1> DEFINE r == Tail(s)
<1>1. /\ Len(s) > 0 /\ Len(s) \in Nat /\ Len(r) = Len(s) - 1
      /\ \A k \in 1..Len(r) : k + 1 \in 1..Len(s) /\ r[k] = s[k + 1]
      /\ \A k \in 1..Len(s) : k > 1 => k - 1 \in 1..Len(r) /\ r[k - 1] = s[k]
    BY TailFacts
<1> HIDE DEF r
<1>2. CASE \A l \in 1..Len(s) : l < i => ~Sets(s[l], d)
    <2>1. ~Sets(s[1], d)
        BY <1>1, <1>2
    <2>2. \A l \in 1..Len(r) : l < i - 1 => ~Sets(r[l], d)
        BY <1>1, <1>2
    <2>3. Stored(x, a)
        BY <1>2 DEF Holds
    <2> QED
        BY <2>1, <2>2, <2>3 DEF Holds, r
<1>3. ASSUME NEW k \in 1..Len(s), k < i, Sets(s[k], d), SetTo(s[k]) = a,
             \A l \in 1..Len(s) : k < l /\ l < i => ~Sets(s[l], d)
      PROVE  Holds(r, y, i - 1, d, a)
    <2>1. \A l \in 1..Len(r) : k - 1 < l /\ l < i - 1 => ~Sets(r[l], d)
        <3> SUFFICES ASSUME NEW l \in 1..Len(r), k - 1 < l, l < i - 1 PROVE ~Sets(r[l], d)
            OBVIOUS
        <3>1. l + 1 \in 1..Len(s) /\ r[l] = s[l + 1] /\ k < l + 1 /\ l + 1 < i
            BY <1>1
        <3> QED
            BY <1>3, <3>1
    <2>2. CASE k = 1
        <3>1. \A l \in 1..Len(r) : l < i - 1 => ~Sets(r[l], d)
            BY <2>1, <2>2
        <3>2. Stored(y, a)
            BY <1>3, <2>2
        <3> QED
            BY <3>1, <3>2 DEF Holds
    <2>3. CASE k > 1
        <3>1. k - 1 \in 1..Len(r) /\ r[k - 1] = s[k] /\ k - 1 < i - 1
            BY <1>1, <1>3, <2>3
        <3> QED
            BY <1>3, <2>1, <3>1 DEF Holds
    <2> QED
        BY <2>2, <2>3
<1> QED
    BY <1>2, <1>3 DEF Holds, r

\* A message more does not matter to those before it, ...
LEMMA HoldsKeeps ==
    ASSUME NEW s \in Seq(Messages), NEW m \in Messages, NEW d, NEW a, NEW x,
           NEW i \in Nat, i <= Len(s) + 1, Holds(s, x, i, d, a)
    PROVE  Holds(Append(s, m), x, i, d, a)
<1> DEFINE r == Append(s, m)
<1>1. /\ Len(r) = Len(s) + 1 /\ Len(s) \in Nat
      /\ \A k \in 1..Len(s) : r[k] = s[k] /\ k \in 1..Len(r)
      /\ \A k \in 1..Len(r) : k = Len(s) + 1 \/ k \in 1..Len(s)
    BY AppendFacts
<1> HIDE DEF r
<1>2. \A l \in 1..Len(r) : l < i => l \in 1..Len(s) /\ r[l] = s[l]
    BY <1>1
<1>3. CASE (\A l \in 1..Len(s) : l < i => ~Sets(s[l], d)) /\ Stored(x, a)
    <2>1. \A l \in 1..Len(r) : l < i => ~Sets(r[l], d)
        BY <1>2, <1>3
    <2> QED
        BY <1>3, <2>1 DEF Holds, r
<1>4. ASSUME NEW k \in 1..Len(s), k < i, Sets(s[k], d), SetTo(s[k]) = a,
             \A l \in 1..Len(s) : k < l /\ l < i => ~Sets(s[l], d)
      PROVE  Holds(r, x, i, d, a)
    <2>1. k \in 1..Len(r) /\ r[k] = s[k]
        BY <1>1
    <2>2. \A l \in 1..Len(r) : k < l /\ l < i => ~Sets(r[l], d)
        BY <1>2, <1>4
    <2> QED
        BY <1>4, <2>1, <2>2 DEF Holds
<1> QED
    BY <1>3, <1>4 DEF Holds, r

\* ... and decides what comes after it if it sets the text.
LEMMA HoldsNext ==
    ASSUME NEW s \in Seq(Messages), NEW m \in Messages, NEW d, NEW a, NEW x, NEW b,
           Holds(s, x, Len(s) + 1, d, a),
           Sets(m, d) => b = SetTo(m), ~Sets(m, d) => b = a
    PROVE  Holds(Append(s, m), x, Len(s) + 2, d, b)
<1> DEFINE r == Append(s, m)
<1>1. /\ Len(r) = Len(s) + 1 /\ Len(s) \in Nat /\ r[Len(s) + 1] = m /\ Len(s) + 1 \in 1..Len(r)
      /\ \A k \in 1..Len(s) : r[k] = s[k] /\ k \in 1..Len(r)
      /\ \A k \in 1..Len(r) : k = Len(s) + 1 \/ k \in 1..Len(s)
    BY AppendFacts
<1> HIDE DEF r
<1>2. CASE Sets(m, d)
    <2>1. Len(s) + 1 < Len(s) + 2 /\ \A l \in 1..Len(r) : ~(Len(s) + 1 < l)
        BY <1>1
    <2> QED
        BY <1>1, <1>2, <2>1 DEF Holds, r
<1>3. CASE ~Sets(m, d)
    <2>1. CASE (\A l \in 1..Len(s) : l < Len(s) + 1 => ~Sets(s[l], d)) /\ Stored(x, a)
        <3>1. \A l \in 1..Len(r) : ~Sets(r[l], d)
            BY <1>1, <1>3, <2>1
        <3> QED
            BY <1>3, <2>1, <3>1 DEF Holds, r
    <2>2. ASSUME NEW k \in 1..Len(s), Sets(s[k], d), SetTo(s[k]) = a,
                 \A l \in 1..Len(s) : k < l /\ l < Len(s) + 1 => ~Sets(s[l], d)
          PROVE  Holds(r, x, Len(s) + 2, d, a)
        <3>1. k \in 1..Len(r) /\ r[k] = s[k] /\ k < Len(s) + 2
            BY <1>1
        <3>2. \A l \in 1..Len(r) : k < l /\ l < Len(s) + 2 => ~Sets(r[l], d)
            BY <1>1, <1>3, <2>2
        <3> QED
            BY <2>2, <3>1, <3>2 DEF Holds
    <2> QED
        BY <1>3, <2>1, <2>2 DEF Holds, r
<1> QED
    BY <1>2, <1>3

-----------------------------------------------------------------------------
(* The parts of the invariant, as the pipes move.                          *)

\* The server has handled message m: the states it keeps go from one to two.
Handled(m, one, two) ==
    \A d \in Docs : IF Sets(m, d) THEN Stored(two[d], SetTo(m)) ELSE two[d] = one[d]

LEMMA ViewsTail ==
    ASSUME NEW s \in Seq(Messages), s # << >>, NEW one, NEW two, Handled(s[1], one, two),
           NEW ask, Views(s, one, ask)
    PROVE  Views(Tail(s), two, ask)
<1> DEFINE r == Tail(s)
<1>1. /\ \A k \in 1..Len(r) : k + 1 \in 1..Len(s) /\ r[k] = s[k + 1]
    BY TailFacts
<1> HIDE DEF r
<1>2. ASSUME NEW i \in 1..Len(r), r[i].kind = "request"
      PROVE  Holds(r, two[r[i].doc], i, r[i].doc, ask[r[i].id].text)
    <2>1. i + 1 \in 1..Len(s) /\ r[i] = s[i + 1] /\ i + 1 \in Nat /\ i + 1 > 1
        BY <1>1
    <2>2. s[i + 1].doc \in Docs
        BY <1>2, <2>1, ElementOfSeq, MessageFacts
    <2>3. PICK d \in Docs : d = r[i].doc
        BY <2>1, <2>2
    <2>4. Holds(s, one[d], i + 1, d, ask[r[i].id].text)
        BY <1>2, <2>1, <2>3 DEF Views
    <2>5. Holds(r, two[d], (i + 1) - 1, d, ask[r[i].id].text)
        BY <2>1, <2>4, HoldsTail DEF Handled, r
    <2> QED
        BY <2>3, <2>5
<1> QED
    BY <1>2 DEF Views, r

LEMMA CurrentTail ==
    ASSUME NEW s \in Seq(Messages), s # << >>, NEW one, NEW two, Handled(s[1], one, two),
           NEW txt, Current(s, one, txt)
    PROVE  Current(Tail(s), two, txt)
<1>1. Len(s) \in Nat /\ Len(s) > 0 /\ Len(Tail(s)) = Len(s) - 1
    BY TailFacts
<1>2. Len(s) + 1 \in Nat /\ Len(s) + 1 > 1 /\ (Len(s) + 1) - 1 = Len(Tail(s)) + 1
    BY <1>1
<1>3. ASSUME NEW d \in Docs PROVE Holds(Tail(s), two[d], Len(Tail(s)) + 1, d, txt[d])
    <2>1. Holds(s, one[d], Len(s) + 1, d, txt[d])
        BY DEF Current
    <2>2. Holds(Tail(s), two[d], (Len(s) + 1) - 1, d, txt[d])
        BY <1>2, <2>1, HoldsTail DEF Handled
    <2> QED
        BY <1>2, <2>2
<1> QED
    BY <1>3 DEF Current

\* The editor has sent m, which makes its texts two.
Said(m, one, two) ==
    \A d \in Docs : two[d] = IF Sets(m, d) THEN SetTo(m) ELSE one[d]

LEMMA ViewsAppend ==
    ASSUME NEW s \in Seq(Messages), NEW m \in Messages, NEW kept, NEW ask,
           Views(s, kept, ask),
           m.kind = "request" => Holds(s, kept[m.doc], Len(s) + 1, m.doc, ask[m.id].text)
    PROVE  Views(Append(s, m), kept, ask)
<1> DEFINE r == Append(s, m)
<1>1. /\ Len(s) \in Nat /\ r[Len(s) + 1] = m
      /\ \A k \in 1..Len(s) : r[k] = s[k]
      /\ \A k \in 1..Len(r) : k = Len(s) + 1 \/ k \in 1..Len(s)
    BY AppendFacts
<1> HIDE DEF r
<1>2. ASSUME NEW i \in 1..Len(r), r[i].kind = "request"
      PROVE  Holds(r, kept[r[i].doc], i, r[i].doc, ask[r[i].id].text)
    <2>1. Holds(s, kept[r[i].doc], i, r[i].doc, ask[r[i].id].text) /\ i \in Nat /\ i <= Len(s) + 1
        BY <1>1, <1>2 DEF Views
    <2> QED
        BY <2>1, HoldsKeeps DEF r
<1> QED
    BY <1>2 DEF Views, r

LEMMA CurrentAppend ==
    ASSUME NEW s \in Seq(Messages), NEW m \in Messages, NEW kept, NEW one, NEW two,
           Said(m, one, two), Current(s, kept, one)
    PROVE  Current(Append(s, m), kept, two)
<1>1. Len(Append(s, m)) + 1 = Len(s) + 2
    <2>1. Len(Append(s, m)) = Len(s) + 1 /\ Len(s) \in Nat
        BY AppendFacts
    <2> QED
        BY <2>1
<1>2. ASSUME NEW d \in Docs PROVE Holds(Append(s, m), kept[d], Len(s) + 2, d, two[d])
    <2>1. Holds(s, kept[d], Len(s) + 1, d, one[d])
        BY DEF Current
    <2> QED
        BY <2>1, HoldsNext DEF Said
<1> QED
    BY <1>1, <1>2 DEF Current

\* Diagnostics at the end of stdout, something else there, and the head read.
LEMMA EndsWith ==
    ASSUME NEW o \in Seq(Outputs), NEW m \in Outputs, NEW d, NEW a, NEW x, About(m, d), Right(m.of, a)
    PROVE  Ends(Append(o, m), x, d, a)
<1> DEFINE r == Append(o, m)
<1>1. /\ Len(r) = Len(o) + 1 /\ Len(o) \in Nat /\ r[Len(o) + 1] = m /\ Len(o) + 1 \in 1..Len(r)
      /\ \A k \in 1..Len(r) : k = Len(o) + 1 \/ k \in 1..Len(o)
    BY AppendFacts
<1> HIDE DEF r
<1>2. \A k \in 1..Len(o) : k < Len(o) + 1
    BY <1>1
<1> QED
    BY <1>1, <1>2 DEF Ends, r

LEMMA EndsKeeps ==
    ASSUME NEW o \in Seq(Outputs), NEW m \in Outputs, NEW d, NEW a, NEW x, ~About(m, d), Ends(o, x, d, a)
    PROVE  Ends(Append(o, m), x, d, a)
<1> DEFINE r == Append(o, m)
<1>1. /\ Len(r) = Len(o) + 1 /\ Len(o) \in Nat /\ r[Len(o) + 1] = m
      /\ \A k \in 1..Len(o) : r[k] = o[k] /\ k \in 1..Len(r)
      /\ \A k \in 1..Len(r) : k = Len(o) + 1 \/ k \in 1..Len(o)
    BY AppendFacts
<1> HIDE DEF r
<1>2. ASSUME NEW k \in 1..Len(r), About(r[k], d), \A l \in 1..Len(r) : k < l => ~About(r[l], d)
      PROVE  Right(r[k].of, a)
    <2>1. k \in 1..Len(o) /\ r[k] = o[k]
        BY <1>1, <1>2
    <2>2. \A l \in 1..Len(o) : k < l => ~About(o[l], d)
        BY <1>1, <1>2
    <2> QED
        BY <1>2, <2>1, <2>2 DEF Ends
<1>3. ASSUME \A k \in 1..Len(r) : ~About(r[k], d) PROVE Right(x, a)
    <2>1. \A k \in 1..Len(o) : ~About(o[k], d)
        BY <1>1, <1>3
    <2> QED
        BY <2>1 DEF Ends
<1> QED
    BY <1>2, <1>3 DEF Ends, r

LEMMA EndsTail ==
    ASSUME NEW o \in Seq(Outputs), o # << >>, NEW d, NEW a, NEW x, NEW y, Ends(o, x, d, a),
           y = IF About(o[1], d) THEN o[1].of ELSE x
    PROVE  Ends(Tail(o), y, d, a)
<1> DEFINE r == Tail(o)
<1>1. /\ Len(o) > 0 /\ Len(o) \in Nat
      /\ \A k \in 1..Len(r) : k + 1 \in 1..Len(o) /\ r[k] = o[k + 1]
      /\ \A k \in 1..Len(o) : k > 1 => k - 1 \in 1..Len(r) /\ r[k - 1] = o[k]
    BY TailFacts
<1> HIDE DEF r
<1>2. ASSUME NEW k \in 1..Len(r), About(r[k], d), \A l \in 1..Len(r) : k < l => ~About(r[l], d)
      PROVE  Right(r[k].of, a)
    <2>1. k + 1 \in 1..Len(o) /\ r[k] = o[k + 1]
        BY <1>1
    <2>2. ASSUME NEW l \in 1..Len(o), k + 1 < l PROVE ~About(o[l], d)
        <3>1. l > 1 /\ k < l - 1
            BY <2>2
        <3>2. l - 1 \in 1..Len(r) /\ r[l - 1] = o[l]
            BY <1>1, <3>1
        <3> QED
            BY <1>2, <3>1, <3>2
    <2> QED
        BY <1>2, <2>1, <2>2 DEF Ends
<1>3. ASSUME \A k \in 1..Len(r) : ~About(r[k], d) PROVE Right(y, a)
    <2>1. ASSUME NEW l \in 1..Len(o), 1 < l PROVE ~About(o[l], d)
        <3>1. l - 1 \in 1..Len(r) /\ r[l - 1] = o[l]
            BY <1>1, <2>1
        <3> QED
            BY <1>3, <3>1
    <2>2. 1 \in 1..Len(o) /\ \A l \in 1..Len(o) : l = 1 \/ 1 < l
        BY <1>1
    <2>3. CASE About(o[1], d)
        BY <2>1, <2>2, <2>3 DEF Ends
    <2>4. CASE ~About(o[1], d)
        BY <2>1, <2>2, <2>4 DEF Ends
    <2> QED
        BY <2>3, <2>4
<1> QED
    BY <1>2, <1>3 DEF Ends, r

\* The editor has sent m, and m is not handled yet.
LEMMA FreshAppend ==
    ASSUME NEW s \in Seq(Messages), NEW m \in Messages, NEW o, NEW sh, NEW one, NEW two,
           Said(m, one, two), Fresh(s, o, sh, one)
    PROVE  Fresh(Append(s, m), o, sh, two)
<1> DEFINE r == Append(s, m)
<1>1. /\ r[Len(s) + 1] = m /\ Len(s) + 1 \in 1..Len(r)
      /\ \A k \in 1..Len(s) : r[k] = s[k] /\ k \in 1..Len(r)
    BY AppendFacts
<1> HIDE DEF r
<1>2. ASSUME NEW d \in Docs, \A k \in 1..Len(r) : ~Sets(r[k], d) PROVE Ends(o, sh[d], d, two[d])
    <2>1. ~Sets(m, d) /\ \A k \in 1..Len(s) : ~Sets(s[k], d)
        BY <1>1, <1>2
    <2>2. two[d] = one[d]
        BY <2>1 DEF Said
    <2> QED
        BY <2>1, <2>2 DEF Fresh
<1> QED
    BY <1>2 DEF Fresh, r

\* The editor has read the head of stdout.
LEMMA FreshRead ==
    ASSUME NEW s, NEW o \in Seq(Outputs), o # << >>, NEW one, NEW two, NEW txt, Fresh(s, o, one, txt),
           \A d \in Docs : two[d] = IF About(o[1], d) THEN o[1].of ELSE one[d]
    PROVE  Fresh(s, Tail(o), two, txt)
BY EndsTail DEF Fresh

\* What is stored for a document without messages on their way, and what is
\* sent by the only message that sets its text.
LEMMA CurrentNow ==
    ASSUME NEW s \in Seq(Messages), NEW kept, NEW txt, Current(s, kept, txt), NEW d \in Docs
    PROVE  /\ (\A k \in 1..Len(s) : ~Sets(s[k], d)) => Stored(kept[d], txt[d])
           /\ (\A k \in 1..Len(s) : k > 1 => ~Sets(s[k], d)) /\ s # << >> /\ Sets(s[1], d)
                => txt[d] = SetTo(s[1])
<1>1. Holds(s, kept[d], Len(s) + 1, d, txt[d])
    BY DEF Current
<1>2. Len(s) \in Nat /\ \A k \in 1..Len(s) : k < Len(s) + 1
    BY LenProperties
<1>3. ASSUME \A k \in 1..Len(s) : ~Sets(s[k], d) PROVE Stored(kept[d], txt[d])
    BY <1>1, <1>3 DEF Holds
<1>4. ASSUME \A k \in 1..Len(s) : k > 1 => ~Sets(s[k], d), s # << >>, Sets(s[1], d)
      PROVE  txt[d] = SetTo(s[1])
    <2>1. 1 \in 1..Len(s)
        BY <1>4, TailFacts
    <2>2. ~(\A l \in 1..Len(s) : l < Len(s) + 1 => ~Sets(s[l], d))
        BY <1>2, <1>4, <2>1
    <2>3. PICK k \in 1..Len(s) : Sets(s[k], d) /\ SetTo(s[k]) = txt[d]
        BY <1>1, <2>2 DEF Holds
    <2>4. k = 1
        BY <1>4, <2>3
    <2> QED
        BY <2>3, <2>4
<1> QED
    BY <1>3, <1>4

\* The server has handled the head of stdin and written x.
LEMMA FreshServe ==
    ASSUME NEW s \in Seq(Messages), s # << >>, NEW o \in Seq(Outputs), NEW x \in Outputs,
           NEW sh, NEW kept, NEW txt, Current(s, kept, txt), Fresh(s, o, sh, txt),
           \A d \in Docs : Sets(s[1], d) => About(x, d) /\ Right(x.of, SetTo(s[1])),
           \A d \in Docs : ~Sets(s[1], d) /\ About(x, d) => x.of = kept[d] /\ kept[d] \in Texts
    PROVE  Fresh(Tail(s), Append(o, x), sh, txt)
<1> DEFINE r == Tail(s)
<1>1. /\ Len(s) > 0 /\ Len(s) \in Nat
      /\ \A k \in 1..Len(s) : k > 1 => k - 1 \in 1..Len(r) /\ r[k - 1] = s[k]
    BY TailFacts
<1> HIDE DEF r
<1>2. ASSUME NEW d \in Docs, \A k \in 1..Len(r) : ~Sets(r[k], d)
      PROVE  Ends(Append(o, x), sh[d], d, txt[d])
    <2>1. \A k \in 1..Len(s) : k > 1 => ~Sets(s[k], d)
        BY <1>1, <1>2
    <2>2. CASE Sets(s[1], d)
        <3>1. txt[d] = SetTo(s[1])
            BY <2>1, <2>2, CurrentNow
        <3> QED
            BY <2>2, <3>1, EndsWith
    <2>3. CASE ~Sets(s[1], d)
        <3>1. \A k \in 1..Len(s) : ~Sets(s[k], d)
            <4>1. \A k \in 1..Len(s) : k = 1 \/ k > 1
                OBVIOUS
            <4> QED
                BY <2>1, <2>3, <4>1
        <3>2. CASE About(x, d)
            <4>1. Stored(kept[d], txt[d]) /\ x.of = kept[d] /\ kept[d] \in Texts
                BY <2>3, <3>1, <3>2, CurrentNow
            <4>2. Right(x.of, txt[d])
                BY <4>1, LspAssumption DEF Stored, Right
            <4> QED
                BY <3>2, <4>2, EndsWith
        <3>3. CASE ~About(x, d)
            <4>1. Ends(o, sh[d], d, txt[d])
                BY <3>1 DEF Fresh
            <4> QED
                BY <3>3, <4>1, EndsKeeps
        <3> QED
            BY <3>2, <3>3
    <2> QED
        BY <2>2, <2>3
<1> QED
    BY <1>2 DEF Fresh, r

\* The server has passed over a message that sets nothing.
LEMMA FreshSkip ==
    ASSUME NEW s \in Seq(Messages), s # << >>, NEW o, NEW sh, NEW txt, Fresh(s, o, sh, txt),
           \A d \in Docs : ~Sets(s[1], d)
    PROVE  Fresh(Tail(s), o, sh, txt)
<1> DEFINE r == Tail(s)
<1>1. \A k \in 1..Len(s) : k > 1 => k - 1 \in 1..Len(r) /\ r[k - 1] = s[k]
    BY TailFacts
<1> HIDE DEF r
<1>2. ASSUME NEW d \in Docs, \A k \in 1..Len(r) : ~Sets(r[k], d) PROVE Ends(o, sh[d], d, txt[d])
    <2>1. \A k \in 1..Len(s) : k = 1 \/ k > 1
        OBVIOUS
    <2>2. \A k \in 1..Len(s) : ~Sets(s[k], d)
        BY <1>1, <1>2, <2>1
    <2> QED
        BY <2>2 DEF Fresh
<1> QED
    BY <1>2 DEF Fresh, r

-----------------------------------------------------------------------------
(* Requests and their answers.                                             *)

\* A number that no request or response has.
Unused(s, o, ans, k) ==
    /\ k \notin ans
    /\ \A i \in 1..Len(s) : s[i].kind = "request" => s[i].id # k
    /\ \A j \in 1..Len(o) : o[j].kind = "response" => o[j].id # k

LEMMA IdsSend ==
    ASSUME NEW s \in Seq(Messages), NEW m \in Messages, NEW o \in Seq(Outputs), NEW n \in Nat,
           NEW ans \in SUBSET (1..n), Ids(s, o, n, ans)
    PROVE  /\ m.kind # "request" => Ids(Append(s, m), o, n, ans)
           /\ m.kind = "request" /\ m.id = n + 1 => Ids(Append(s, m), o, n + 1, ans)
<1> DEFINE r == Append(s, m)
<1>1. /\ Len(s) \in Nat /\ r[Len(s) + 1] = m
      /\ \A k \in 1..Len(s) : r[k] = s[k]
      /\ \A k \in 1..Len(r) : k = Len(s) + 1 \/ k \in 1..Len(s)
    BY AppendFacts
<1> HIDE DEF r
<1>2. \A k \in 1..Len(r) : (k = Len(s) + 1 /\ r[k] = m) \/ (k \in 1..Len(s) /\ r[k] = s[k])
    BY <1>1
<1>3. ASSUME m.kind # "request" PROVE Ids(r, o, n, ans)
    <2>1. \A k \in 1..Len(r) : r[k].kind = "request" => k \in 1..Len(s) /\ r[k] = s[k]
        BY <1>2, <1>3
    <2>2. Requests(s, n) /\ RequestsDiffer(s) /\ Unanswered(s, o, ans)
        BY DEF Ids
    <2>3. Requests(r, n) /\ RequestsDiffer(r)
        BY <2>1, <2>2 DEF Requests, RequestsDiffer
    <2>4. Unanswered(r, o, ans)
        BY <2>1, <2>2 DEF Unanswered
    <2> QED
        BY <2>3, <2>4 DEF Ids
<1>4. ASSUME m.kind = "request", m.id = n + 1 PROVE Ids(r, o, n + 1, ans)
    <2>1. \A i \in 1..n : i \in 1..(n + 1) /\ i # n + 1
        OBVIOUS
    <2>2. n + 1 \in 1..(n + 1) /\ n + 1 \notin ans
        BY <2>1
    <2>3. Requests(r, n + 1) /\ Responses(o, n + 1)
        BY <1>2, <1>4, <2>1, <2>2 DEF Ids, Requests, Responses
    <2>4. RequestsDiffer(r)
        <3> SUFFICES ASSUME NEW i \in 1..Len(r), NEW j \in 1..Len(r), r[i].kind = "request",
                            r[j].kind = "request", r[i].id = r[j].id
                     PROVE  i = j
            BY DEF RequestsDiffer
        <3>1. \A k \in 1..Len(s) : s[k].kind = "request" => s[k].id # n + 1
            BY <2>1 DEF Ids, Requests
        <3>2. CASE r[i] = m /\ i = Len(s) + 1
            BY <1>2, <1>4, <3>1, <3>2
        <3>3. CASE r[j] = m /\ j = Len(s) + 1
            BY <1>2, <1>4, <3>1, <3>3
        <3>4. CASE i \in 1..Len(s) /\ r[i] = s[i] /\ j \in 1..Len(s) /\ r[j] = s[j]
            <4>1. s[i].kind = "request" /\ s[j].kind = "request" /\ s[i].id = s[j].id
                BY <3>4
            <4> QED
                BY <3>4, <4>1 DEF Ids, RequestsDiffer
        <3> QED
            BY <1>2, <3>2, <3>3, <3>4
    <2>5. Unanswered(r, o, ans)
        <3>1. \A j \in 1..Len(o) : o[j].kind = "response" => o[j].id # n + 1
            BY <2>1 DEF Ids, Responses
        <3> QED
            BY <1>2, <1>4, <2>2, <3>1 DEF Ids, Unanswered
    <2> QED
        BY <2>3, <2>4, <2>5 DEF Ids
<1> QED
    BY <1>3, <1>4 DEF r

LEMMA IdsTake ==
    ASSUME NEW s \in Seq(Messages), s # << >>, NEW o, NEW n, NEW ans, Ids(s, o, n, ans)
    PROVE  /\ Ids(Tail(s), o, n, ans)
           /\ s[1].kind = "request" => s[1].id \in 1..n /\ Unused(Tail(s), o, ans, s[1].id)
<1> DEFINE r == Tail(s)
<1>0. Len(s) > 0 /\ Len(s) \in Nat /\ Len(r) = Len(s) - 1
    BY TailFacts
<1>1. \A k \in 1..Len(r) : k + 1 \in 1..Len(s) /\ r[k] = s[k + 1]
    BY TailFacts
<1> HIDE DEF r
<1>2. 1 \in 1..Len(s) /\ \A k \in 1..Len(r) : k + 1 # 1
    BY <1>0
<1>3. RequestsDiffer(r)
    <2> SUFFICES ASSUME NEW i \in 1..Len(r), NEW j \in 1..Len(r), r[i].kind = "request",
                        r[j].kind = "request", r[i].id = r[j].id
                 PROVE  i = j
        BY DEF RequestsDiffer
    <2>1. i + 1 = j + 1
        <3>1. /\ i + 1 \in 1..Len(s) /\ r[i] = s[i + 1]
              /\ j + 1 \in 1..Len(s) /\ r[j] = s[j + 1]
            BY <1>1
        <3> QED
            BY <3>1 DEF Ids, RequestsDiffer
    <2> QED
        BY <2>1
<1>4. Ids(r, o, n, ans)
    <2>1. Requests(r, n)
        BY <1>1 DEF Ids, Requests
    <2>2. Unanswered(r, o, ans)
        <3>1. ASSUME NEW i \in 1..Len(r), r[i].kind = "request"
              PROVE  /\ r[i].id \notin ans
                     /\ \A j \in 1..Len(o) : o[j].kind = "response" => r[i].id # o[j].id
            <4>1. i + 1 \in 1..Len(s) /\ r[i] = s[i + 1]
                BY <1>1
            <4> QED
                BY <3>1, <4>1 DEF Ids, Unanswered
        <3> QED
            BY <3>1 DEF Ids, Unanswered
    <2> QED
        BY <1>3, <2>1, <2>2 DEF Ids
<1>5. ASSUME s[1].kind = "request" PROVE s[1].id \in 1..n /\ Unused(r, o, ans, s[1].id)
    <2>1. ASSUME NEW k \in 1..Len(r), r[k].kind = "request" PROVE r[k].id # s[1].id
        <3>1. k + 1 \in 1..Len(s) /\ r[k] = s[k + 1] /\ k + 1 # 1
            BY <1>1, <1>2
        <3> QED
            BY <1>2, <1>5, <2>1, <3>1 DEF Ids, RequestsDiffer
    <2>2. s[1].id \notin ans /\ \A j \in 1..Len(o) : o[j].kind = "response" => o[j].id # s[1].id
        BY <1>2, <1>5 DEF Ids, Unanswered
    <2>3. s[1].id \in 1..n
        BY <1>2, <1>5 DEF Ids, Requests
    <2> QED
        BY <2>1, <2>2, <2>3 DEF Unused
<1> QED
    BY <1>4, <1>5 DEF r

LEMMA IdsWrite ==
    ASSUME NEW s, NEW o \in Seq(Outputs), NEW x \in Outputs, NEW n, NEW ans, Ids(s, o, n, ans),
           x.kind = "response" => x.id \in 1..n /\ Unused(s, o, ans, x.id)
    PROVE  Ids(s, Append(o, x), n, ans)
<1> DEFINE r == Append(o, x)
<1>1. /\ Len(o) \in Nat /\ r[Len(o) + 1] = x
      /\ \A k \in 1..Len(o) : r[k] = o[k]
      /\ \A k \in 1..Len(r) : k = Len(o) + 1 \/ k \in 1..Len(o)
    BY AppendFacts
<1> HIDE DEF r
<1>2. \A k \in 1..Len(r) : (k = Len(o) + 1 /\ r[k] = x) \/ (k \in 1..Len(o) /\ r[k] = o[k])
    BY <1>1
<1>3. Responses(r, n)
    BY <1>2 DEF Ids, Responses
<1>4. ResponsesDiffer(r)
    <2> SUFFICES ASSUME NEW i \in 1..Len(r), NEW j \in 1..Len(r), r[i].kind = "response",
                        r[j].kind = "response", r[i].id = r[j].id
                 PROVE  i = j
        BY DEF ResponsesDiffer
    <2>1. CASE r[i] = x /\ i = Len(o) + 1
        BY <1>2, <2>1 DEF Unused
    <2>2. CASE r[j] = x /\ j = Len(o) + 1
        BY <1>2, <2>2 DEF Unused
    <2>3. CASE i \in 1..Len(o) /\ r[i] = o[i] /\ j \in 1..Len(o) /\ r[j] = o[j]
        <3>1. o[i].kind = "response" /\ o[j].kind = "response" /\ o[i].id = o[j].id
            BY <2>3
        <3> QED
            BY <2>3, <3>1 DEF Ids, ResponsesDiffer
    <2> QED
        BY <1>2, <2>1, <2>2, <2>3
<1>5. Unanswered(s, r, ans)
    <2>1. ASSUME NEW j \in 1..Len(r), r[j].kind = "response"
          PROVE  /\ r[j].id \notin ans
                 /\ \A i \in 1..Len(s) : s[i].kind = "request" => s[i].id # r[j].id
        <3>1. CASE r[j] = x
            BY <2>1, <3>1 DEF Unused
        <3>2. CASE j \in 1..Len(o) /\ r[j] = o[j]
            BY <2>1, <3>2 DEF Ids, Unanswered
        <3> QED
            BY <1>2, <3>1, <3>2
    <2> QED
        BY <2>1 DEF Ids, Unanswered
<1> QED
    BY <1>3, <1>4, <1>5 DEF Ids, r

LEMMA IdsRead ==
    ASSUME NEW s, NEW o \in Seq(Outputs), o # << >>, NEW n, NEW one, NEW two, Ids(s, o, n, one),
           two = IF o[1].kind = "response" THEN one \cup {o[1].id} ELSE one
    PROVE  Ids(s, Tail(o), n, two)
<1> DEFINE r == Tail(o)
<1>0. Len(o) > 0 /\ Len(o) \in Nat /\ Len(r) = Len(o) - 1
    BY TailFacts
<1>1. \A k \in 1..Len(r) : k + 1 \in 1..Len(o) /\ r[k] = o[k + 1]
    BY TailFacts
<1> HIDE DEF r
<1>2. 1 \in 1..Len(o) /\ \A k \in 1..Len(r) : k + 1 # 1
    BY <1>0
<1>3. Responses(r, n)
    BY <1>1 DEF Ids, Responses
<1>4. ResponsesDiffer(r)
    <2> SUFFICES ASSUME NEW i \in 1..Len(r), NEW j \in 1..Len(r), r[i].kind = "response",
                        r[j].kind = "response", r[i].id = r[j].id
                 PROVE  i = j
        BY DEF ResponsesDiffer
    <2>1. i + 1 = j + 1
        <3>1. /\ i + 1 \in 1..Len(o) /\ r[i] = o[i + 1]
              /\ j + 1 \in 1..Len(o) /\ r[j] = o[j + 1]
            BY <1>1
        <3> QED
            BY <3>1 DEF Ids, ResponsesDiffer
    <2> QED
        BY <2>1
<1>5. Unanswered(s, r, two)
    <2>1. ASSUME NEW j \in 1..Len(r), r[j].kind = "response" PROVE r[j].id \notin two
        <3>1. j + 1 \in 1..Len(o) /\ r[j] = o[j + 1] /\ j + 1 # 1
            BY <1>1, <1>2
        <3>2. r[j].id \notin one
            BY <2>1, <3>1 DEF Ids, Unanswered
        <3>3. o[1].kind = "response" => r[j].id # o[1].id
            BY <1>2, <2>1, <3>1 DEF Ids, ResponsesDiffer
        <3> QED
            BY <3>2, <3>3
    <2>2. ASSUME NEW i \in 1..Len(s), s[i].kind = "request" PROVE s[i].id \notin two
        BY <1>2, <2>2 DEF Ids, Unanswered
    <2>3. ASSUME NEW i \in 1..Len(s), NEW j \in 1..Len(r), s[i].kind = "request", r[j].kind = "response"
          PROVE  s[i].id # r[j].id
        BY <1>1, <2>3 DEF Ids, Unanswered
    <2> QED
        BY <2>1, <2>2, <2>3 DEF Unanswered
<1> QED
    BY <1>3, <1>4, <1>5 DEF Ids, r

LEMMA AnswersWrite ==
    ASSUME NEW o \in Seq(Outputs), NEW x \in Outputs, NEW ask, Answers(o, ask),
           x.kind = "response" /\ x.result # Null => Faithful(x.result, ask[x.id].text)
    PROVE  Answers(Append(o, x), ask)
<1>1. \A k \in 1..Len(Append(o, x)) :
          Append(o, x)[k] = x \/ (k \in 1..Len(o) /\ Append(o, x)[k] = o[k])
    BY AppendFacts
<1> QED
    BY <1>1 DEF Answers

LEMMA AnswersRead ==
    ASSUME NEW o \in Seq(Outputs), o # << >>, NEW ask, Answers(o, ask)
    PROVE  Answers(Tail(o), ask)
<1>1. \A k \in 1..Len(Tail(o)) : k + 1 \in 1..Len(o) /\ Tail(o)[k] = o[k + 1]
    BY TailFacts
<1> QED
    BY <1>1 DEF Answers

\* A question more changes nothing for those that have been asked.
LEMMA Asked ==
    ASSUME NEW ask \in Questions, NEW q \in [doc : Docs, text : Texts \cup {Closed}],
           NEW s, NEW o, NEW ans, NEW kept, Ids(s, o, Len(ask), ans),
           Views(s, kept, ask), Answers(o, ask)
    PROVE  /\ Views(s, kept, Append(ask, q)) /\ Answers(o, Append(ask, q))
           /\ Append(ask, q) \in Questions /\ Len(Append(ask, q)) = Len(ask) + 1
           /\ Append(ask, q)[Len(ask) + 1] = q /\ Len(ask) \in Nat
<1>1. /\ \A i \in 1..Len(ask) : Append(ask, q)[i] = ask[i]
      /\ Append(ask, q) \in Questions /\ Len(Append(ask, q)) = Len(ask) + 1
      /\ Append(ask, q)[Len(ask) + 1] = q /\ Len(ask) \in Nat
    BY AppendFacts DEF Questions
<1>2. \A i \in 1..Len(s) : s[i].kind = "request" => s[i].id \in 1..Len(ask)
    BY DEF Ids, Requests
<1>3. \A i \in 1..Len(o) : o[i].kind = "response" => o[i].id \in 1..Len(ask)
    BY DEF Ids, Responses
<1> QED
    BY <1>1, <1>2, <1>3 DEF Views, Answers

-----------------------------------------------------------------------------
(* The editor's steps.                                                     *)

LEMMA InvParts ==
    ASSUME LspInv
    PROVE  /\ TypeInv /\ stdin \in Seq(Messages) /\ stdout \in Seq(Outputs) /\ asked \in Questions
           /\ Len(asked) \in Nat /\ answered \in SUBSET (1..Len(asked))
           /\ Ids(stdin, stdout, Len(asked), answered)
           /\ Views(stdin, documents, asked) /\ Answers(stdout, asked)
           /\ open => Current(stdin, documents, text) /\ Fresh(stdin, stdout, shown, text)
<1>1. Len(asked) \in Nat
    BY LenProperties DEF LspInv, TypeInv, Questions
<1> QED
    BY <1>1 DEF LspInv, TypeInv, GoodInput

LEMMA GoodMoves ==
    ASSUME NEW s, GoodInput(s)
    PROVE  /\ s # << >> => GoodInput(Tail(s))
           /\ \A m \in Messages : (m.kind = "didOpen" => Len(m.texts) = 1) => GoodInput(Append(s, m))
<1>1. s \in Seq(Messages)
    BY DEF GoodInput
<1>2. ASSUME s # << >> PROVE GoodInput(Tail(s))
    <2>1. Tail(s) \in Seq(Messages) /\ \A i \in 1..Len(Tail(s)) : i + 1 \in 1..Len(s) /\ Tail(s)[i] = s[i + 1]
        BY <1>1, <1>2, TailFacts
    <2> QED
        BY <2>1 DEF GoodInput
<1>3. ASSUME NEW m \in Messages, m.kind = "didOpen" => Len(m.texts) = 1 PROVE GoodInput(Append(s, m))
    <2>1. /\ Append(s, m) \in Seq(Messages)
          /\ \A i \in 1..Len(Append(s, m)) :
                Append(s, m)[i] = m \/ (i \in 1..Len(s) /\ Append(s, m)[i] = s[i])
        BY <1>1, AppendFacts
    <2> QED
        BY <1>3, <2>1 DEF GoodInput
<1> QED
    BY <1>2, <1>3

\* A notification is sent.
LEMMA SayStep ==
    ASSUME LspInv, NEW m \in Messages, m.kind # "request", m.kind = "didOpen" => Len(m.texts) = 1,
           open, Said(m, text, text'), text' \in [Docs -> Texts \cup {Closed}], stdin' = Append(stdin, m),
           UNCHANGED <<shown, asked, answered, open, stdout, documents, running>>
    PROVE  LspInv'
<1>1. /\ stdin \in Seq(Messages) /\ stdout \in Seq(Outputs) /\ Len(asked) \in Nat
      /\ answered \in SUBSET (1..Len(asked)) /\ Ids(stdin, stdout, Len(asked), answered)
      /\ Views(stdin, documents, asked) /\ Current(stdin, documents, text)
      /\ Fresh(stdin, stdout, shown, text)
    BY InvParts
<1>2. GoodInput(stdin')
    BY GoodMoves DEF LspInv, TypeInv
<1>3. TypeInv'
    BY <1>2 DEF LspInv, TypeInv
<1>4. Ids(stdin', stdout, Len(asked), answered)
    BY <1>1, IdsSend
<1>5. Views(stdin', documents, asked)
    BY <1>1, ViewsAppend
<1>6. Current(stdin', documents, text') /\ Fresh(stdin', stdout, shown, text')
    BY <1>1, CurrentAppend, FreshAppend
<1> QED
    BY <1>3, <1>4, <1>5, <1>6 DEF LspInv

\* The texts after a message about document d, and after one about none.
LEMMA SaidOne ==
    ASSUME TypeInv, NEW d \in Docs, NEW m, NEW t, m.doc = d, Sets(m, d), SetTo(m) = t
    PROVE  Said(m, text, [text EXCEPT ![d] = t])
<1>1. \A e \in Docs : e # d => ~Sets(m, e)
    BY DEF Sets
<1> QED
    BY <1>1 DEF Said, TypeInv

LEMMA EditStep ==
    ASSUME LspInv, Edit
    PROVE  LspInv'
<1> USE DEF LspInv
<1>1. ASSUME NEW d \in Docs, NEW t \in Typed, Open(d, t) PROVE LspInv'
    <2> DEFINE m == [kind |-> "didOpen", doc |-> d, texts |-> <<t>>]
    <2>1. t \in Texts /\ <<t>> \in Seq(Texts) /\ Len(<<t>>) = 1 /\ <<t>> # << >> /\ Last(<<t>>) = t
        BY LspAssumption DEF Last
    <2>2. m \in Messages /\ m.kind = "didOpen" /\ m.doc = d /\ m.texts = <<t>>
        BY <2>1 DEF Messages
    <2>3. /\ stdin' = Append(stdin, m) /\ open /\ text' = [text EXCEPT ![d] = t]
          /\ UNCHANGED <<shown, asked, answered, open, stdout, documents, running>>
        BY <1>1 DEF Open, Notify, Send, server
    <2> HIDE DEF m
    <2>4. Sets(m, d) /\ SetTo(m) = t
        BY <2>1, <2>2 DEF Sets, SetTo
    <2>5. Said(m, text, text')
        BY <2>2, <2>3, <2>4, SaidOne
    <2>6. text' \in [Docs -> Texts \cup {Closed}]
        BY <2>1, <2>3 DEF TypeInv
    <2> QED
        BY <2>1, <2>2, <2>3, <2>5, <2>6, SayStep
<1>2. ASSUME NEW d \in Docs, NEW ts \in Seq(Texts), Change(d, ts) PROVE LspInv'
    <2> DEFINE m == [kind |-> "didChange", doc |-> d, texts |-> ts]
    <2>1. m \in Messages /\ m.kind = "didChange" /\ m.doc = d /\ m.texts = ts
        BY DEF Messages
    <2>2. /\ stdin' = Append(stdin, m) /\ open
          /\ UNCHANGED <<shown, asked, answered, open, stdout, documents, running>>
        BY <1>2 DEF Change, Notify, Send, server
    <2> HIDE DEF m
    <2>3. CASE ts = << >>
        <3>1. text' = text /\ \A e \in Docs : ~Sets(m, e)
            BY <1>2, <2>1, <2>3 DEF Change, Sets
        <3>2. Said(m, text, text')
            BY <3>1 DEF Said
        <3> QED
            BY <2>1, <2>2, <3>1, <3>2, SayStep DEF TypeInv
    <2>4. CASE ts # << >>
        <3>1. text' = [text EXCEPT ![d] = Last(ts)]
            BY <1>2, <2>4 DEF Change
        <3>2. Sets(m, d) /\ SetTo(m) = Last(ts)
            BY <2>1, <2>4 DEF Sets, SetTo
        <3>3. Said(m, text, text')
            BY <2>1, <3>1, <3>2, SaidOne
        <3>4. Last(ts) \in Texts
            BY <2>4, LastFacts
        <3>5. text' \in [Docs -> Texts \cup {Closed}]
            BY <3>1, <3>4 DEF TypeInv
        <3> QED
            BY <2>1, <2>2, <3>3, <3>5, SayStep
    <2> QED
        BY <2>3, <2>4
<1>3. ASSUME NEW d \in Docs, Close(d) PROVE LspInv'
    <2> DEFINE m == [kind |-> "didClose", doc |-> d]
    <2>1. m \in Messages /\ m.kind = "didClose" /\ m.doc = d
        BY DEF Messages
    <2>2. /\ stdin' = Append(stdin, m) /\ open /\ text' = [text EXCEPT ![d] = Closed]
          /\ UNCHANGED <<shown, asked, answered, open, stdout, documents, running>>
        BY <1>3 DEF Close, Notify, Send, server
    <2> HIDE DEF m
    <2>3. Sets(m, d) /\ SetTo(m) = Closed
        BY <2>1 DEF Sets, SetTo
    <2>4. Said(m, text, text')
        BY <2>1, <2>2, <2>3, SaidOne
    <2>5. text' \in [Docs -> Texts \cup {Closed}]
        BY <2>2 DEF TypeInv
    <2> QED
        BY <2>1, <2>2, <2>4, <2>5, SayStep
<1>4. << >> \in Seq(Texts) /\ \A t, u \in Typed : <<t>> \in Seq(Texts) /\ <<t, u>> \in Seq(Texts)
    BY LspAssumption
<1> QED
    BY <1>1, <1>2, <1>3, <1>4 DEF Edit

LEMMA OtherStep ==
    ASSUME LspInv, NEW kind \in {"ignored", "fatal"}, Other(kind)
    PROVE  LspInv'
<1> DEFINE m == [kind |-> kind]
<1>1. m \in Messages /\ m.kind = kind
    BY DEF Messages
<1>2. /\ stdin' = Append(stdin, m) /\ open /\ text' = text
      /\ UNCHANGED <<shown, asked, answered, open, stdout, documents, running>>
    BY DEF Other, Notify, Send, server
<1> HIDE DEF m
<1>3. \A e \in Docs : ~Sets(m, e)
    BY <1>1 DEF Sets
<1>4. Said(m, text, text')
    BY <1>2, <1>3 DEF Said
<1> QED
    BY <1>1, <1>2, <1>4, SayStep DEF LspInv, TypeInv

\* A request is about the text that what is in stdin will bring about.
LEMMA RequestStep ==
    ASSUME LspInv, NEW method \in Methods, NEW d \in Docs, Request(method, d)
    PROVE  LspInv'
<1> DEFINE m == [kind |-> "request", method |-> method, doc |-> d, id |-> Len(asked) + 1]
           q == [doc |-> d, text |-> text[d]]
<1>1. /\ TypeInv /\ stdin \in Seq(Messages) /\ stdout \in Seq(Outputs) /\ asked \in Questions
      /\ Len(asked) \in Nat /\ answered \in SUBSET (1..Len(asked))
      /\ Ids(stdin, stdout, Len(asked), answered)
      /\ Views(stdin, documents, asked) /\ Answers(stdout, asked)
    BY InvParts
<1>2. /\ stdin' = Append(stdin, m) /\ asked' = Append(asked, q) /\ open
      /\ UNCHANGED <<text, shown, answered, open, stdout, documents, running>>
    BY DEF Request, Send, server
<1>3. Current(stdin, documents, text) /\ Fresh(stdin, stdout, shown, text)
    BY <1>2, InvParts
<1>4. q \in [doc : Docs, text : Texts \cup {Closed}] /\ q.text = text[d]
    BY <1>1 DEF TypeInv
<1>5. m \in Messages /\ m.kind = "request" /\ m.doc = d /\ m.id = Len(asked) + 1
    BY <1>1 DEF Messages
<1> HIDE DEF m, q
<1>6. /\ Views(stdin, documents, asked') /\ Answers(stdout, asked')
      /\ asked' \in Questions /\ Len(asked') = Len(asked) + 1
      /\ asked'[Len(asked) + 1] = q
    BY <1>1, <1>2, <1>4, Asked
<1>7. Ids(stdin', stdout, Len(asked'), answered)
    BY <1>1, <1>2, <1>5, <1>6, IdsSend
<1>8. Views(stdin', documents, asked')
    <2>1. Holds(stdin, documents[d], Len(stdin) + 1, d, asked'[m.id].text)
        BY <1>3, <1>4, <1>5, <1>6 DEF Current
    <2> QED
        BY <1>1, <1>2, <1>5, <1>6, <2>1, ViewsAppend
<1>9. Current(stdin', documents, text) /\ Fresh(stdin', stdout, shown, text)
    <2>1. \A e \in Docs : ~Sets(m, e)
        BY <1>5 DEF Sets
    <2>2. Said(m, text, text)
        BY <2>1 DEF Said
    <2> QED
        BY <1>1, <1>2, <1>3, <1>5, <2>2, CurrentAppend, FreshAppend
<1>10. TypeInv'
    <2>1. GoodInput(stdin')
        BY <1>1, <1>2, <1>5, GoodMoves DEF TypeInv
    <2>2. answered' \subseteq 1..Len(asked')
        BY <1>1, <1>2, <1>6
    <2> QED
        BY <1>1, <1>2, <1>6, <2>1, <2>2 DEF TypeInv
<1> QED
    BY <1>2, <1>6, <1>7, <1>8, <1>9, <1>10 DEF LspInv

\* The head of stdout is read, whatever it is.
LEMMA ReadFacts ==
    ASSUME LspInv, Receive
    PROVE  /\ stdout # << >> /\ stdout[1] \in Outputs /\ Head(stdout) = stdout[1]
           /\ stdout' = Tail(stdout) /\ stdout' \in Seq(Outputs) /\ Len(stdout') <= Capacity
           /\ UNCHANGED <<asked, open, documents, running>>
           /\ Ids(stdin, stdout', Len(asked), answered') /\ answered' \subseteq 1..Len(asked)
           /\ Answers(stdout', asked)
           /\ shown' \in [Docs -> Texts \cup {NoText}]
           /\ open => Fresh(stdin, stdout', shown', text)
<1>1. /\ TypeInv /\ stdin \in Seq(Messages) /\ stdout \in Seq(Outputs)
      /\ answered \in SUBSET (1..Len(asked)) /\ Ids(stdin, stdout, Len(asked), answered)
      /\ Answers(stdout, asked) /\ (open => Fresh(stdin, stdout, shown, text))
    BY InvParts
<1>2. stdout # << >> /\ stdout' = Tail(stdout) /\ UNCHANGED <<asked, open, documents, running>>
    BY DEF Receive, server
<1>3. /\ Head(stdout) = stdout[1] /\ stdout[1] \in Outputs /\ Tail(stdout) \in Seq(Outputs)
      /\ Len(Tail(stdout)) = Len(stdout) - 1 /\ Len(stdout) \in Nat /\ 1 \in 1..Len(stdout)
    BY <1>1, <1>2, TailFacts
<1>4. Len(stdout') <= Capacity
    BY <1>1, <1>2, <1>3, LspAssumption DEF TypeInv
<1>5. answered' = IF stdout[1].kind = "response" THEN answered \cup {stdout[1].id} ELSE answered
    BY <1>3 DEF Receive
<1>6. /\ shown' \in [Docs -> Texts \cup {NoText}]
      /\ \A d \in Docs : shown'[d] = IF About(stdout[1], d) THEN stdout[1].of ELSE shown[d]
    <2>1. CASE stdout[1].kind = "diagnostics"
        <3>1. shown' = [shown EXCEPT ![stdout[1].doc] = stdout[1].of]
            BY <1>3, <2>1 DEF Receive
        <3>2. stdout[1].doc \in Docs /\ stdout[1].of \in Texts \cup {NoText}
            BY <1>3, <2>1, OutputFacts
        <3> QED
            BY <1>1, <2>1, <3>1, <3>2 DEF About, TypeInv
    <2>2. CASE stdout[1].kind = "response"
        <3>1. shown' = shown
            BY <1>3, <2>2 DEF Receive
        <3> QED
            BY <1>1, <2>2, <3>1 DEF About, TypeInv
    <2> QED
        BY <1>3, <2>1, <2>2, OutputFacts
<1>7. Ids(stdin, stdout', Len(asked), answered')
    BY <1>1, <1>2, <1>5, IdsRead
<1>8. answered' \subseteq 1..Len(asked)
    BY <1>1, <1>3, <1>5 DEF Ids, Responses
<1>9. Answers(stdout', asked)
    BY <1>1, <1>2, AnswersRead
<1>10. open => Fresh(stdin, stdout', shown', text)
    BY <1>1, <1>2, <1>6, FreshRead
<1> QED
    BY <1>2, <1>3, <1>4, <1>6, <1>7, <1>8, <1>9, <1>10

\* The layout of a text is a text; it has every statement that is written in full,
\* and of a text of such statements all of it.
LEMMA LayoutFacts ==
    ASSUME NEW t \in Texts
    PROVE  LET u == format_program(t) IN
           /\ \A tidy \in BOOLEAN :
                 /\ [u EXCEPT !.tidy = tidy] \in Texts
                 /\ [u EXCEPT !.tidy = tidy].good = u.good
                 /\ [u EXCEPT !.tidy = tidy].error = u.error
           /\ t.good \cap Whole \subseteq u.good
           /\ t.good \subseteq Whole => u.good = t.good /\ u.error = "none"
           /\ t.good \subseteq Whole /\ t.error = "none" /\ t.tidy => u = t
<1> DEFINE u == format_program(t)
<1>1. /\ t.good \in SUBSET Stmts /\ t.tidy \in BOOLEAN
      /\ t = [good |-> t.good, error |-> t.error, tidy |-> t.tidy]
    BY DEF Texts
<1>2. /\ u.good = {Layout[s] : s \in t.good} \ {Broken}
      /\ u.error = (IF \E s \in t.good : Layout[s] = Broken THEN "parse" ELSE "none")
      /\ u = [good |-> u.good, error |-> u.error, tidy |-> TRUE]
    BY DEF format_program
<1>3. u.good \in SUBSET Stmts /\ u.error \in {"none", "parse"}
    BY <1>1, <1>2, LspAssumption
<1>4. \A s \in t.good \cap Whole : s \in Stmts /\ Layout[s] = s /\ s # Broken
    BY <1>1, LspAssumption DEF Whole
<1>5. t.good \cap Whole \subseteq u.good
    BY <1>2, <1>4
<1>6. ASSUME t.good \subseteq Whole PROVE u.good = t.good /\ u.error = "none"
    <2>1. \A s \in t.good : Layout[s] = s /\ s # Broken
        BY <1>4, <1>6
    <2> QED
        BY <1>2, <2>1
<1>7. ASSUME t.good \subseteq Whole, t.error = "none", t.tidy PROVE u = t
    <2>1. t.tidy = TRUE
        BY <1>1, <1>7
    <2> QED
        BY <1>1, <1>2, <1>6, <1>7, <2>1
<1>8. ASSUME NEW tidy \in BOOLEAN
      PROVE  /\ [u EXCEPT !.tidy = tidy] \in Texts
             /\ [u EXCEPT !.tidy = tidy].good = u.good
             /\ [u EXCEPT !.tidy = tidy].error = u.error
    <2>1. [u EXCEPT !.tidy = tidy] = [good |-> u.good, error |-> u.error, tidy |-> tidy]
        BY <1>2
    <2> QED
        BY <1>3, <2>1 DEF Texts
<1> QED
    BY <1>5, <1>6, <1>7, <1>8

\* A response with an edit, for a document that is still as it was.
Edited(d) ==
    /\ stdout[1].kind = "response" /\ stdout[1].result # Null /\ stdout[1].result.edit
    /\ d = asked[stdout[1].id].doc /\ text[d] = asked[stdout[1].id].text
    /\ Apply(d, stdout[1].result)

LEMMA ReceiveCases ==
    ASSUME LspInv, Receive
    PROVE  UNCHANGED <<text, stdin>> \/ \E d \in Docs : Edited(d)
<1>1. stdout[1] \in Outputs /\ Head(stdout) = stdout[1]
    BY ReadFacts
<1>2. ASSUME stdout[1].kind = "response" PROVE asked[stdout[1].id].doc \in Docs
    <2>1. 1 \in 1..Len(stdout)
        <3>1. stdout \in Seq(Outputs) /\ stdout # << >>
            BY ReadFacts, InvParts
        <3> QED
            BY <3>1, TailFacts
    <2>2. stdout[1].id \in 1..Len(asked)
        BY <1>2, <2>1, InvParts DEF Ids, Responses
    <2>3. asked \in Seq([doc : Docs, text : Texts \cup {Closed}])
        BY InvParts DEF Questions
    <2>4. asked[stdout[1].id] \in [doc : Docs, text : Texts \cup {Closed}]
        BY <2>2, <2>3, ElementOfSeq
    <2> QED
        BY <2>4
<1>3. CASE stdout[1].kind = "diagnostics"
    BY <1>1, <1>3 DEF Receive
<1>4. CASE stdout[1].kind = "response"
    BY <1>1, <1>2, <1>4 DEF Receive, Edited
<1> QED
    BY <1>1, <1>3, <1>4, OutputFacts

\* The edit of a response, and what it is applied to.
LEMMA EditFacts ==
    ASSUME LspInv, Receive, NEW d \in Docs, Edited(d)
    PROVE  /\ Faithful(stdout[1].result, text[d]) /\ text[d] \in Texts
           /\ stdout[1].result.whole \in BOOLEAN
<1>1. stdout # << >> /\ stdout[1] \in Outputs /\ stdout \in Seq(Outputs)
    BY ReadFacts, InvParts
<1>2. 1 \in 1..Len(stdout)
    BY <1>1, TailFacts
<1>3. Faithful(stdout[1].result, text[d])
    BY <1>2, InvParts DEF Answers, Edited
<1>4. stdout[1].result \in Results
    BY <1>1, OutputFacts DEF Edited
<1>5. stdout[1].result.whole \in BOOLEAN
    BY <1>4 DEF Results, Edited
<1> QED
    BY <1>3, <1>5 DEF Faithful

LEMMA ReceiveStep ==
    ASSUME LspInv, Receive
    PROVE  LspInv'
<1>1. /\ stdout' \in Seq(Outputs) /\ Len(stdout') <= Capacity
      /\ UNCHANGED <<asked, open, documents, running>>
      /\ Ids(stdin, stdout', Len(asked), answered') /\ answered' \subseteq 1..Len(asked)
      /\ Answers(stdout', asked)
      /\ shown' \in [Docs -> Texts \cup {NoText}]
      /\ open => Fresh(stdin, stdout', shown', text)
    BY ReadFacts
<1>2. /\ TypeInv /\ stdin \in Seq(Messages) /\ Len(asked) \in Nat
      /\ Views(stdin, documents, asked) /\ (open => Current(stdin, documents, text))
    BY InvParts
<1>3. CASE UNCHANGED <<text, stdin>>
    <2>1. TypeInv'
        BY <1>1, <1>2, <1>3 DEF TypeInv
    <2> QED
        BY <1>1, <1>2, <1>3, <2>1 DEF LspInv
<1>4. ASSUME NEW d \in Docs, Edited(d) PROVE LspInv'
    <2>1. text[d] \in Texts /\ stdout[1].result.whole \in BOOLEAN
        BY <1>4, EditFacts
    <2>2. PICK t : /\ t \in IF Fits(stdout[1].result, text[d])
                            THEN {[format_program(text[d]) EXCEPT !.tidy = stdout[1].result.whole]} ELSE Typed
                   /\ text' = [text EXCEPT ![d] = t]
                   /\ stdin' = IF open THEN Append(stdin, [kind |-> "didChange", doc |-> d, texts |-> <<t>>])
                                       ELSE stdin
        BY <1>4 DEF Edited, Apply
    <2>3. t \in Texts
        <3>1. [format_program(text[d]) EXCEPT !.tidy = stdout[1].result.whole] \in Texts
            BY <2>1, LayoutFacts
        <3> QED
            BY <2>2, <3>1, LspAssumption
    <2>4. text' \in [Docs -> Texts \cup {Closed}]
        BY <1>2, <2>2, <2>3 DEF TypeInv
    <2>5. CASE ~open
        <3>1. TypeInv'
            BY <1>1, <1>2, <2>2, <2>4, <2>5 DEF TypeInv
        <3> QED
            BY <1>1, <1>2, <2>2, <2>5, <3>1 DEF LspInv
    <2>6. CASE open
        <3> DEFINE m == [kind |-> "didChange", doc |-> d, texts |-> <<t>>]
        <3>1. <<t>> \in Seq(Texts) /\ <<t>> # << >> /\ Last(<<t>>) = t
            BY <2>3 DEF Last
        <3>2. m \in Messages /\ m.kind = "didChange" /\ m.doc = d /\ m.texts = <<t>>
            BY <3>1 DEF Messages
        <3>3. stdin' = Append(stdin, m)
            BY <2>2, <2>6
        <3> HIDE DEF m
        <3>4. Sets(m, d) /\ SetTo(m) = t
            BY <3>1, <3>2 DEF Sets, SetTo
        <3>5. Said(m, text, text')
            BY <1>2, <2>2, <3>2, <3>4, SaidOne
        <3>6. GoodInput(stdin')
            BY <1>2, <3>2, <3>3, GoodMoves DEF TypeInv
        <3>7. TypeInv'
            BY <1>1, <1>2, <2>4, <3>6 DEF TypeInv
        <3>8. Ids(stdin', stdout', Len(asked), answered')
            <4>1. answered' \in SUBSET (1..Len(asked))
                BY <1>1
            <4> QED
                BY <1>1, <1>2, <3>2, <3>3, <4>1, IdsSend
        <3>9. Views(stdin', documents, asked)
            BY <1>2, <3>2, <3>3, ViewsAppend
        <3>10. Current(stdin', documents, text') /\ Fresh(stdin', stdout', shown', text')
            BY <1>1, <1>2, <2>6, <3>2, <3>3, <3>5, CurrentAppend, FreshAppend
        <3> QED
            BY <1>1, <3>7, <3>8, <3>9, <3>10 DEF LspInv
    <2> QED
        BY <1>2, <2>5, <2>6 DEF TypeInv
<1> QED
    BY <1>3, <1>4, ReceiveCases

-----------------------------------------------------------------------------
(* The server's steps.                                                     *)

\* What may be written for the message at the head of stdin.
Written(x) ==
    /\ \A d \in Docs : Sets(stdin[1], d) => About(x, d) /\ Right(x.of, SetTo(stdin[1]))
    /\ \A d \in Docs : ~Sets(stdin[1], d) /\ About(x, d) => x.of = documents[d] /\ documents[d] \in Texts
    /\ x.kind = "response" => stdin[1].kind = "request" /\ x.id = stdin[1].id
    /\ x.kind = "response" /\ x.result # Null => Faithful(x.result, asked[x.id].text)

LEMMA ServeStep ==
    ASSUME LspInv, stdin # << >>, stdin' = Tail(stdin), UNCHANGED editor,
           documents' \in [Docs -> (Texts \ Panics) \cup {NoText}], running' \in BOOLEAN,
           Handled(stdin[1], documents, documents'),
           \/ stdout' = stdout /\ \A d \in Docs : ~Sets(stdin[1], d)
           \/ Len(stdout) < Capacity /\ \E x \in Outputs : Written(x) /\ stdout' = Append(stdout, x)
    PROVE  LspInv'
<1>1. /\ TypeInv /\ stdin \in Seq(Messages) /\ stdout \in Seq(Outputs) /\ asked \in Questions
      /\ Ids(stdin, stdout, Len(asked), answered)
      /\ Views(stdin, documents, asked) /\ Answers(stdout, asked)
      /\ open => Current(stdin, documents, text) /\ Fresh(stdin, stdout, shown, text)
    BY InvParts
<1>2. UNCHANGED <<text, shown, asked, answered, open>>
    BY DEF editor
<1>3. GoodInput(stdin')
    BY <1>1, GoodMoves DEF TypeInv
<1>4. Views(stdin', documents', asked) /\ (open => Current(stdin', documents', text))
    BY <1>1, ViewsTail, CurrentTail
<1>5. /\ Ids(stdin', stdout, Len(asked), answered)
      /\ stdin[1].kind = "request" => stdin[1].id \in 1..Len(asked) /\ Unused(stdin', stdout, answered, stdin[1].id)
    BY <1>1, IdsTake
<1>6. CASE stdout' = stdout /\ \A d \in Docs : ~Sets(stdin[1], d)
    <2>1. open => Fresh(stdin', stdout', shown, text)
        BY <1>1, <1>6, FreshSkip
    <2>2. TypeInv'
        BY <1>1, <1>2, <1>3, <1>6 DEF TypeInv
    <2> QED
        BY <1>1, <1>2, <1>4, <1>5, <1>6, <2>1, <2>2 DEF LspInv
<1>7. ASSUME Len(stdout) < Capacity, NEW x \in Outputs, Written(x), stdout' = Append(stdout, x)
      PROVE  LspInv'
    <2>1. /\ Append(stdout, x) \in Seq(Outputs) /\ Len(Append(stdout, x)) = Len(stdout) + 1
          /\ Len(stdout) \in Nat
        BY <1>1, AppendFacts
    <2>2. Len(stdout') <= Capacity
        BY <1>7, <2>1, LspAssumption
    <2>3. TypeInv'
        BY <1>1, <1>2, <1>3, <1>7, <2>1, <2>2 DEF TypeInv
    <2>4. open => Fresh(stdin', stdout', shown, text)
        BY <1>1, <1>7, FreshServe DEF Written
    <2>5. Ids(stdin', stdout', Len(asked), answered)
        BY <1>1, <1>5, <1>7, IdsWrite DEF Written
    <2>6. Answers(stdout', asked)
        BY <1>1, <1>7, AnswersWrite DEF Written
    <2> QED
        BY <1>2, <1>4, <2>3, <2>4, <2>5, <2>6 DEF LspInv
<1> QED
    BY <1>6, <1>7

LEMMA TakeHead ==
    ASSUME LspInv, NEW kind, Take(kind)
    PROVE  /\ stdin # << >> /\ Head(stdin) = stdin[1] /\ stdin[1] \in Messages /\ stdin[1].kind = kind
           /\ 1 \in 1..Len(stdin) /\ Len(stdout) < Capacity
           /\ stdin' = Tail(stdin) /\ UNCHANGED editor
<1>1. stdin \in Seq(Messages) /\ stdin # << >>
    BY InvParts DEF Take
<1>2. Head(stdin) = stdin[1] /\ stdin[1] \in Messages /\ 1 \in 1..Len(stdin)
    BY <1>1, TailFacts
<1> QED
    BY <1>1, <1>2 DEF Take

\* A text is analysed: one just sent, or the stored one again.
LEMMA OnChangeStep ==
    ASSUME LspInv, NEW kind, Take(kind), UNCHANGED running,
           NEW d \in Docs, NEW t \in Texts, on_change(d, t), stdin[1].doc = d,
           \/ Sets(stdin[1], d) /\ SetTo(stdin[1]) = t
           \/ ~Sets(stdin[1], d) /\ t = documents[d]
    PROVE  LspInv'
<1> DEFINE x == [kind |-> "diagnostics", doc |-> d, of |-> t]
<1>1. /\ stdin # << >> /\ Len(stdout) < Capacity /\ stdin' = Tail(stdin) /\ UNCHANGED editor
    BY TakeHead
<1>2. documents \in [Docs -> (Texts \ Panics) \cup {NoText}] /\ running \in BOOLEAN
    BY DEF LspInv, TypeInv
<1>3. /\ documents' = IF t \in Panics THEN documents ELSE [documents EXCEPT ![d] = t]
      /\ stdout' = Append(stdout, x)
    BY DEF on_change, Publish
<1>4. documents' \in [Docs -> (Texts \ Panics) \cup {NoText}]
    BY <1>2, <1>3
<1>5. x \in Outputs /\ x.kind = "diagnostics" /\ x.of = t /\ \A e \in Docs : About(x, e) <=> e = d
    BY DEF Outputs, About
<1> HIDE DEF x
<1>6. \A e \in Docs : e # d => ~Sets(stdin[1], e) /\ documents'[e] = documents[e]
    BY <1>2, <1>3 DEF Sets
<1>7. Closed \notin Texts /\ NoText \notin Texts
    BY LspAssumption
<1>8. Right(t, t)
    BY <1>7 DEF Right
<1>9. CASE Sets(stdin[1], d) /\ SetTo(stdin[1]) = t
    <2>1. Stored(documents'[d], t)
        BY <1>2, <1>3 DEF Stored
    <2>2. Handled(stdin[1], documents, documents')
        BY <1>6, <1>9, <2>1 DEF Handled
    <2>3. Written(x)
        BY <1>5, <1>6, <1>8, <1>9 DEF Written
    <2> QED
        BY <1>1, <1>2, <1>3, <1>4, <1>5, <2>2, <2>3, ServeStep
<1>10. CASE ~Sets(stdin[1], d) /\ t = documents[d]
    <2>1. documents' = documents
        BY <1>2, <1>3, <1>10
    <2>2. \A e \in Docs : ~Sets(stdin[1], e)
        BY <1>6, <1>10
    <2>3. Handled(stdin[1], documents, documents')
        BY <2>1, <2>2 DEF Handled
    <2>4. Written(x)
        BY <1>5, <1>10, <2>2 DEF Written
    <2> QED
        BY <1>1, <1>2, <1>3, <1>4, <1>5, <2>3, <2>4, ServeStep
<1> QED
    BY <1>9, <1>10

\* A message the server makes nothing of.
LEMMA PassOver ==
    ASSUME LspInv, NEW kind, Take(kind), UNCHANGED <<stdout, documents>>, running' \in BOOLEAN,
           \A d \in Docs : ~Sets(stdin[1], d)
    PROVE  LspInv'
<1>1. stdin # << >> /\ stdin' = Tail(stdin) /\ UNCHANGED editor
    BY TakeHead
<1>2. documents' \in [Docs -> (Texts \ Panics) \cup {NoText}]
    BY DEF LspInv, TypeInv
<1>3. Handled(stdin[1], documents, documents')
    BY DEF Handled
<1> QED
    BY <1>1, <1>2, <1>3, ServeStep

LEMMA NotificationStep ==
    ASSUME LspInv, ServeNotification
    PROVE  LspInv'
<1>0. UNCHANGED running /\ running \in BOOLEAN /\ documents \in [Docs -> (Texts \ Panics) \cup {NoText}]
    BY DEF ServeNotification, LspInv, TypeInv
<1>1. CASE Take("didOpen") /\ handle_did_open(Head(stdin))
    <2>1. /\ Head(stdin) = stdin[1] /\ stdin[1] \in Messages /\ stdin[1].kind = "didOpen" /\ 1 \in 1..Len(stdin)
        BY <1>1, TakeHead
    <2>2. stdin[1].doc \in Docs /\ stdin[1].texts \in Seq(Texts)
        BY <2>1, MessageFacts
    <2>3. Len(stdin[1].texts) = 1
        BY <2>1 DEF LspInv, TypeInv, GoodInput
    <2>4. stdin[1].texts # << >>
        <3>1. Len(<< >>) = 0
            OBVIOUS
        <3>2. stdin[1].texts = << >> => Len(stdin[1].texts) = 0
            BY <3>1
        <3> QED
            BY <2>3, <3>2
    <2>5. Last(stdin[1].texts) = stdin[1].texts[1] /\ stdin[1].texts[1] \in Texts
        BY <2>2, <2>3, <2>4, LastFacts
    <2>6. PICK d \in Docs, t \in Texts : d = stdin[1].doc /\ t = stdin[1].texts[1]
        BY <2>2, <2>5
    <2>7. Sets(stdin[1], d) /\ SetTo(stdin[1]) = t
        BY <2>1, <2>4, <2>5, <2>6 DEF Sets, SetTo
    <2>8. on_change(d, t)
        BY <1>1, <2>1, <2>6 DEF handle_did_open
    <2> QED
        BY <1>0, <1>1, <2>6, <2>7, <2>8, OnChangeStep
<1>2. CASE Take("didChange") /\ handle_did_change(Head(stdin))
    <2>1. /\ Head(stdin) = stdin[1] /\ stdin[1] \in Messages /\ stdin[1].kind = "didChange"
        BY <1>2, TakeHead
    <2>2. stdin[1].doc \in Docs /\ stdin[1].texts \in Seq(Texts)
        BY <2>1, MessageFacts
    <2>3. PICK d \in Docs : d = stdin[1].doc
        BY <2>2
    <2>4. CASE stdin[1].texts # << >>
        <3>1. Last(stdin[1].texts) \in Texts
            BY <2>2, <2>4, LastFacts
        <3>2. PICK t \in Texts : t = Last(stdin[1].texts)
            BY <3>1
        <3>3. Sets(stdin[1], d) /\ SetTo(stdin[1]) = t
            BY <2>1, <2>3, <2>4, <3>2 DEF Sets, SetTo
        <3>4. on_change(d, t)
            BY <1>2, <2>1, <2>3, <2>4, <3>2 DEF handle_did_change
        <3> QED
            BY <1>0, <1>2, <2>3, <3>3, <3>4, OnChangeStep
    <2>5. CASE stdin[1].texts = << >>
        <3>1. \A e \in Docs : ~Sets(stdin[1], e)
            BY <2>1, <2>5 DEF Sets
        <3>2. CASE documents[d] # NoText
            <4>1. PICK t \in Texts : t = documents[d]
                BY <1>0, <3>2
            <4>2. on_change(d, t)
                BY <1>2, <2>1, <2>3, <2>5, <3>2, <4>1 DEF handle_did_change
            <4> QED
                BY <1>0, <1>2, <2>3, <3>1, <4>1, <4>2, OnChangeStep
        <3>3. CASE documents[d] = NoText
            <4>1. UNCHANGED <<stdout, documents>>
                BY <1>2, <2>1, <2>3, <2>5, <3>3 DEF handle_did_change
            <4> QED
                BY <1>0, <1>2, <3>1, <4>1, PassOver
        <3> QED
            BY <3>2, <3>3
    <2> QED
        BY <2>4, <2>5
<1>3. CASE Take("didClose") /\ handle_did_close(Head(stdin))
    <2>1. /\ Head(stdin) = stdin[1] /\ stdin[1] \in Messages /\ stdin[1].kind = "didClose"
          /\ stdin # << >> /\ Len(stdout) < Capacity /\ stdin' = Tail(stdin) /\ UNCHANGED editor
        BY <1>3, TakeHead
    <2>2. PICK d \in Docs : d = stdin[1].doc
        BY <2>1, MessageFacts
    <2> DEFINE x == [kind |-> "diagnostics", doc |-> d, of |-> NoText]
    <2>3. documents' = [documents EXCEPT ![d] = NoText] /\ stdout' = Append(stdout, x)
        BY <1>3, <2>1, <2>2 DEF handle_did_close, Publish
    <2>4. x \in Outputs /\ x.kind = "diagnostics" /\ x.of = NoText /\ \A e \in Docs : About(x, e) <=> e = d
        BY DEF Outputs, About
    <2> HIDE DEF x
    <2>5. documents' \in [Docs -> (Texts \ Panics) \cup {NoText}] /\ documents'[d] = NoText
        BY <1>0, <2>3
    <2>6. SetTo(stdin[1]) = Closed /\ \A e \in Docs : Sets(stdin[1], e) <=> e = d
        BY <2>1, <2>2 DEF Sets, SetTo
    <2>7. Handled(stdin[1], documents, documents')
        BY <1>0, <2>3, <2>5, <2>6 DEF Handled, Stored
    <2>8. Written(x)
        BY <2>4, <2>6 DEF Written, Right
    <2> QED
        BY <1>0, <2>1, <2>3, <2>4, <2>5, <2>7, <2>8, ServeStep
<1> QED
    BY <1>1, <1>2, <1>3 DEF ServeNotification

\* The result of a request: none, or one computed from the stored source.
LEMMA RequestCases ==
    ASSUME LspInv, ServeRequest
    PROVE  \E result \in Results :
              /\ Respond(stdin[1], result)
              /\ result # Null =>
                    /\ documents[stdin[1].doc] # NoText /\ result.source = documents[stdin[1].doc]
                    /\ result.edit => HasProgram(result.source)
<1>1. /\ Head(stdin) = stdin[1] /\ stdin[1] \in Messages /\ stdin[1].kind = "request"
    BY TakeHead DEF ServeRequest
<1>2. PICK d \in Docs : d = stdin[1].doc
    BY <1>1, MessageFacts
<1>3. documents[d] \in Texts \cup {NoText}
    BY DEF LspInv, TypeInv
<1>4. CASE Respond(stdin[1], Null)
    BY <1>4 DEF Results
<1>5. CASE documents[d] # NoText /\ Respond(stdin[1], [source |-> documents[d], edit |-> FALSE])
    <2>1. [source |-> documents[d], edit |-> FALSE] \in Results
        BY <1>3, <1>5 DEF Results
    <2> QED
        BY <1>2, <1>5, <2>1
<1>6. ASSUME NEW whole \in BOOLEAN, documents[d] # NoText, HasProgram(documents[d]),
             Respond(stdin[1], [source |-> documents[d], edit |-> TRUE, whole |-> whole])
      PROVE  \E result \in Results :
                /\ Respond(stdin[1], result)
                /\ result # Null =>
                      /\ documents[stdin[1].doc] # NoText /\ result.source = documents[stdin[1].doc]
                      /\ result.edit => HasProgram(result.source)
    <2>1. [source |-> documents[d], edit |-> TRUE, whole |-> whole] \in Results
        BY <1>3, <1>6 DEF Results
    <2> QED
        BY <1>2, <1>6, <2>1
<1> QED
    BY <1>1, <1>2, <1>4, <1>5, <1>6
    DEF ServeRequest, Query, handle_formatting, handle_range_formatting, Formatted, Plain, Unknown

LEMMA RequestServed ==
    ASSUME LspInv, ServeRequest
    PROVE  LspInv'
<1>1. /\ stdin[1] \in Messages /\ stdin[1].kind = "request" /\ 1 \in 1..Len(stdin)
      /\ stdin # << >> /\ Len(stdout) < Capacity /\ stdin' = Tail(stdin) /\ UNCHANGED editor
    BY TakeHead DEF ServeRequest
<1>2. UNCHANGED <<documents, running>> /\ running \in BOOLEAN
      /\ documents \in [Docs -> (Texts \ Panics) \cup {NoText}]
    BY DEF ServeRequest, LspInv, TypeInv
<1>3. PICK d \in Docs : d = stdin[1].doc
    BY <1>1, MessageFacts
<1>4. PICK result \in Results :
          /\ Respond(stdin[1], result)
          /\ result # Null =>
                /\ documents[d] # NoText /\ result.source = documents[d]
                /\ result.edit => HasProgram(result.source)
    BY <1>3, RequestCases
<1>5. PICK id \in Nat : id = stdin[1].id
    BY <1>1, MessageFacts
<1>6. Stored(documents[d], asked[id].text)
    <2>1. Holds(stdin, documents[d], 1, d, asked[id].text)
        BY <1>1, <1>3, <1>5, InvParts DEF Views
    <2>2. \A k \in 1..Len(stdin) : ~(k < 1)
        OBVIOUS
    <2> QED
        BY <2>1, <2>2 DEF Holds
<1>7. result # Null => Faithful(result, asked[id].text)
    BY <1>2, <1>4, <1>6, LspAssumption DEF Faithful, Stored
<1> DEFINE x == [kind |-> "response", id |-> id, result |-> result]
<1>8. x \in Outputs /\ x.kind = "response" /\ x.id = id /\ x.result = result /\ \A e \in Docs : ~About(x, e)
    BY DEF Outputs, About
<1>9. stdout' = Append(stdout, x)
    BY <1>4, <1>5 DEF Respond
<1> HIDE DEF x
<1>10. \A e \in Docs : ~Sets(stdin[1], e)
    BY <1>1 DEF Sets
<1>11. Handled(stdin[1], documents, documents')
    BY <1>2, <1>10 DEF Handled
<1>12. Written(x)
    BY <1>1, <1>5, <1>7, <1>8, <1>10 DEF Written
<1> QED
    BY <1>1, <1>2, <1>8, <1>9, <1>11, <1>12, ServeStep

LEMMA SkipStep ==
    ASSUME LspInv, Skip
    PROVE  LspInv'
<1>1. stdin[1].kind = "ignored"
    BY TakeHead DEF Skip
<1>2. \A d \in Docs : ~Sets(stdin[1], d)
    BY <1>1 DEF Sets
<1> QED
    BY <1>2, PassOver DEF Skip, server, LspInv, TypeInv

LEMMA StopStep ==
    ASSUME LspInv, Stop
    PROVE  LspInv'
<1>1. CASE Take("fatal")
    <2>1. stdin[1].kind = "fatal"
        BY <1>1, TakeHead
    <2>2. \A d \in Docs : ~Sets(stdin[1], d)
        BY <2>1 DEF Sets
    <2> QED
        BY <1>1, <2>2, PassOver DEF Stop
<1>2. CASE UNCHANGED <<editor, stdin>>
    BY <1>2 DEF Stop, LspInv, TypeInv, editor
<1> QED
    BY <1>1, <1>2 DEF Stop

-----------------------------------------------------------------------------
LEMMA Initially == Init => LspInv
<1> SUFFICES ASSUME Init PROVE LspInv
    OBVIOUS
<1>1. stdin = << >> /\ stdout = << >> /\ asked = << >> /\ answered = {}
    BY DEF Init
<1>2. \A d \in Docs : text[d] = Closed /\ shown[d] = NoText /\ documents[d] = NoText
    BY DEF Init
<1>3. Len(<< >>) = 0 /\ 1..0 = {}
    OBVIOUS
<1>4. TypeInv
    <2>1. << >> \in Seq(Messages) /\ << >> \in Seq(Outputs) /\ << >> \in Questions
        BY DEF Questions
    <2> QED
        BY <1>1, <1>3, <2>1, LspAssumption DEF Init, TypeInv, GoodInput
<1>5. Ids(stdin, stdout, Len(asked), answered) /\ Views(stdin, documents, asked) /\ Answers(stdout, asked)
    BY <1>1, <1>3 DEF Ids, Requests, Responses, RequestsDiffer, ResponsesDiffer, Unanswered, Views, Answers
<1>6. Current(stdin, documents, text)
    BY <1>1, <1>2, <1>3 DEF Current, Holds, Stored
<1>7. Fresh(stdin, stdout, shown, text)
    BY <1>1, <1>2, <1>3 DEF Fresh, Ends, Right
<1> QED
    BY <1>4, <1>5, <1>6, <1>7 DEF LspInv

LEMMA NextStep == LspInv /\ [Next]_vars => LspInv'
<1> SUFFICES ASSUME LspInv, [Next]_vars PROVE LspInv'
    OBVIOUS
<1>1. CASE CloseStdin
    BY <1>1 DEF CloseStdin, LspInv, TypeInv, server
<1>2. CASE UNCHANGED vars
    BY <1>2 DEF vars, editor, server, LspInv, TypeInv
<1>3. CASE Serve
    BY <1>3, NotificationStep, RequestServed, SkipStep, StopStep DEF Serve
<1> QED
    BY <1>1, <1>2, <1>3, EditStep, RequestStep, OtherStep, ReceiveStep DEF Next

LEMMA Always == Spec => []LspInv
BY Initially, NextStep, PTL DEF Spec

LEMMA InvTypeOK == LspInv => TypeOK
<1> SUFFICES ASSUME LspInv PROVE TypeOK
    OBVIOUS
<1>1. DOMAIN asked = 1..Len(asked) /\ DOMAIN stdout = 1..Len(stdout)
    BY InvParts, LenProperties DEF Questions
<1>2. \A i \in 1..Len(stdout) : stdout[i].kind = "response" => stdout[i].id \in 1..Len(asked) \ answered
    BY InvParts DEF Ids, Responses, Unanswered
<1> QED
    BY <1>1, <1>2 DEF LspInv, TypeInv, TypeOK

\* Types: nothing is stored of a text whose analysis panicked (on_change), the
\* server never writes into a full pipe, and a response belongs to a request
\* that has had none.
THEOREM TypeCorrect == Spec => []TypeOK
BY Always, InvTypeOK, PTL

LEMMA InvAnswers == LspInv => AnswersCurrent
<1> SUFFICES ASSUME LspInv PROVE AnswersCurrent
    OBVIOUS
<1>1. DOMAIN stdout = 1..Len(stdout)
    BY InvParts, LenProperties
<1> QED
    BY <1>1, InvParts DEF Answers, Faithful, AnswersCurrent

\* A request is answered from the text the document had in the editor when it
\* was made, for any number of documents, changes under way and answers unread:
\* the server handles messages in order and keeps the last text of each.
THEOREM AnswersAreCurrent == Spec => []AnswersCurrent
BY Always, InvAnswers, PTL

LEMMA InvFresh == LspInv => DiagnosticsFresh
<1> SUFFICES ASSUME LspInv, running, open, stdin = << >>, stdout = << >>, NEW d \in Docs
             PROVE  IF text[d] = Closed THEN shown[d] = NoText ELSE shown[d] = text[d] \/ text[d] \in Panics
    BY DEF DiagnosticsFresh
<1>1. Len(<< >>) = 0 /\ 1..0 = {}
    OBVIOUS
<1>2. Fresh(stdin, stdout, shown, text)
    BY InvParts
<1>3. Ends(stdout, shown[d], d, text[d])
    BY <1>1, <1>2 DEF Fresh
<1>4. Right(shown[d], text[d])
    BY <1>1, <1>3 DEF Ends
<1> QED
    BY <1>4 DEF Right

\* When everything is handled and read, the diagnostics on show are those of
\* the text (on_change, handle_did_close), whatever edits of its own the editor
\* has made out of answers in between.
THEOREM DiagnosticsAreFresh == Spec => []DiagnosticsFresh
BY Always, InvFresh, PTL

LEMMA FormatStep ==
    ASSUME LspInv, [Next]_vars, NEW d \in Docs,
           answered' # answered, text'[d] # text[d], text[d] \notin Panics, text[d].error # "parse",
           Head(stdout).result.whole \/ (text[d].tidy /\ text[d].good \subseteq Whole)
    PROVE  /\ text[d].good \cap Whole \subseteq text'[d].good
           /\ text[d].good \subseteq Whole =>
                 text'[d].good = text[d].good /\ text'[d].error = text[d].error
<1>1. Receive
    BY DEF Next, vars, editor, Edit, Open, Change, Close, Notify, Send, Request, Other, CloseStdin,
           Serve, ServeNotification, ServeRequest, Skip, Stop, Take
<1>2. PICK e \in Docs : Edited(e)
    BY <1>1, ReceiveCases
<1>3. text \in [Docs -> Texts \cup {Closed}]
    BY DEF LspInv, TypeInv
<1>4. PICK t : /\ t \in IF Fits(stdout[1].result, text[e])
                        THEN {[format_program(text[e]) EXCEPT !.tidy = stdout[1].result.whole]} ELSE Typed
               /\ text' = [text EXCEPT ![e] = t]
    BY <1>2 DEF Edited, Apply
<1>5. e = d /\ text'[d] = t
    BY <1>3, <1>4
<1>6. Faithful(stdout[1].result, text[d]) /\ text[d] \in Texts /\ Head(stdout) = stdout[1]
    BY <1>1, <1>2, <1>5, EditFacts, ReadFacts
<1>7. stdout[1].result.source = text[d] /\ HasProgram(text[d])
    BY <1>2, <1>6 DEF Faithful, Edited
<1>8. text[d].error = "none"
    BY <1>7 DEF HasProgram
<1>9. Fits(stdout[1].result, text[d])
    <2>1. text[d].tidy /\ text[d].good \subseteq Whole => format_program(text[d]) = text[d]
        BY <1>6, <1>8, LayoutFacts
    <2> QED
        BY <1>6, <1>7, <2>1 DEF Fits
<1>10. t = [format_program(text[d]) EXCEPT !.tidy = stdout[1].result.whole]
    BY <1>4, <1>5, <1>9
<1>11. stdout[1].result.whole \in BOOLEAN
    BY <1>1, <1>2, <1>5, EditFacts
<1>12. t.good = format_program(text[d]).good /\ t.error = format_program(text[d]).error
    BY <1>6, <1>10, <1>11, LayoutFacts
<1>13. /\ text[d].good \cap Whole \subseteq t.good
       /\ text[d].good \subseteq Whole => t.good = text[d].good /\ t.error = "none"
    BY <1>6, <1>12, LayoutFacts
<1> QED
    BY <1>5, <1>8, <1>13

\* Formatting leaves every statement in place that the formatter writes in full
\* (FormattingKeeps): an edit is computed from a source with a program
\* (handle_formatting, handle_range_formatting), and that source is the text it is
\* applied to.  Nothing is assumed of what the formatter makes of other statements.
THEOREM FormattingIsSafe == Spec => FormattingKeeps
<1>1. LspInv /\ [Next]_vars
      => [\A d \in Docs :
             /\ answered' # answered /\ text'[d] # text[d]
             /\ text[d] \notin Panics /\ text[d].error # "parse"
             /\ Head(stdout).result.whole \/ (text[d].tidy /\ text[d].good \subseteq Whole)
             => /\ text[d].good \cap Whole \subseteq text'[d].good
                /\ text[d].good \subseteq Whole =>
                      text'[d].good = text[d].good /\ text'[d].error = text[d].error]_vars
    BY FormatStep
<1> QED
    BY <1>1, Always, PTL DEF Spec, FormattingKeeps
=============================================================================
