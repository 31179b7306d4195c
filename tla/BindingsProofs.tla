--------------------------- MODULE BindingsProofs ---------------------------
(***************************************************************************)
(* What a program can name is allocated, and no two variables share a      *)
(* block, for every program that defines no `static` in a nested block.    *)
(*                                                                         *)
(* A variable lives in two places, its symbol table and the heap scope     *)
(* that owns its block, and the two are popped by different rules: an      *)
(* unsafe block pops a table only, a call puts back a whole stack, and an  *)
(* error in a head leaves both behind.  The invariant says, for every      *)
(* construct in progress, how far up the owner of a variable may be for    *)
(* the variable to survive the pops from the innermost construct to it.    *)
(***************************************************************************)
EXTENDS ScopesProofs

\* Frames of the kinds ks before position p.
Before(c, ks, p) == Cardinality({i \in 1..(p - 1) : c[i].k \in ks})

\* From position j to p the constructs belong to one activation.
NoCall(c, j, p) == \A i \in j..(p - 1) : c[i].k # "call"

Plus(x) == IF x > 0 THEN x ELSE 0

\* The heap scopes that belong to no construct: the outermost one, and what
\* errors in heads have left behind.
Extra(c, sa) == Len(sa) - Cnt(c, HeapKinds)

\* A variable e levels from the top of the stack of tables (0 for the top,
\* -1 below it) on which construct p works is owned by heap scope o.  If all
\* constructs from j on are left, that takes as many tables as they have
\* pushed; a variable that is then still there has its owner left too, and
\* one that is d levels further up has it at most d scopes further up.
Deep(c, x, o, e, p) ==
    \A j \in 1..p :
        NoCall(c, j, p) =>
            o <= x + Before(c, HeapKinds, j)
                   + Plus(e + Before(c, TableKinds, p) - Before(c, TableKinds, j))

\* The variables of the tables t, on which construct p works.
Kept(t, c, sa, p) ==
    \A i \in DOMAIN t : \A n \in DOMAIN t[i] :
        \E o \in DOMAIN sa :
            t[i][n].addr \in sa[o] /\ Deep(c, Extra(c, sa), o, i - Len(t), p)

\* Two frames count the same.
Alike(f, g) ==
    /\ f.k \in HeapKinds <=> g.k \in HeapKinds
    /\ f.k \in TableKinds <=> g.k \in TableKinds
    /\ f.k = "call" <=> g.k = "call"
AlikeTo(c, d, r) == \A i \in 1..(r - 1) : Alike(c[i], d[i])

\* idx says which constructs the calls in progress are, outermost first.
Places(idx, c, sv) ==
    /\ \A i, j \in DOMAIN sv : i < j => idx[i] < idx[j]
    /\ \A p \in DOMAIN c : c[p].k = "call" <=> \E i \in DOMAIN sv : idx[i] = p

\* The tables in use, and those that the calls in progress have set aside.
Safe(c, t, sa, sv) ==
    /\ Kept(t, c, sa, Len(c) + 1)
    /\ \E idx \in [DOMAIN sv -> DOMAIN c] :
          Places(idx, c, sv) /\ \A k \in DOMAIN sv : Kept(sv[k], c, sa, idx[k])

\* Variables of the stacks s and t have different blocks, unless they are one
\* variable or copies of one in the outermost table.
Differ(s, t, same) ==
    \A i \in DOMAIN s, j \in DOMAIN t : \A n \in DOMAIN s[i], m \in DOMAIN t[j] :
        s[i][n].addr = t[j][m].addr => n = m /\ i = j /\ (same \/ i = 1)
Apart(sv, t) ==
    /\ Differ(t, t, TRUE)
    /\ \A k \in DOMAIN sv : Differ(sv[k], t, FALSE)
    /\ \A k, l \in DOMAIN sv : Differ(sv[k], sv[l], k = l)

Good(c, t, sa, sv) == Safe(c, t, sa, sv) /\ Apart(sv, t)

\* The variables of u are those of the lowest b tables of t, and z in its q-th
\* table, bound to block a.
Carries(t, u, b, q, z, a) ==
    \A i \in DOMAIN u : \A n \in DOMAIN u[i] :
        \/ i \in DOMAIN t /\ i <= b /\ n \in DOMAIN t[i] /\ u[i][n].addr = t[i][n].addr
        \/ i = q /\ n = z /\ u[i][n].addr = a

\* A step of one activation leaves the constructs from r on and begins at most
\* one.
Turns(c, d, r) ==
    /\ r \in 1..(Len(c) + 1) /\ Len(d) \in {r - 1, r}
    /\ AlikeTo(c, d, r)
    /\ NoCall(c, r, Len(c) + 1) /\ NoCall(d, r, Len(d) + 1)

\* Frames of the kinds ks from r on.
Since(c, ks, r) == Before(c, ks, Len(c) + 1) - Before(c, ks, r)

\* It takes l tables to m and H heap scopes to G: no scope is popped that it
\* has not left the construct of, and if a table stays behind so does a scope.
Balanced(c, d, r, l, m, H, G) ==
    /\ H - Since(c, HeapKinds, r) <= G - Since(d, HeapKinds, r)
    /\ (m - Since(d, TableKinds, r)) - (l - Since(c, TableKinds, r))
          <= (G - Since(d, HeapKinds, r)) - (H - Since(c, HeapKinds, r))

\* The heap scopes that are in both stacks lose nothing.
Retains(sa, sb) == sb # << >> /\ \A o \in DOMAIN sa \cap DOMAIN sb : sa[o] \subseteq sb[o]

\* Block a is new; if u has a variable there, the scope on top owns it.
NewBlock(sa, sb, u, a) ==
    /\ \A o \in DOMAIN sa : a \notin sa[o]
    /\ (\E i \in DOMAIN u : \E n \in DOMAIN u[i] : u[i][n].addr = a) => a \in sb[Len(sb)]

-----------------------------------------------------------------------------
(* Counting frames.                                                        *)

LEMMA BeforeNat ==
    ASSUME NEW c, NEW ks, NEW p \in Nat
    PROVE  /\ IsFiniteSet({i \in 1..(p - 1) : c[i].k \in ks})
           /\ Before(c, ks, p) \in Nat
<1>1. IsFiniteSet(1..(p - 1))
    BY FS_Interval
<1>2. IsFiniteSet({i \in 1..(p - 1) : c[i].k \in ks})
    BY <1>1, FS_Subset
<1> QED
    BY <1>2, FS_CardinalityType DEF Before

\* The count only looks at the kinds of the frames before p.
LEMMA BeforeSame ==
    ASSUME NEW c, NEW d, NEW ks, NEW p \in Nat,
           \A i \in 1..(p - 1) : c[i].k \in ks <=> d[i].k \in ks
    PROVE  Before(c, ks, p) = Before(d, ks, p)
<1>1. {i \in 1..(p - 1) : c[i].k \in ks} = {i \in 1..(p - 1) : d[i].k \in ks}
    OBVIOUS
<1> QED
    BY <1>1 DEF Before

LEMMA BeforeNext ==
    ASSUME NEW c, NEW ks, NEW p \in Nat, p >= 1
    PROVE  Before(c, ks, p + 1) = Before(c, ks, p) + One(c[p].k \in ks)
<1> DEFINE S == {i \in 1..(p - 1) : c[i].k \in ks}
           T == {i \in 1..((p + 1) - 1) : c[i].k \in ks}
<1>1. IsFiniteSet(S) /\ Cardinality(S) \in Nat
    BY BeforeNat DEF Before
<1>2. p \notin S
    OBVIOUS
<1>3. CASE c[p].k \in ks
    <2>1. T = S \cup {p}
        BY <1>3
    <2> QED
        BY <2>1, <1>1, <1>2, <1>3, FS_AddElement DEF Before, One
<1>4. CASE c[p].k \notin ks
    <2>1. T = S
        BY <1>4
    <2>2. Before(c, ks, p + 1) = Before(c, ks, p)
        BY <2>1 DEF Before
    <2> QED
        BY <2>2, <1>1, <1>4 DEF Before, One
<1> QED
    BY <1>3, <1>4

LEMMA BeforeAll ==
    ASSUME NEW c \in Seq(FrameType), NEW ks
    PROVE  Before(c, ks, Len(c) + 1) = Cnt(c, ks)
<1>1. DOMAIN c = 1..((Len(c) + 1) - 1)
    OBVIOUS
<1> QED
    BY <1>1 DEF Before, Cnt

LEMMA BeforeGrows ==
    ASSUME NEW c, NEW ks, NEW j \in Nat, NEW p \in Nat, j <= p
    PROVE  Before(c, ks, j) <= Before(c, ks, p)
<1> DEFINE S == {i \in 1..(j - 1) : c[i].k \in ks}
           T == {i \in 1..(p - 1) : c[i].k \in ks}
<1>1. S \in SUBSET T
    OBVIOUS
<1>2. IsFiniteSet(T)
    BY BeforeNat
<1> HIDE DEF S, T
<1>3. Cardinality(S) <= Cardinality(T)
    BY <1>1, <1>2, FS_Subset
<1> QED
    BY <1>3 DEF Before, S, T

\* Within an activation a construct that has pushed a heap scope has pushed a
\* table as well.
LEMMA TablesOutnumber ==
    ASSUME NEW c, NEW j \in Nat, NEW p \in Nat, 1 <= j, j <= p, NoCall(c, j, p)
    PROVE  Before(c, HeapKinds, p) - Before(c, HeapKinds, j)
              <= Before(c, TableKinds, p) - Before(c, TableKinds, j)
<1> DEFINE P(ks) == {i \in 1..(p - 1) : c[i].k \in ks}
           J(ks) == {i \in 1..(j - 1) : c[i].k \in ks}
           D(ks) == {i \in j..(p - 1) : c[i].k \in ks}
<1>1. ASSUME NEW ks
      PROVE  /\ IsFiniteSet(D(ks)) /\ Cardinality(D(ks)) \in Nat
             /\ Before(c, ks, p) = Before(c, ks, j) + Cardinality(D(ks))
    <2>1. P(ks) = J(ks) \cup D(ks) /\ J(ks) \cap D(ks) = {}
        OBVIOUS
    <2>2. IsFiniteSet(P(ks)) /\ IsFiniteSet(J(ks)) /\ Cardinality(J(ks)) \in Nat
        BY BeforeNat DEF Before
    <2>3. IsFiniteSet(D(ks))
        BY <2>1, <2>2, FS_Subset
    <2>4. Cardinality(P(ks)) = Cardinality(J(ks)) + Cardinality(D(ks)) - Cardinality(J(ks) \cap D(ks))
        BY <2>1, <2>2, <2>3, FS_Union
    <2>5. Cardinality(J(ks) \cap D(ks)) = 0
        BY <2>1, FS_EmptySet
    <2>6. Cardinality(D(ks)) \in Nat
        BY <2>3, FS_CardinalityType
    <2> QED
        BY <2>2, <2>3, <2>4, <2>5, <2>6 DEF Before
<1>2. D(HeapKinds) \subseteq D(TableKinds)
    BY DEF NoCall, HeapKinds, TableKinds, Bodies
<1>3. Cardinality(D(HeapKinds)) <= Cardinality(D(TableKinds))
    BY <1>1, <1>2, FS_Subset
<1>4. Before(c, HeapKinds, j) \in Nat /\ Before(c, TableKinds, j) \in Nat
    BY BeforeNat
<1> HIDE DEF D
<1> QED
    BY <1>1, <1>3, <1>4

-----------------------------------------------------------------------------
(* Variables that were there before a step.                                *)

LEMMA BeforeAlike ==
    ASSUME NEW c, NEW d, NEW r \in Nat, AlikeTo(c, d, r), NEW j \in 1..r
    PROVE  /\ Before(c, HeapKinds, j) = Before(d, HeapKinds, j)
           /\ Before(c, TableKinds, j) = Before(d, TableKinds, j)
           /\ Before(c, {"call"}, j) = Before(d, {"call"}, j)
<1>1. \A i \in 1..(j - 1) : Alike(c[i], d[i])
    BY DEF AlikeTo
<1> QED
    BY <1>1, BeforeSame DEF Alike

LEMMA Slack ==
    ASSUME NEW o \in Int, NEW x \in Int, NEW y \in Int, NEW h \in Int, NEW g \in Int,
           x <= y, o <= x + h + g
    PROVE  o <= y + h + g
OBVIOUS

\* A stack of tables that the step does not touch, seen from construct p.
LEMMA KeptOn ==
    ASSUME NEW c \in Seq(FrameType), NEW d \in Seq(FrameType),
           NEW p \in Nat, p >= 1, p <= Len(d) + 1, AlikeTo(c, d, p),
           NEW sa \in Seq(SUBSET Nat), NEW sb \in Seq(SUBSET Nat),
           NEW t \in Seq(ScopeType), Kept(t, c, sa, p),
           Extra(c, sa) <= Extra(d, sb),
           \A i \in DOMAIN t : \A n \in DOMAIN t[i] : \A o \in DOMAIN sa \cap DOMAIN sb :
              t[i][n].addr \in sa[o] => t[i][n].addr \in sb[o]
    PROVE  Kept(t, d, sb, p)
<1> SUFFICES ASSUME NEW i \in DOMAIN t, NEW n \in DOMAIN t[i]
             PROVE  \E o \in DOMAIN sb :
                       t[i][n].addr \in sb[o] /\ Deep(d, Extra(d, sb), o, i - Len(t), p)
    BY DEF Kept
<1> DEFINE x == Extra(c, sa)
           y == Extra(d, sb)
           e == i - Len(t)
<1>1. PICK o \in DOMAIN sa : t[i][n].addr \in sa[o] /\ Deep(c, x, o, e, p)
    BY DEF Kept
<1>2. /\ x \in Int /\ y \in Int /\ x <= y /\ o \in Nat /\ o >= 1 /\ e \in Int /\ e <= 0
      /\ y = Len(sb) - Cnt(d, HeapKinds) /\ Cnt(d, HeapKinds) \in Nat /\ Len(sb) \in Nat
      /\ DOMAIN sb = 1..Len(sb)
    <2>1. Cnt(c, HeapKinds) \in Nat /\ Cnt(d, HeapKinds) \in Nat
        BY CntFinite
    <2>2. Len(sa) \in Nat /\ Len(sb) \in Nat /\ Len(t) \in Nat
        OBVIOUS
    <2>3. DOMAIN sa = 1..Len(sa) /\ DOMAIN sb = 1..Len(sb) /\ DOMAIN t = 1..Len(t)
        OBVIOUS
    <2>4. e \in Int /\ e <= 0 /\ o \in Nat /\ o >= 1
        BY <2>2, <2>3
    <2>5. x \in Int /\ y \in Int /\ x <= y /\ y = Len(sb) - Cnt(d, HeapKinds)
        BY <2>1, <2>2 DEF Extra
    <2> QED
        BY <2>1, <2>2, <2>3, <2>4, <2>5
<1> HIDE DEF x, y, e
<1>3. Deep(d, y, o, e, p)
    <2> SUFFICES ASSUME NEW j \in 1..p, NoCall(d, j, p)
                 PROVE  o <= y + Before(d, HeapKinds, j)
                               + Plus(e + Before(d, TableKinds, p) - Before(d, TableKinds, j))
        BY DEF Deep
    <2>1. NoCall(c, j, p)
        BY SMTT(30) DEF NoCall, AlikeTo, Alike
    <2>2. o <= x + Before(c, HeapKinds, j)
                 + Plus(e + Before(c, TableKinds, p) - Before(c, TableKinds, j))
        BY <1>1, <2>1 DEF Deep
    <2>3. p \in 1..p
        OBVIOUS
    <2>4. /\ Before(c, HeapKinds, j) = Before(d, HeapKinds, j)
          /\ Before(c, TableKinds, j) = Before(d, TableKinds, j)
          /\ Before(c, TableKinds, p) = Before(d, TableKinds, p)
        BY <2>3, BeforeAlike
    <2>5. /\ Before(d, HeapKinds, j) \in Nat /\ Before(d, TableKinds, j) \in Nat
          /\ Before(d, TableKinds, p) \in Nat
        <3>1. j \in Nat
            OBVIOUS
        <3> QED
            BY <3>1, BeforeNat
    <2> DEFINE h == Before(d, HeapKinds, j)
               g == Plus(e + Before(d, TableKinds, p) - Before(d, TableKinds, j))
    <2>6. g \in Int
        BY <1>2, <2>5, SMTT(30) DEF Plus
    <2>7. o <= x + h + g
        BY <2>2, <2>4
    <2> HIDE DEF g, h
    <2>8. h \in Nat
        BY <2>5 DEF h
    <2>9. o <= y + h + g
        <3>1. o \in Int /\ x \in Int /\ y \in Int /\ x <= y
            BY <1>2
        <3>2. h \in Int /\ g \in Int
            BY <2>6, <2>8
        <3> QED
            BY <2>7, <3>1, <3>2, Slack
    <2> QED
        BY <2>9 DEF g, h
<1>4. o \in DOMAIN sb
    <2>1. p \in 1..p /\ NoCall(d, p, p)
        BY DEF NoCall
    <2>2. Before(d, TableKinds, p) \in Nat /\ Before(d, HeapKinds, p) \in Nat
        BY BeforeNat
    <2>3. o <= y + Before(d, HeapKinds, p) + Plus(e + Before(d, TableKinds, p) - Before(d, TableKinds, p))
        BY <1>3, <2>1 DEF Deep
    <2>4. Before(d, HeapKinds, p) <= Cnt(d, HeapKinds)
        BY BeforeGrows, BeforeAll
    <2> QED
        BY <1>2, <2>2, <2>3, <2>4, SMTT(30) DEF Plus
<1> QED
    BY <1>1, <1>3, <1>4 DEF y, e

LEMMA Shifted ==
    ASSUME NEW o \in Int, NEW x \in Int, NEW y \in Int, NEW h \in Int, NEW a \in Int, NEW b \in Int,
           NEW k \in Int, x <= y, a - b <= y - x, o <= x + h + Plus(a + k)
    PROVE  o <= y + h + Plus(b + k)
BY DEF Plus

LEMMA Cancels ==
    ASSUME NEW i \in Int, NEW m \in Int, NEW f \in Int, NEW s \in Int, NEW t \in Int
    PROVE  i - m + (s + f) - t = (i - m + f) + (s - t)
OBVIOUS

\* A variable of the tables in use, when l tables become m, and x scopes that
\* belong to no construct become y.
LEMMA Moved ==
    ASSUME NEW c \in Seq(FrameType), NEW d \in Seq(FrameType), NEW r, Turns(c, d, r),
           NEW x \in Int, NEW y \in Int, x <= y, NEW l \in Nat, NEW m \in Nat,
           (m - Since(d, TableKinds, r)) - (l - Since(c, TableKinds, r)) <= y - x,
           NEW o \in Nat, NEW i \in Nat, i <= l, i <= m - Since(d, TableKinds, r),
           Deep(c, x, o, i - l, Len(c) + 1)
    PROVE  /\ Deep(d, y, o, i - m, Len(d) + 1)
           /\ o <= y + Before(d, HeapKinds, Len(d) + 1)
<1> DEFINE e == Since(c, TableKinds, r)
           f == Since(d, TableKinds, r)
           a == i - l + e
           b == i - m + f
           n == Len(c) + 1
           q == Len(d) + 1
<1>1. n \in Nat /\ q \in Nat /\ r \in Nat /\ r >= 1 /\ r <= n /\ r <= q /\ q <= r + 1
    BY DEF Turns
<1>2. /\ Before(c, TableKinds, n) = Before(c, TableKinds, r) + e
      /\ Before(d, TableKinds, q) = Before(d, TableKinds, r) + f
      /\ e \in Int /\ f \in Int
    <2>1. /\ Before(c, TableKinds, n) \in Nat /\ Before(c, TableKinds, r) \in Nat
          /\ Before(d, TableKinds, q) \in Nat /\ Before(d, TableKinds, r) \in Nat
        BY <1>1, BeforeNat
    <2>2. /\ e = Before(c, TableKinds, n) - Before(c, TableKinds, r)
          /\ f = Before(d, TableKinds, q) - Before(d, TableKinds, r)
        BY DEF Since
    <2> HIDE DEF n, q, e, f
    <2> QED
        BY <2>1, <2>2, SMTT(30)
<1> HIDE DEF n, q, e, f
<1>0. a \in Int /\ b \in Int /\ b <= 0 /\ a - b <= y - x /\ i - l \in Int /\ i - m \in Int /\ i - m <= 0
    <2>1. b \in Int /\ b <= 0
        BY <1>2 DEF f
    <2>2. a \in Int /\ i - l \in Int /\ i - m \in Int
        BY <1>2
    <2>3. (m - f) - (l - e) <= y - x
        BY DEF e, f
    <2>4. a - b <= y - x
        BY <1>2, <2>3
    <2>5. f >= 0
        <3>1. Before(d, TableKinds, r) <= Before(d, TableKinds, q)
            BY <1>1, BeforeGrows
        <3>2. Before(d, TableKinds, r) \in Nat
            BY <1>1, BeforeNat
        <3> QED
            BY <1>2, <3>1, <3>2
    <2>6. i - m <= 0
        BY <1>2, <2>1, <2>5
    <2> QED
        BY <2>1, <2>2, <2>4, <2>6
<1>3. \A j \in 1..r : /\ Before(c, HeapKinds, j) = Before(d, HeapKinds, j)
                      /\ Before(c, TableKinds, j) = Before(d, TableKinds, j)
                      /\ Before(d, HeapKinds, j) \in Nat /\ Before(d, TableKinds, j) \in Nat
    <2>1. \A j \in 1..r : /\ Before(c, HeapKinds, j) = Before(d, HeapKinds, j)
                          /\ Before(c, TableKinds, j) = Before(d, TableKinds, j)
        BY <1>1, BeforeAlike DEF Turns
    <2>2. \A j \in 1..r : j \in Nat
        BY <1>1
    <2> QED
        BY <2>1, <2>2, BeforeNat
<1>4. r \in 1..r
    BY <1>1
<1>5. ASSUME NEW j \in 1..r, NoCall(d, j, q)
      PROVE  o <= y + Before(d, HeapKinds, j)
                    + Plus(i - m + Before(d, TableKinds, q) - Before(d, TableKinds, j))
    <2>1. NoCall(c, j, n)
        <3> SUFFICES ASSUME NEW k \in j..(n - 1)
                     PROVE  c[k].k # "call"
            BY DEF NoCall
        <3>1. CASE k \in r..(n - 1)
            BY <3>1 DEF Turns, NoCall, n
        <3>2. CASE k \in 1..(r - 1)
            <4>1. k \in j..(q - 1)
                BY <1>1, <3>2
            <4> QED
                BY <4>1, <1>5, <3>2 DEF Turns, NoCall, AlikeTo, Alike
        <3> QED
            BY <1>1, <3>1, <3>2
    <2>2. j \in 1..n
        BY <1>1
    <2>3. o <= x + Before(c, HeapKinds, j)
                 + Plus(i - l + Before(c, TableKinds, n) - Before(c, TableKinds, j))
        BY <2>1, <2>2 DEF Deep, n
    <2> DEFINE k == Before(d, TableKinds, r) - Before(d, TableKinds, j)
               h == Before(d, HeapKinds, j)
    <2>4. k \in Int /\ h \in Int
        BY <1>3, <1>4, SMTT(30)
    <2>5. i - l + Before(c, TableKinds, n) - Before(c, TableKinds, j) = a + k
        <3>1. /\ Before(d, TableKinds, r) \in Int /\ Before(d, TableKinds, j) \in Int
              /\ Before(c, TableKinds, n) = Before(d, TableKinds, r) + e
              /\ Before(c, TableKinds, j) = Before(d, TableKinds, j)
            BY <1>2, <1>3, <1>4, SMTT(30)
        <3> QED
            BY <1>2, <3>1, Cancels
    <2>6. i - m + Before(d, TableKinds, q) - Before(d, TableKinds, j) = b + k
        <3>1. Before(d, TableKinds, r) \in Int /\ Before(d, TableKinds, j) \in Int
            BY <1>3, <1>4
        <3> QED
            BY <1>2, <3>1, Cancels, SMTT(30)
    <2>7. o <= x + h + Plus(a + k)
        BY <2>3, <2>5, <1>3
    <2> HIDE DEF k, h, a, b
    <2>8. o <= y + h + Plus(b + k)
        <3>1. a \in Int /\ b \in Int /\ a - b <= y - x /\ o \in Int
            BY <1>0
        <3> QED
            BY <2>4, <2>7, <3>1, Shifted
    <2> QED
        BY <2>6, <2>8 DEF h
<1>6. o <= y + Before(d, HeapKinds, r)
    <2>1. NoCall(c, r, n) /\ r \in 1..n
        BY <1>1 DEF Turns, n
    <2>2. o <= x + Before(c, HeapKinds, r)
                 + Plus(i - l + Before(c, TableKinds, n) - Before(c, TableKinds, r))
        BY <2>1 DEF Deep, n
    <2>3. i - l + Before(c, TableKinds, n) - Before(c, TableKinds, r) = a
        BY <1>2, <1>3, <1>4, SMTT(30)
    <2>4. a <= y - x
        BY <1>0
    <2>5. o <= x + Before(d, HeapKinds, r) + Plus(a) /\ Before(d, HeapKinds, r) \in Nat
        BY <2>2, <2>3, <1>3, <1>4
    <2> HIDE DEF a
    <2> QED
        BY <1>0, <2>4, <2>5, SMTT(30) DEF Plus
<1>7. Before(d, HeapKinds, r) <= Before(d, HeapKinds, q) /\ Before(d, HeapKinds, q) \in Nat
      /\ Before(d, TableKinds, q) \in Nat /\ Before(d, HeapKinds, r) \in Nat
    BY <1>1, BeforeGrows, BeforeNat
<1>8. o <= y + Before(d, HeapKinds, q)
    BY <1>6, <1>7
<1>9. ASSUME NEW j \in 1..q, NoCall(d, j, q)
      PROVE  o <= y + Before(d, HeapKinds, j)
                    + Plus(i - m + Before(d, TableKinds, q) - Before(d, TableKinds, j))
    <2>1. CASE j \in 1..r
        BY <1>5, <1>9, <2>1
    <2>2. CASE j = q
        <3>1. i - m + Before(d, TableKinds, q) - Before(d, TableKinds, j) = i - m
            BY <1>0, <1>7, <2>2
        <3>2. Plus(i - m) = 0
            BY <1>0 DEF Plus
        <3> QED
            BY <1>7, <1>8, <2>2, <3>1, <3>2
    <2> QED
        BY <1>1, <2>1, <2>2
<1> QED
    BY <1>8, <1>9 DEF Deep, q

\* A variable that is bound in the table on top, in the scope on top.
LEMMA NewOwner ==
    ASSUME NEW c \in Seq(FrameType), NEW sa \in Seq(SUBSET Nat)
    PROVE  Deep(c, Extra(c, sa), Len(sa), 0, Len(c) + 1)
<1> DEFINE p == Len(c) + 1
<1>1. p \in Nat /\ Len(sa) \in Nat
    OBVIOUS
<1>2. Before(c, HeapKinds, p) = Cnt(c, HeapKinds) /\ Before(c, HeapKinds, p) \in Nat
      /\ Before(c, TableKinds, p) \in Nat
    BY <1>1, BeforeAll, BeforeNat
<1> HIDE DEF p
<1>3. ASSUME NEW j \in 1..p, NoCall(c, j, p)
      PROVE  Len(sa) <= Extra(c, sa) + Before(c, HeapKinds, j)
                           + Plus(0 + Before(c, TableKinds, p) - Before(c, TableKinds, j))
    <2>1. j \in Nat /\ 1 <= j /\ j <= p
        BY <1>1
    <2>2. Before(c, HeapKinds, j) \in Nat /\ Before(c, TableKinds, j) \in Nat
        BY <2>1, BeforeNat
    <2>3. Before(c, HeapKinds, p) - Before(c, HeapKinds, j)
             <= Before(c, TableKinds, p) - Before(c, TableKinds, j)
        BY <1>1, <1>3, <2>1, TablesOutnumber
    <2> QED
        BY <1>1, <1>2, <2>2, <2>3 DEF Extra, Plus
<1> QED
    BY <1>3 DEF Deep, p

-----------------------------------------------------------------------------
(* Steps of one activation.                                                *)

LEMMA CallsBelow ==
    ASSUME NEW c \in Seq(FrameType), NEW r \in 1..(Len(c) + 1), NoCall(c, r, Len(c) + 1)
    PROVE  \A p \in DOMAIN c : c[p].k = "call" => p \in 1..(r - 1)
BY DEF NoCall

\* Every variable in sight has an owner.
LEMMA Owners ==
    ASSUME NEW c, NEW t, NEW sa, NEW sv, Safe(c, t, sa, sv)
    PROVE  /\ \A i \in DOMAIN t : \A n \in DOMAIN t[i] : \E o \in DOMAIN sa : t[i][n].addr \in sa[o]
           /\ \A k \in DOMAIN sv : \A i \in DOMAIN sv[k] : \A n \in DOMAIN sv[k][i] :
                 \E o \in DOMAIN sa : sv[k][i][n].addr \in sa[o]
<1>1. PICK idx \in [DOMAIN sv -> DOMAIN c] : \A k \in DOMAIN sv : Kept(sv[k], c, sa, idx[k])
    BY DEF Safe
<1> QED
    BY <1>1 DEF Safe, Kept

LEMMA ApartCarries ==
    ASSUME NEW sv, NEW t, NEW u, NEW b, NEW q, NEW z, NEW a, Apart(sv, t), Carries(t, u, b, q, z, a),
           \A i \in DOMAIN t : \A n \in DOMAIN t[i] : t[i][n].addr # a,
           \A k \in DOMAIN sv : \A i \in DOMAIN sv[k] : \A n \in DOMAIN sv[k][i] : sv[k][i][n].addr # a
    PROVE  Apart(sv, u)
<1>1. Differ(u, u, TRUE)
    <2> SUFFICES ASSUME NEW i \in DOMAIN u, NEW j \in DOMAIN u, NEW n \in DOMAIN u[i],
                        NEW m \in DOMAIN u[j], u[i][n].addr = u[j][m].addr
                 PROVE  n = m /\ i = j
        BY DEF Differ
    <2>1. CASE u[i][n].addr = a
        BY <2>1 DEF Carries
    <2>2. CASE u[i][n].addr # a
        <3>1. /\ i \in DOMAIN t /\ n \in DOMAIN t[i] /\ u[i][n].addr = t[i][n].addr
              /\ j \in DOMAIN t /\ m \in DOMAIN t[j] /\ u[j][m].addr = t[j][m].addr
            BY <2>2 DEF Carries
        <3>2. t[i][n].addr = t[j][m].addr
            BY <3>1
        <3>3. Differ(t, t, TRUE)
            BY DEF Apart
        <3> QED
            BY <3>1, <3>2, <3>3 DEF Differ
    <2> QED
        BY <2>1, <2>2
<1>2. ASSUME NEW k \in DOMAIN sv
      PROVE  Differ(sv[k], u, FALSE)
    <2> SUFFICES ASSUME NEW i \in DOMAIN sv[k], NEW j \in DOMAIN u, NEW n \in DOMAIN sv[k][i],
                        NEW m \in DOMAIN u[j], sv[k][i][n].addr = u[j][m].addr
                 PROVE  n = m /\ i = j /\ i = 1
        BY DEF Differ
    <2>1. j \in DOMAIN t /\ m \in DOMAIN t[j] /\ u[j][m].addr = t[j][m].addr
        BY <1>2 DEF Carries
    <2>2. Differ(sv[k], t, FALSE)
        BY <1>2 DEF Apart
    <2> QED
        BY <2>1, <2>2 DEF Differ
<1> QED
    BY <1>1, <1>2 DEF Apart

LEMMA SinceInt ==
    ASSUME NEW c \in Seq(FrameType), NEW ks, NEW r \in Nat
    PROVE  Since(c, ks, r) \in Int
<1>1. Len(c) + 1 \in Nat
    OBVIOUS
<1>2. Before(c, ks, Len(c) + 1) \in Nat /\ Before(c, ks, r) \in Nat
    BY <1>1, BeforeNat
<1> QED
    BY <1>2 DEF Since

LEMMA ExtraShift ==
    ASSUME NEW c \in Seq(FrameType), NEW d \in Seq(FrameType), NEW r, Turns(c, d, r),
           NEW sa \in Seq(SUBSET Nat), NEW sb \in Seq(SUBSET Nat)
    PROVE  /\ Extra(c, sa) \in Int /\ Extra(d, sb) \in Int
           /\ Extra(d, sb) - Extra(c, sa) =
                 (Len(sb) - Since(d, HeapKinds, r)) - (Len(sa) - Since(c, HeapKinds, r))
           /\ Extra(d, sb) + Before(d, HeapKinds, Len(d) + 1) = Len(sb)
<1>1. r \in 1..r /\ r \in Nat
    BY DEF Turns
<1>2. Before(c, HeapKinds, r) = Before(d, HeapKinds, r) /\ Before(c, HeapKinds, r) \in Nat
    BY <1>1, BeforeAlike, BeforeNat DEF Turns
<1>3. /\ Before(c, HeapKinds, Len(c) + 1) = Cnt(c, HeapKinds) /\ Cnt(c, HeapKinds) \in Nat
      /\ Before(d, HeapKinds, Len(d) + 1) = Cnt(d, HeapKinds) /\ Cnt(d, HeapKinds) \in Nat
    BY BeforeAll, CntFinite
<1>4. Len(sa) \in Nat /\ Len(sb) \in Nat
    OBVIOUS
<1> QED
    BY <1>2, <1>3, <1>4, SMTT(30) DEF Extra, Since

\* The tables in use after the step.
LEMMA KeptMove ==
    ASSUME NEW c \in Seq(FrameType), NEW d \in Seq(FrameType), NEW r, Turns(c, d, r),
           NEW t \in Seq(ScopeType), NEW u \in Seq(ScopeType),
           NEW sa \in Seq(SUBSET Nat), NEW sb \in Seq(SUBSET Nat), Kept(t, c, sa, Len(c) + 1),
           Balanced(c, d, r, Len(t), Len(u), Len(sa), Len(sb)), Retains(sa, sb),
           NEW z, NEW a, NewBlock(sa, sb, u, a),
           Carries(t, u, Len(u) - Since(d, TableKinds, r), Len(u), z, a)
    PROVE  Kept(u, d, sb, Len(d) + 1)
<1> DEFINE x == Extra(c, sa)
           y == Extra(d, sb)
<1>1. /\ Len(t) \in Nat /\ Len(u) \in Nat /\ Len(sb) \in Nat
      /\ DOMAIN sa = 1..Len(sa) /\ DOMAIN sb = 1..Len(sb) /\ DOMAIN t = 1..Len(t)
      /\ DOMAIN u = 1..Len(u)
    OBVIOUS
<1>2. x \in Int /\ y \in Int /\ y + Before(d, HeapKinds, Len(d) + 1) = Len(sb)
    BY ExtraShift
<1>3. x <= y /\ (Len(u) - Since(d, TableKinds, r)) - (Len(t) - Since(c, TableKinds, r)) <= y - x
    <2>1. y - x = (Len(sb) - Since(d, HeapKinds, r)) - (Len(sa) - Since(c, HeapKinds, r))
        BY ExtraShift
    <2>2. Since(d, HeapKinds, r) \in Int /\ Since(c, HeapKinds, r) \in Int /\ Len(sa) \in Nat
        <3>1. r \in Nat
            BY DEF Turns
        <3> QED
            BY <3>1, SinceInt
    <2> HIDE DEF x, y
    <2> QED
        BY <1>1, <1>2, <2>1, <2>2 DEF Balanced
<1> HIDE DEF x, y
<1> SUFFICES ASSUME NEW i \in DOMAIN u, NEW n \in DOMAIN u[i]
             PROVE  \E o \in DOMAIN sb :
                       u[i][n].addr \in sb[o] /\ Deep(d, y, o, i - Len(u), Len(d) + 1)
    BY DEF Kept, y
<1>4. CASE /\ i \in DOMAIN t /\ i <= Len(u) - Since(d, TableKinds, r)
           /\ n \in DOMAIN t[i] /\ u[i][n].addr = t[i][n].addr
    <2>1. PICK o \in DOMAIN sa : t[i][n].addr \in sa[o] /\ Deep(c, x, o, i - Len(t), Len(c) + 1)
        BY <1>4 DEF Kept, x
    <2>2. o \in Nat /\ o >= 1 /\ i \in Nat /\ i <= Len(t)
        BY <1>1, <1>4
    <2>3. /\ Deep(d, y, o, i - Len(u), Len(d) + 1)
          /\ o <= y + Before(d, HeapKinds, Len(d) + 1)
        BY <1>1, <1>2, <1>3, <1>4, <2>1, <2>2, Moved
    <2>4. o \in DOMAIN sb
        <3>1. o <= Len(sb)
            BY <1>2, <2>3
        <3> QED
            BY <1>1, <2>2, <3>1
    <2>5. u[i][n].addr \in sb[o]
        BY <1>4, <2>1, <2>4 DEF Retains
    <2> QED
        BY <2>3, <2>4, <2>5
<1>5. CASE i = Len(u) /\ n = z /\ u[i][n].addr = a
    <2>1. Len(sb) \in DOMAIN sb /\ i - Len(u) = 0
        BY <1>1, <1>5 DEF Retains
    <2>2. Deep(d, y, Len(sb), 0, Len(d) + 1)
        BY NewOwner DEF y
    <2>3. u[i][n].addr \in sb[Len(sb)]
        BY <1>5 DEF NewBlock
    <2> QED
        BY <2>1, <2>2, <2>3
<1> QED
    BY <1>4, <1>5 DEF Carries

\* The tables set aside by the calls in progress.
LEMMA SavedMove ==
    ASSUME NEW c \in Seq(FrameType), NEW d \in Seq(FrameType), NEW r, Turns(c, d, r),
           NEW sa \in Seq(SUBSET Nat), NEW sb \in Seq(SUBSET Nat), Retains(sa, sb),
           Extra(c, sa) <= Extra(d, sb), NEW sv \in Seq(Seq(ScopeType)),
           NEW idx \in [DOMAIN sv -> DOMAIN c], Places(idx, c, sv),
           \A k \in DOMAIN sv : Kept(sv[k], c, sa, idx[k])
    PROVE  /\ idx \in [DOMAIN sv -> DOMAIN d] /\ Places(idx, d, sv)
           /\ \A k \in DOMAIN sv : Kept(sv[k], d, sb, idx[k])
<1>1. /\ Len(c) \in Nat /\ Len(d) \in Nat /\ DOMAIN c = 1..Len(c) /\ DOMAIN d = 1..Len(d)
      /\ r \in 1..(Len(c) + 1) /\ r \in 1..(Len(d) + 1)
    BY DEF Turns
<1>2. \A p \in DOMAIN c : c[p].k = "call" => p \in 1..(r - 1)
    BY <1>1, CallsBelow DEF Turns
<1>3. \A p \in DOMAIN d : d[p].k = "call" => p \in 1..(r - 1)
    BY <1>1, CallsBelow DEF Turns
<1>4. \A p \in 1..(r - 1) : p \in DOMAIN c /\ p \in DOMAIN d
    BY <1>1
<1>5. \A p \in 1..(r - 1) : c[p].k = "call" <=> d[p].k = "call"
    BY DEF Turns, AlikeTo, Alike
<1>6. \A k \in DOMAIN sv : idx[k] \in 1..(r - 1)
    BY <1>2 DEF Places
<1>7. idx \in [DOMAIN sv -> DOMAIN d]
    BY <1>4, <1>6
<1>8. \A p \in DOMAIN d : d[p].k = "call" <=> \E i \in DOMAIN sv : idx[i] = p
    BY <1>3, <1>4, <1>5, <1>6 DEF Places
<1>9. Places(idx, d, sv)
    BY <1>8 DEF Places
<1>10. ASSUME NEW k \in DOMAIN sv
       PROVE  Kept(sv[k], d, sb, idx[k])
    <2> DEFINE p == idx[k]
    <2>1. p \in 1..(r - 1)
        BY <1>6
    <2> HIDE DEF p
    <2>2. p \in Nat /\ p >= 1 /\ p <= Len(d) + 1 /\ p <= r
        BY <1>1, <2>1
    <2>3. AlikeTo(c, d, p)
        BY <2>1, <2>2 DEF AlikeTo, Turns
    <2>4. sv[k] \in Seq(ScopeType) /\ Kept(sv[k], c, sa, p)
        BY DEF p
    <2>5. Kept(sv[k], d, sb, p)
        BY <2>2, <2>3, <2>4, KeptOn DEF Retains
    <2> QED
        BY <2>5 DEF p
<1> QED
    BY <1>7, <1>9, <1>10

\* A step that leaves the constructs from r on and begins at most one.
LEMMA GoodMove ==
    ASSUME NEW c \in Seq(FrameType), NEW d \in Seq(FrameType), NEW r, Turns(c, d, r),
           NEW t \in Seq(ScopeType), NEW u \in Seq(ScopeType),
           NEW sa \in Seq(SUBSET Nat), NEW sb \in Seq(SUBSET Nat), NEW sv \in Seq(Seq(ScopeType)),
           Good(c, t, sa, sv),
           Balanced(c, d, r, Len(t), Len(u), Len(sa), Len(sb)), Retains(sa, sb),
           NEW z, NEW a, NewBlock(sa, sb, u, a),
           Carries(t, u, Len(u) - Since(d, TableKinds, r), Len(u), z, a)
    PROVE  Good(d, u, sb, sv)
<1>1. Kept(u, d, sb, Len(d) + 1)
    BY KeptMove DEF Good, Safe
<1>2. Extra(c, sa) <= Extra(d, sb)
    <2>1. /\ Extra(c, sa) \in Int /\ Extra(d, sb) \in Int
          /\ Extra(d, sb) - Extra(c, sa) =
                (Len(sb) - Since(d, HeapKinds, r)) - (Len(sa) - Since(c, HeapKinds, r))
        BY ExtraShift
    <2>2. Since(d, HeapKinds, r) \in Int /\ Since(c, HeapKinds, r) \in Int
        <3>1. r \in Nat
            BY DEF Turns
        <3> QED
            BY <3>1, SinceInt
    <2>3. Len(sa) \in Nat /\ Len(sb) \in Nat
        OBVIOUS
    <2> QED
        BY <2>1, <2>2, <2>3 DEF Balanced
<1>3. PICK idx \in [DOMAIN sv -> DOMAIN c] :
          Places(idx, c, sv) /\ \A k \in DOMAIN sv : Kept(sv[k], c, sa, idx[k])
    BY DEF Good, Safe
<1>4. /\ idx \in [DOMAIN sv -> DOMAIN d] /\ Places(idx, d, sv)
      /\ \A k \in DOMAIN sv : Kept(sv[k], d, sb, idx[k])
    BY <1>2, <1>3, SavedMove
<1>5. Apart(sv, u)
    <2>1. Safe(c, t, sa, sv) /\ Apart(sv, t)
        BY DEF Good
    <2>2. /\ \A i \in DOMAIN t : \A n \in DOMAIN t[i] : t[i][n].addr # a
          /\ \A k \in DOMAIN sv : \A i \in DOMAIN sv[k] : \A n \in DOMAIN sv[k][i] : sv[k][i][n].addr # a
        BY <2>1, Owners DEF NewBlock
    <2> QED
        BY <2>1, <2>2, ApartCarries
<1> QED
    BY <1>1, <1>4, <1>5 DEF Good, Safe

-----------------------------------------------------------------------------
(* Statics, calls, returns and collections.                                *)

\* Where no construct of the activation is open, any owner will do.
Alone(c) == c = << >> \/ c[Len(c)].k = "call"

LEMMA DeepAlone ==
    ASSUME NEW c \in Seq(FrameType), Alone(c), NEW sa \in Seq(SUBSET Nat), NEW o \in DOMAIN sa,
           NEW e \in Int, e <= 0
    PROVE  Deep(c, Extra(c, sa), o, e, Len(c) + 1)
<1> DEFINE p == Len(c) + 1
<1>1. p \in Nat /\ Len(sa) \in Nat /\ o \in Nat /\ o <= Len(sa) /\ p >= 1
    OBVIOUS
<1>2. Before(c, HeapKinds, p) = Cnt(c, HeapKinds) /\ Before(c, HeapKinds, p) \in Nat
      /\ Before(c, TableKinds, p) \in Nat
    BY <1>1, BeforeAll, BeforeNat
<1> SUFFICES ASSUME NEW j \in 1..p, NoCall(c, j, p)
             PROVE  o <= Extra(c, sa) + Before(c, HeapKinds, j)
                           + Plus(e + Before(c, TableKinds, p) - Before(c, TableKinds, j))
    BY DEF Deep
<1>3. j = p
    <2>1. CASE c = << >>
        BY <2>1
    <2>2. CASE c # << >> /\ c[Len(c)].k = "call"
        BY <2>2 DEF NoCall
    <2> QED
        BY <2>1, <2>2 DEF Alone
<1> HIDE DEF p
<1>4. e + Before(c, TableKinds, p) - Before(c, TableKinds, j) = e
    BY <1>2, <1>3
<1>5. Plus(e) = 0
    BY DEF Plus
<1>6. Extra(c, sa) + Before(c, HeapKinds, j) = Len(sa)
    BY <1>1, <1>2, <1>3 DEF Extra
<1> QED
    BY <1>1, <1>4, <1>5, <1>6

LEMMA KeptAlone ==
    ASSUME NEW c \in Seq(FrameType), Alone(c), NEW sa \in Seq(SUBSET Nat), NEW t \in Seq(ScopeType),
           \A i \in DOMAIN t : \A n \in DOMAIN t[i] : \E o \in DOMAIN sa : t[i][n].addr \in sa[o]
    PROVE  Kept(t, c, sa, Len(c) + 1)
<1> SUFFICES ASSUME NEW i \in DOMAIN t, NEW n \in DOMAIN t[i]
             PROVE  \E o \in DOMAIN sa :
                       t[i][n].addr \in sa[o] /\ Deep(c, Extra(c, sa), o, i - Len(t), Len(c) + 1)
    BY DEF Kept
<1>1. PICK o \in DOMAIN sa : t[i][n].addr \in sa[o]
    OBVIOUS
<1>2. i - Len(t) \in Int /\ i - Len(t) <= 0
    OBVIOUS
<1> QED
    BY <1>1, <1>2, DeepAlone

LEMMA AlikeSame ==
    ASSUME NEW c, NEW p
    PROVE  AlikeTo(c, c, p)
BY DEF AlikeTo, Alike

LEMMA ExtraSame ==
    ASSUME NEW c \in Seq(FrameType), NEW sa \in Seq(SUBSET Nat), NEW sb \in Seq(SUBSET Nat),
           Len(sb) = Len(sa)
    PROVE  Extra(c, sa) <= Extra(c, sb)
<1>1. Cnt(c, HeapKinds) \in Nat
    BY CntFinite
<1>2. Len(sa) \in Nat
    OBVIOUS
<1>3. Extra(c, sa) = Extra(c, sb) /\ Extra(c, sa) \in Int
    BY <1>1, <1>2 DEF Extra
<1> QED
    BY <1>3

LEMMA NewIsNew ==
    ASSUME NEW c, NEW t, NEW sa, NEW sv, Safe(c, t, sa, sv), NEW a, \A o \in DOMAIN sa : a \notin sa[o]
    PROVE  /\ \A i \in DOMAIN t : \A n \in DOMAIN t[i] : t[i][n].addr # a
           /\ \A k \in DOMAIN sv : \A i \in DOMAIN sv[k] : \A n \in DOMAIN sv[k][i] : sv[k][i][n].addr # a
<1>1. \A i \in DOMAIN t : \A n \in DOMAIN t[i] : t[i][n].addr # a
    BY Owners
<1>2. \A k \in DOMAIN sv : \A i \in DOMAIN sv[k] : \A n \in DOMAIN sv[k][i] : sv[k][i][n].addr # a
    BY Owners
<1> QED
    BY <1>1, <1>2

\* The tables set aside, when the constructs stay.
LEMMA SavedStay ==
    ASSUME NEW c \in Seq(FrameType), NEW sa \in Seq(SUBSET Nat), NEW sb \in Seq(SUBSET Nat),
           Len(sb) = Len(sa), NEW sv \in Seq(Seq(ScopeType)),
           NEW idx \in [DOMAIN sv -> DOMAIN c], NEW k \in DOMAIN sv, Kept(sv[k], c, sa, idx[k]),
           \A i \in DOMAIN sv[k] : \A n \in DOMAIN sv[k][i] : \A o \in DOMAIN sa \cap DOMAIN sb :
              sv[k][i][n].addr \in sa[o] => sv[k][i][n].addr \in sb[o]
    PROVE  Kept(sv[k], c, sb, idx[k])
<1> DEFINE p == idx[k]
<1>1. p \in DOMAIN c
    OBVIOUS
<1> HIDE DEF p
<1>2. p \in Nat /\ p >= 1 /\ p <= Len(c) + 1
    BY <1>1
<1>3. Extra(c, sa) <= Extra(c, sb)
    BY ExtraSame
<1>4. sv[k] \in Seq(ScopeType) /\ Kept(sv[k], c, sa, p)
    BY DEF p
<1>5. AlikeTo(c, c, p)
    BY AlikeSame
<1>6. Kept(sv[k], c, sb, p)
    BY <1>2, <1>3, <1>4, <1>5, KeptOn
<1> QED
    BY <1>6 DEF p

\* A static of the module or of a function's outermost block.
LEMMA GoodStatic ==
    ASSUME NEW c \in Seq(FrameType), Alone(c), NEW t \in Seq(ScopeType), NEW u \in Seq(ScopeType),
           NEW sa \in Seq(SUBSET Nat), NEW sb \in Seq(SUBSET Nat), Len(sb) = Len(sa),
           NEW sv \in Seq(Seq(ScopeType)), Good(c, t, sa, sv), Retains(sa, sb),
           NEW b, NEW z, NEW a, NewBlock(sa, sb, u, a), Carries(t, u, b, 1, z, a)
    PROVE  Good(c, u, sb, sv)
<1>1. Safe(c, t, sa, sv) /\ Apart(sv, t)
    BY DEF Good
<1>2. DOMAIN sa = DOMAIN sb /\ Len(sb) \in DOMAIN sb
    BY DEF Retains
<1>3. ASSUME NEW i \in DOMAIN u, NEW n \in DOMAIN u[i]
      PROVE  \E o \in DOMAIN sb : u[i][n].addr \in sb[o]
    <2>1. CASE i \in DOMAIN t /\ n \in DOMAIN t[i] /\ u[i][n].addr = t[i][n].addr
        <3>1. PICK o \in DOMAIN sa : t[i][n].addr \in sa[o]
            BY <1>1, <2>1, Owners
        <3> QED
            BY <1>2, <2>1, <3>1 DEF Retains
    <2>2. CASE u[i][n].addr = a
        BY <1>2, <2>2 DEF NewBlock
    <2> QED
        BY <2>1, <2>2 DEF Carries
<1>4. Kept(u, c, sb, Len(c) + 1)
    BY <1>3, KeptAlone
<1>5. PICK idx \in [DOMAIN sv -> DOMAIN c] :
          Places(idx, c, sv) /\ \A k \in DOMAIN sv : Kept(sv[k], c, sa, idx[k])
    BY <1>1 DEF Safe
<1>6. \A k \in DOMAIN sv : Kept(sv[k], c, sb, idx[k])
    BY <1>5, SavedStay DEF Retains
<1>7. /\ \A i \in DOMAIN t : \A n \in DOMAIN t[i] : t[i][n].addr # a
      /\ \A k \in DOMAIN sv : \A i \in DOMAIN sv[k] : \A n \in DOMAIN sv[k][i] : sv[k][i][n].addr # a
    BY <1>1, NewIsNew DEF NewBlock
<1>8. Apart(sv, u)
    BY <1>1, <1>7, ApartCarries
<1> QED
    BY <1>4, <1>5, <1>6, <1>8 DEF Good, Safe

\* A collection keeps what the tables name.
LEMMA GoodCollect ==
    ASSUME NEW c \in Seq(FrameType), NEW t \in Seq(ScopeType),
           NEW sa \in Seq(SUBSET Nat), NEW sb \in Seq(SUBSET Nat), Len(sb) = Len(sa),
           NEW sv \in Seq(Seq(ScopeType)), Good(c, t, sa, sv),
           NEW roots, \A o \in DOMAIN sa : sb[o] = sa[o] \cap roots,
           \A i \in DOMAIN t : \A n \in DOMAIN t[i] : t[i][n].addr \in roots,
           \A k \in DOMAIN sv : \A i \in DOMAIN sv[k] : \A n \in DOMAIN sv[k][i] : sv[k][i][n].addr \in roots
    PROVE  Good(c, t, sb, sv)
<1>1. Safe(c, t, sa, sv) /\ Apart(sv, t)
    BY DEF Good
<1>2. PICK idx \in [DOMAIN sv -> DOMAIN c] :
          Places(idx, c, sv) /\ \A k \in DOMAIN sv : Kept(sv[k], c, sa, idx[k])
    BY <1>1 DEF Safe
<1>3. \A k \in DOMAIN sv : Kept(sv[k], c, sb, idx[k])
    BY <1>2, SavedStay
<1>4. Kept(t, c, sb, Len(c) + 1)
    <2>1. Len(c) + 1 \in Nat /\ Len(c) + 1 >= 1
        OBVIOUS
    <2>2. Extra(c, sa) <= Extra(c, sb)
        BY ExtraSame
    <2>3. AlikeTo(c, c, Len(c) + 1) /\ Kept(t, c, sa, Len(c) + 1)
        BY <1>1, AlikeSame DEF Safe
    <2>4. Len(c) + 1 <= Len(c) + 1
        BY <2>1
    <2> QED
        BY <2>1, <2>2, <2>3, <2>4, KeptOn
<1> QED
    BY <1>1, <1>2, <1>3, <1>4 DEF Good, Safe

\* Counting after a push and a pop.
LEMMA ExtraPush ==
    ASSUME NEW c \in Seq(FrameType), NEW f \in FrameType, NEW sa, NEW sb,
           Len(sa) \in Nat, Len(sb) = Len(sa) + One(f.k \in HeapKinds)
    PROVE  Extra(Append(c, f), sb) = Extra(c, sa)
<1>1. Cnt(c, HeapKinds) \in Nat /\ Cnt(Append(c, f), HeapKinds) = Cnt(c, HeapKinds) + One(f.k \in HeapKinds)
    BY CntFinite, CntAppend
<1>2. One(f.k \in HeapKinds) \in Nat
    BY DEF One
<1> QED
    BY <1>1, <1>2 DEF Extra

LEMMA AlikeAppend ==
    ASSUME NEW c \in Seq(FrameType), NEW f \in FrameType, NEW p \in Nat, p <= Len(c) + 1
    PROVE  AlikeTo(c, Append(c, f), p)
<1>1. \A i \in 1..(p - 1) : Append(c, f)[i] = c[i]
    OBVIOUS
<1> QED
    BY <1>1 DEF AlikeTo, Alike

LEMMA AlikeFront ==
    ASSUME NEW c \in Seq(FrameType), c # << >>, NEW p \in Nat, p <= Len(c)
    PROVE  AlikeTo(c, Front(c), p)
<1>1. \A i \in 1..(p - 1) : i \in 1..(Len(c) - 1)
    OBVIOUS
<1>2. \A i \in 1..(p - 1) : Front(c)[i] = c[i]
    BY <1>1, FrontAppend
<1> QED
    BY <1>2 DEF AlikeTo, Alike

\* The positions of the calls when one more begins, and when one ends.
LEMMA PlacesCall ==
    ASSUME NEW c \in Seq(FrameType), NEW f \in FrameType, f.k = "call",
           NEW sv \in Seq(Seq(ScopeType)), NEW t \in Seq(ScopeType),
           NEW idx \in [DOMAIN sv -> DOMAIN c], Places(idx, c, sv)
    PROVE  \E jdx \in [DOMAIN Append(sv, t) -> DOMAIN Append(c, f)] :
               /\ Places(jdx, Append(c, f), Append(sv, t))
               /\ \A k \in DOMAIN sv : jdx[k] = idx[k]
               /\ jdx[Len(sv) + 1] = Len(c) + 1
<1> DEFINE n == Len(c)
           m == Len(sv)
           d == Append(c, f)
           w == Append(sv, t)
           jdx == [i \in 1..(m + 1) |-> IF i = m + 1 THEN n + 1 ELSE idx[i]]
<1>1. /\ n \in Nat /\ DOMAIN c = 1..n /\ DOMAIN d = 1..(n + 1)
      /\ \A i \in 1..n : d[i] = c[i]
      /\ d[n + 1] = f
    OBVIOUS
<1>2. m \in Nat /\ DOMAIN sv = 1..m /\ DOMAIN w = 1..(m + 1)
    OBVIOUS
<1>3. idx \in [1..m -> 1..n] /\ Places(idx, c, sv)
    BY <1>1, <1>2
<1> HIDE DEF n, d, m, w
<1>4. \A i \in 1..(m + 1) : i \in 1..m \/ i = m + 1
    BY <1>2
<1>5. \A p \in 1..(n + 1) : p \in 1..n \/ p = n + 1
    BY <1>1
<1>6. /\ \A i \in 1..m : i # m + 1 /\ i \in 1..(m + 1) /\ i < m + 1 /\ jdx[i] = idx[i]
                        /\ idx[i] \in 1..n /\ idx[i] < n + 1 /\ idx[i] # n + 1
      /\ m + 1 \in 1..(m + 1) /\ jdx[m + 1] = n + 1 /\ n + 1 \in 1..(n + 1)
    BY <1>1, <1>2, <1>3
<1>7. jdx \in [1..(m + 1) -> 1..(n + 1)]
    BY <1>1, <1>3, <1>4
<1> HIDE DEF jdx
<1>8. \A i, j \in 1..(m + 1) : i < j => jdx[i] < jdx[j]
    <2> SUFFICES ASSUME NEW i \in 1..(m + 1), NEW j \in 1..(m + 1), i < j
                 PROVE  jdx[i] < jdx[j]
        OBVIOUS
    <2>1. i \in 1..m
        BY <1>2
    <2>2. CASE j \in 1..m
        BY <2>1, <2>2, <1>2, <1>3, <1>6 DEF Places
    <2>3. CASE j = m + 1
        BY <2>1, <2>3, <1>6
    <2> QED
        BY <1>4, <2>2, <2>3
<1>9. \A p \in 1..(n + 1) : d[p].k = "call" <=> \E i \in 1..(m + 1) : jdx[i] = p
    <2> SUFFICES ASSUME NEW p \in 1..(n + 1)
                 PROVE  d[p].k = "call" <=> \E i \in 1..(m + 1) : jdx[i] = p
        OBVIOUS
    <2>1. CASE p = n + 1
        BY <2>1, <1>1, <1>6
    <2>2. CASE p \in 1..n
        <3>1. d[p].k = "call" <=> \E i \in 1..m : idx[i] = p
            BY <2>2, <1>1, <1>2, <1>3 DEF Places
        <3>2. p # n + 1
            BY <2>2, <1>1
        <3>3. (\E i \in 1..m : idx[i] = p) <=> \E i \in 1..(m + 1) : jdx[i] = p
            BY <3>2, <1>4, <1>6
        <3> QED
            BY <3>1, <3>3
    <2> QED
        BY <1>5, <2>1, <2>2
<1>10. Places(jdx, d, w)
    BY <1>1, <1>2, <1>8, <1>9 DEF Places
<1> QED
    BY <1>1, <1>2, <1>6, <1>7, <1>10 DEF n, m, d, w

LEMMA PlacesReturn ==
    ASSUME NEW c \in Seq(FrameType), c # << >>, Last(c).k = "call",
           NEW sv \in Seq(Seq(ScopeType)), NEW idx \in [DOMAIN sv -> DOMAIN c], Places(idx, c, sv)
    PROVE  LET jdx == [i \in 1..(Len(sv) - 1) |-> idx[i]]
           IN  /\ sv # << >> /\ idx[Len(sv)] = Len(c)
               /\ jdx \in [DOMAIN Front(sv) -> DOMAIN Front(c)]
               /\ Places(jdx, Front(c), Front(sv))
<1> DEFINE n == Len(c)
           m == Len(sv)
           d == Front(c)
           w == Front(sv)
           jdx == [i \in 1..(m - 1) |-> idx[i]]
<1>1. /\ n \in Nat /\ n >= 1 /\ DOMAIN c = 1..n /\ DOMAIN d = 1..(n - 1)
      /\ \A i \in 1..(n - 1) : d[i] = c[i]
      /\ Last(c) = c[n]
    BY FrontAppend
<1>2. m \in Nat /\ DOMAIN sv = 1..m
    OBVIOUS
<1>3. idx \in [1..m -> 1..n]
    BY <1>1, <1>2
<1>4. PICK i \in 1..m : idx[i] = n
    BY <1>1, <1>2 DEF Places
<1>5. m >= 1 /\ sv # << >>
    BY <1>2, <1>4
<1>6. DOMAIN w = 1..(m - 1)
    BY <1>5, FrontAppend
<1> HIDE DEF n, d, m, w
<1>7. i = m
    <2> SUFFICES ASSUME i < m PROVE FALSE
        BY <1>2, <1>4
    <2>1. m \in 1..m /\ idx[m] \in 1..n
        BY <1>2, <1>3, <1>5
    <2>2. idx[i] < idx[m]
        BY <1>2, <1>4, <2>1 DEF Places
    <2> QED
        BY <1>1, <1>4, <2>1, <2>2
<1>8. \A k \in 1..(m - 1) : k \in 1..m /\ idx[k] \in 1..(n - 1) /\ jdx[k] = idx[k]
    <2> SUFFICES ASSUME NEW k \in 1..(m - 1)
                 PROVE  k \in 1..m /\ idx[k] \in 1..(n - 1)
        OBVIOUS
    <2>1. k \in 1..m /\ k < m /\ m \in 1..m
        BY <1>2
    <2>2. idx[k] < n /\ idx[k] \in 1..n
        BY <1>2, <1>3, <1>4, <1>7, <2>1 DEF Places
    <2> QED
        BY <1>1, <2>1, <2>2
<1>9. jdx \in [1..(m - 1) -> 1..(n - 1)]
    BY <1>8
<1> HIDE DEF jdx
<1>10. \A k, l \in 1..(m - 1) : k < l => jdx[k] < jdx[l]
    BY <1>2, <1>8 DEF Places
<1>11. \A p \in 1..(n - 1) : d[p].k = "call" <=> \E k \in 1..(m - 1) : jdx[k] = p
    <2> SUFFICES ASSUME NEW p \in 1..(n - 1)
                 PROVE  d[p].k = "call" <=> \E k \in 1..(m - 1) : jdx[k] = p
        OBVIOUS
    <2>1. p \in 1..n /\ p # n /\ d[p] = c[p]
        BY <1>1
    <2>2. d[p].k = "call" <=> \E k \in 1..m : idx[k] = p
        BY <1>1, <1>2, <2>1 DEF Places
    <2>3. \A k \in 1..m : k \in 1..(m - 1) \/ k = m
        BY <1>2
    <2>4. (\E k \in 1..m : idx[k] = p) <=> \E k \in 1..(m - 1) : jdx[k] = p
        BY <1>4, <1>7, <1>8, <2>1, <2>3
    <2> QED
        BY <2>2, <2>4
<1>12. Places(jdx, d, w)
    BY <1>1, <1>6, <1>10, <1>11 DEF Places
<1> QED
    BY <1>1, <1>4, <1>5, <1>6, <1>7, <1>9, <1>12 DEF jdx, n, m, d, w

LEMMA ApartCall ==
    ASSUME NEW sv \in Seq(Seq(ScopeType)), NEW t \in Seq(ScopeType), NEW u \in Seq(ScopeType),
           Apart(sv, t), Apart(sv, u), NEW z, NEW a, Carries(t, u, 1, 2, z, a),
           \A i \in DOMAIN t : \A n \in DOMAIN t[i] : t[i][n].addr # a
    PROVE  Apart(Append(sv, t), u)
<1> DEFINE w == Append(sv, t)
           m == Len(sv)
<1>1. m \in Nat /\ DOMAIN sv = 1..m /\ DOMAIN w = 1..(m + 1)
      /\ (\A k \in 1..m : w[k] = sv[k]) /\ w[m + 1] = t
    OBVIOUS
<1>2. \A k \in 1..(m + 1) : k \in 1..m \/ k = m + 1
    BY <1>1
<1>3. \A k \in 1..m : k # m + 1
    BY <1>1
<1> HIDE DEF w, m
<1>4. Differ(t, t, TRUE) /\ \A k \in 1..m : Differ(sv[k], t, FALSE) /\ Differ(t, sv[k], FALSE)
    <2>1. Differ(t, t, TRUE) /\ \A k \in 1..m : Differ(sv[k], t, FALSE)
        BY <1>1 DEF Apart
    <2>2. ASSUME NEW k \in 1..m
          PROVE  Differ(t, sv[k], FALSE)
        <3>1. Differ(sv[k], t, FALSE)
            BY <2>1
        <3> QED
            BY <3>1 DEF Differ
    <2> QED
        BY <2>1, <2>2
<1>5. Differ(t, u, FALSE)
    <2> SUFFICES ASSUME NEW i \in DOMAIN t, NEW j \in DOMAIN u, NEW n \in DOMAIN t[i],
                        NEW l \in DOMAIN u[j], t[i][n].addr = u[j][l].addr
                 PROVE  n = l /\ i = j /\ i = 1
        BY DEF Differ
    <2>1. j \in DOMAIN t /\ j <= 1 /\ l \in DOMAIN t[j] /\ u[j][l].addr = t[j][l].addr
        BY DEF Carries
    <2>2. n = l /\ i = j
        BY <1>4, <2>1 DEF Differ
    <2>3. j \in Nat /\ j >= 1
        OBVIOUS
    <2> QED
        BY <2>1, <2>2, <2>3
<1>6. \A k \in DOMAIN w : Differ(w[k], u, FALSE)
    BY <1>1, <1>2, <1>5 DEF Apart
<1>7. ASSUME NEW k \in DOMAIN w, NEW l \in DOMAIN w
      PROVE  Differ(w[k], w[l], k = l)
    <2>1. CASE k \in 1..m /\ l \in 1..m
        BY <1>1, <2>1 DEF Apart
    <2>2. CASE k \in 1..m /\ l = m + 1
        BY <1>1, <1>3, <1>4, <2>2 DEF Differ
    <2>3. CASE k = m + 1 /\ l \in 1..m
        BY <1>1, <1>3, <1>4, <2>3 DEF Differ
    <2>4. CASE k = m + 1 /\ l = m + 1
        BY <1>1, <1>4, <2>4 DEF Differ
    <2> QED
        BY <1>1, <1>2, <2>1, <2>2, <2>3, <2>4
<1> QED
    BY <1>6, <1>7 DEF Apart, w

LEMMA ApartReturn ==
    ASSUME NEW sv \in Seq(Seq(ScopeType)), sv # << >>, NEW t, Apart(sv, t)
    PROVE  Apart(Front(sv), Last(sv))
<1> DEFINE w == Front(sv)
           m == Len(sv)
<1>1. /\ m \in 1..m /\ DOMAIN sv = 1..m /\ DOMAIN w = 1..(m - 1) /\ Last(sv) = sv[m]
      /\ \A k \in 1..(m - 1) : w[k] = sv[k] /\ k \in 1..m /\ k < m
      /\ m \in Nat
    BY FrontAppend
<1> HIDE DEF w, m
<1>2. \A k \in 1..(m - 1) : k # m
    BY <1>1
<1>3. Differ(sv[m], sv[m], TRUE)
    BY <1>1, SMTT(30) DEF Apart, Differ
<1>4. ASSUME NEW k \in 1..(m - 1)
      PROVE  Differ(sv[k], sv[m], FALSE)
    <2>1. k \in DOMAIN sv /\ m \in DOMAIN sv /\ (k = m) = FALSE
        BY <1>1, <1>2, <1>4
    <2>2. Differ(sv[k], sv[m], k = m)
        BY <2>1 DEF Apart
    <2> QED
        BY <2>1, <2>2
<1>5. \A k, l \in 1..(m - 1) : Differ(sv[k], sv[l], k = l)
    BY <1>1 DEF Apart
<1>6. Differ(Last(sv), Last(sv), TRUE)
    BY <1>1, <1>3
<1>7. \A k \in DOMAIN w : Differ(w[k], Last(sv), FALSE)
    BY <1>1, <1>4
<1>8. \A k, l \in DOMAIN w : Differ(w[k], w[l], k = l)
    BY <1>1, <1>5
<1> QED
    BY <1>6, <1>7, <1>8 DEF Apart, w

\* A call starts from a copy of the outermost table and sets the rest aside.
LEMMA GoodCall ==
    ASSUME NEW c \in Seq(FrameType), NEW f \in FrameType, f.k = "call",
           NEW t \in Seq(ScopeType), NEW u \in Seq(ScopeType),
           NEW sa \in Seq(SUBSET Nat), NEW sb \in Seq(SUBSET Nat), Len(sb) = Len(sa) + 1,
           NEW sv \in Seq(Seq(ScopeType)), Good(c, t, sa, sv), Retains(sa, sb),
           NEW z, NEW a, NewBlock(sa, sb, u, a), Carries(t, u, 1, 2, z, a)
    PROVE  Good(Append(c, f), u, sb, Append(sv, t))
<1> DEFINE d == Append(c, f)
           w == Append(sv, t)
           m == Len(sv)
<1>1. Safe(c, t, sa, sv) /\ Apart(sv, t)
    BY DEF Good
<1>2. /\ \A i \in DOMAIN t : \A n \in DOMAIN t[i] : t[i][n].addr # a
      /\ \A k \in DOMAIN sv : \A i \in DOMAIN sv[k] : \A n \in DOMAIN sv[k][i] : sv[k][i][n].addr # a
    BY <1>1, NewIsNew, ZenonT(40) DEF NewBlock
<1>3. Apart(sv, u)
    BY <1>1, <1>2, ApartCarries
<1>4. Apart(w, u)
    BY <1>1, <1>2, <1>3, ApartCall
<1>5. d \in Seq(FrameType) /\ Len(d) = Len(c) + 1 /\ d[Len(d)] = f /\ Len(c) \in Nat /\ Len(sa) \in Nat
    OBVIOUS
<1>6. DOMAIN sa \subseteq DOMAIN sb /\ Len(sb) \in DOMAIN sb
    OBVIOUS
<1>7. Extra(c, sa) = Extra(d, sb)
    <2>1. One(f.k \in HeapKinds) = 1
        BY DEF One, HeapKinds, Bodies
    <2>2. Len(sb) = Len(sa) + One(f.k \in HeapKinds)
        BY <2>1
    <2> QED
        BY <2>2, <1>5, ExtraPush
<1>8. Extra(c, sa) <= Extra(d, sb)
    <2>1. Cnt(c, HeapKinds) \in Nat
        BY CntFinite
    <2>2. Extra(c, sa) \in Int
        BY <1>5, <2>1 DEF Extra
    <2> QED
        BY <1>7, <2>2
<1> HIDE DEF d
<1>9. Kept(u, d, sb, Len(d) + 1)
    <2>1. Alone(d)
        BY <1>5 DEF Alone
    <2>2. ASSUME NEW i \in DOMAIN u, NEW n \in DOMAIN u[i]
          PROVE  \E o \in DOMAIN sb : u[i][n].addr \in sb[o]
        <3>1. CASE i \in DOMAIN t /\ n \in DOMAIN t[i] /\ u[i][n].addr = t[i][n].addr
            <4>1. PICK o \in DOMAIN sa : t[i][n].addr \in sa[o]
                BY <1>1, <3>1, Owners
            <4> QED
                BY <1>6, <3>1, <4>1 DEF Retains
        <3>2. CASE u[i][n].addr = a
            BY <1>6, <2>2, <3>2 DEF NewBlock
        <3> QED
            BY <2>2, <3>1, <3>2 DEF Carries
    <2> QED
        BY <1>5, <2>1, <2>2, KeptAlone
<1>10. PICK idx \in [DOMAIN sv -> DOMAIN c] :
          Places(idx, c, sv) /\ \A k \in DOMAIN sv : Kept(sv[k], c, sa, idx[k])
    BY <1>1 DEF Safe
<1>11. PICK jdx \in [DOMAIN w -> DOMAIN d] :
           /\ Places(jdx, d, w)
           /\ \A k \in DOMAIN sv : jdx[k] = idx[k]
           /\ jdx[m + 1] = Len(c) + 1
    BY <1>10, PlacesCall, ZenonT(40) DEF d
\* What was kept before the call still is.
<1>12. ASSUME NEW p \in Nat, p >= 1, p <= Len(c) + 1, NEW s \in Seq(ScopeType), Kept(s, c, sa, p)
       PROVE  Kept(s, d, sb, p)
    <2>1. AlikeTo(c, d, p)
        BY <1>12, AlikeAppend DEF d
    <2>2. p <= Len(d) + 1
        BY <1>5, <1>12
    <2>3. \A i \in DOMAIN s : \A n \in DOMAIN s[i] : \A o \in DOMAIN sa \cap DOMAIN sb :
              s[i][n].addr \in sa[o] => s[i][n].addr \in sb[o]
        BY DEF Retains
    <2> QED
        BY <1>5, <1>8, <1>12, <2>1, <2>2, <2>3, KeptOn
<1>13. ASSUME NEW k \in DOMAIN w
       PROVE  Kept(w[k], d, sb, jdx[k])
    <2>1. CASE k \in DOMAIN sv
        <3> DEFINE p == idx[k]
        <3>1. p \in DOMAIN c
            BY <2>1, <1>10
        <3> HIDE DEF p
        <3>2. p \in Nat /\ p >= 1 /\ p <= Len(c) + 1
            BY <3>1, <1>5
        <3>3. sv[k] \in Seq(ScopeType) /\ Kept(sv[k], c, sa, p) /\ jdx[k] = p /\ w[k] = sv[k]
            BY <2>1, <1>10, <1>11 DEF p
        <3> QED
            BY <3>2, <3>3, <1>12
    <2>2. CASE k = m + 1
        <3>1. w[k] = t /\ jdx[k] = Len(c) + 1
            BY <2>2, <1>11
        <3>2. Kept(t, c, sa, Len(c) + 1)
            BY <1>1 DEF Safe
        <3>3. Len(c) + 1 \in Nat /\ Len(c) + 1 >= 1 /\ Len(c) + 1 <= Len(c) + 1
            BY <1>5
        <3>4. Kept(t, d, sb, Len(c) + 1)
            BY <3>2, <3>3, <1>12
        <3> QED
            BY <3>1, <3>4
    <2>3. k \in DOMAIN sv \/ k = m + 1
        BY <1>13
    <2> QED
        BY <2>1, <2>2, <2>3
<1> HIDE DEF w
<1>14. Safe(d, u, sb, w)
    BY <1>9, <1>11, <1>13 DEF Safe
<1> QED
    BY <1>4, <1>14 DEF Good, d, w

\* A return puts the caller's tables back.
LEMMA GoodReturn ==
    ASSUME NEW c \in Seq(FrameType), c # << >>, Last(c).k = "call",
           NEW t, NEW sa \in Seq(SUBSET Nat), NEW sb \in Seq(SUBSET Nat), Len(sb) = Len(sa) - 1,
           NEW sv \in Seq(Seq(ScopeType)), Good(c, t, sa, sv), Retains(sa, sb)
    PROVE  Good(Front(c), Last(sv), sb, Front(sv))
<1> DEFINE d == Front(c)
           w == Front(sv)
           m == Len(sv)
<1>1. Safe(c, t, sa, sv) /\ Apart(sv, t)
    BY DEF Good
<1>2. PICK idx \in [DOMAIN sv -> DOMAIN c] :
          Places(idx, c, sv) /\ \A k \in DOMAIN sv : Kept(sv[k], c, sa, idx[k])
    BY <1>1 DEF Safe
<1> DEFINE jdx == [i \in 1..(m - 1) |-> idx[i]]
<1>3. sv # << >> /\ idx[m] = Len(c) /\ jdx \in [DOMAIN w -> DOMAIN d] /\ Places(jdx, d, w)
    BY <1>2, PlacesReturn
<1>4. Apart(w, Last(sv))
    BY <1>1, <1>3, ApartReturn
<1>5. /\ d \in Seq(FrameType) /\ Len(d) = Len(c) - 1 /\ Len(c) \in Nat /\ Len(c) >= 1
      /\ DOMAIN c = 1..Len(c) /\ Last(c) \in FrameType
    BY FrontAppend
<1>6. /\ m \in DOMAIN sv /\ Last(sv) = sv[m] /\ DOMAIN w = 1..(m - 1) /\ DOMAIN sv = 1..m
      /\ \A k \in 1..(m - 1) : w[k] = sv[k] /\ k \in 1..m
      /\ Last(sv) \in Seq(ScopeType)
    BY <1>3, FrontAppend
<1>7. Extra(c, sa) <= Extra(d, sb)
    <2>1. One(Last(c).k \in HeapKinds) = 1
        BY DEF One, HeapKinds, Bodies
    <2>2. Cnt(d, HeapKinds) \in Nat /\ Cnt(c, HeapKinds) = Cnt(d, HeapKinds) + 1
        BY <2>1, CntFront
    <2>3. Len(sa) \in Nat
        OBVIOUS
    <2> QED
        BY <2>2, <2>3 DEF Extra
<1> HIDE DEF d
\* What was kept at the call or before still is.
<1>8. ASSUME NEW p \in Nat, p >= 1, p <= Len(c), NEW s \in Seq(ScopeType), Kept(s, c, sa, p)
      PROVE  Kept(s, d, sb, p)
    <2>1. AlikeTo(c, d, p)
        BY <1>8, AlikeFront DEF d
    <2>2. p <= Len(d) + 1
        BY <1>5, <1>8
    <2>3. \A i \in DOMAIN s : \A n \in DOMAIN s[i] : \A o \in DOMAIN sa \cap DOMAIN sb :
              s[i][n].addr \in sa[o] => s[i][n].addr \in sb[o]
        BY DEF Retains
    <2> QED
        BY <1>5, <1>7, <1>8, <2>1, <2>2, <2>3, KeptOn
<1>9. Kept(Last(sv), d, sb, Len(d) + 1)
    <2>1. Kept(Last(sv), c, sa, Len(c))
        BY <1>2, <1>3, <1>6
    <2>2. Len(c) <= Len(c) /\ Len(d) + 1 = Len(c)
        BY <1>5
    <2> QED
        BY <1>5, <1>6, <1>8, <2>1, <2>2
<1>10. ASSUME NEW k \in DOMAIN w
       PROVE  Kept(w[k], d, sb, jdx[k])
    <2> DEFINE p == idx[k]
    <2>1. k \in DOMAIN sv /\ w[k] = sv[k] /\ jdx[k] = p
        BY <1>6, <1>10
    <2>2. p \in DOMAIN c /\ Kept(sv[k], c, sa, p) /\ sv[k] \in Seq(ScopeType)
        BY <2>1, <1>2
    <2> HIDE DEF p
    <2>3. p \in Nat /\ p >= 1 /\ p <= Len(c)
        BY <2>2, <1>5
    <2>4. Kept(sv[k], d, sb, p)
        BY <2>2, <2>3, <1>8
    <2> QED
        BY <2>1, <2>4
<1> HIDE DEF w, jdx
<1>11. Safe(d, Last(sv), sb, w)
    BY <1>3, <1>9, <1>10 DEF Safe
<1> QED
    BY <1>4, <1>11 DEF Good, d, w

-----------------------------------------------------------------------------
(* The steps by their shape: the constructs stay, one begins, one ends, or *)
(* one becomes another.                                                    *)

LEMMA SinceEnd ==
    ASSUME NEW c \in Seq(FrameType), NEW ks
    PROVE  Since(c, ks, Len(c) + 1) = 0
<1>1. Len(c) + 1 \in Nat
    OBVIOUS
<1>2. Before(c, ks, Len(c) + 1) \in Nat
    BY <1>1, BeforeNat
<1> QED
    BY <1>2 DEF Since

LEMMA SinceLast ==
    ASSUME NEW c \in Seq(FrameType), c # << >>, NEW ks
    PROVE  Since(c, ks, Len(c)) = One(c[Len(c)].k \in ks)
<1>1. Len(c) \in Nat /\ Len(c) >= 1
    OBVIOUS
<1>2. Before(c, ks, Len(c)) \in Nat
    BY <1>1, BeforeNat
<1>3. Before(c, ks, Len(c) + 1) = Before(c, ks, Len(c)) + One(c[Len(c)].k \in ks)
    BY <1>1, BeforeNext
<1>4. One(c[Len(c)].k \in ks) \in Nat
    BY DEF One
<1> QED
    BY <1>2, <1>3, <1>4 DEF Since

LEMMA GoodStay ==
    ASSUME NEW c \in Seq(FrameType), NEW d \in Seq(FrameType), Len(d) = Len(c),
           AlikeTo(c, d, Len(c) + 1),
           NEW t \in Seq(ScopeType), NEW u \in Seq(ScopeType), Len(u) = Len(t),
           NEW sa \in Seq(SUBSET Nat), NEW sb \in Seq(SUBSET Nat), Len(sb) = Len(sa),
           NEW sv \in Seq(Seq(ScopeType)), Good(c, t, sa, sv), Retains(sa, sb),
           NEW z, NEW a, NewBlock(sa, sb, u, a), Carries(t, u, Len(t), Len(t), z, a)
    PROVE  Good(d, u, sb, sv)
<1> DEFINE r == Len(c) + 1
<1>1. Len(c) \in Nat /\ Len(t) \in Nat /\ Len(sa) \in Nat
    OBVIOUS
<1>2. Turns(c, d, r)
    BY <1>1 DEF Turns, NoCall
<1>3. \A ks : Since(c, ks, r) = 0 /\ Since(d, ks, r) = 0
    BY SinceEnd
<1> HIDE DEF r
<1>4. Balanced(c, d, r, Len(t), Len(u), Len(sa), Len(sb))
    BY <1>1, <1>3 DEF Balanced
<1>5. Len(u) - Since(d, TableKinds, r) = Len(t)
    BY <1>1, <1>3
<1>6. Carries(t, u, Len(u) - Since(d, TableKinds, r), Len(u), z, a)
    BY <1>5
<1> QED
    BY <1>2, <1>4, <1>6, GoodMove

LEMMA GoodPush ==
    ASSUME NEW c \in Seq(FrameType), NEW d \in Seq(FrameType), Len(d) = Len(c) + 1,
           AlikeTo(c, d, Len(c) + 1), d[Len(d)].k # "call",
           NEW t \in Seq(ScopeType), NEW u \in Seq(ScopeType),
           Len(u) = Len(t) + One(d[Len(d)].k \in TableKinds),
           NEW sa \in Seq(SUBSET Nat), NEW sb \in Seq(SUBSET Nat),
           Len(sb) = Len(sa) + One(d[Len(d)].k \in HeapKinds),
           NEW sv \in Seq(Seq(ScopeType)), Good(c, t, sa, sv), Retains(sa, sb),
           NEW z, NEW a, NewBlock(sa, sb, u, a), Carries(t, u, Len(t), Len(u), z, a)
    PROVE  Good(d, u, sb, sv)
<1> DEFINE r == Len(c) + 1
<1>1. Len(c) \in Nat /\ Len(t) \in Nat /\ Len(sa) \in Nat /\ Len(d) = r
    OBVIOUS
<1>2. d # << >> /\ r \in Nat
    BY <1>1
<1>3. Turns(c, d, r)
    <2>1. NoCall(c, r, Len(c) + 1)
        BY <1>1 DEF NoCall
    <2>2. NoCall(d, r, Len(d) + 1)
        BY <1>1 DEF NoCall
    <2>3. r \in 1..(Len(c) + 1) /\ Len(d) \in {r - 1, r}
        BY <1>1
    <2> QED
        BY <2>1, <2>2, <2>3 DEF Turns
<1>4. \A ks : Since(c, ks, r) = 0 /\ Since(d, ks, r) = One(d[Len(d)].k \in ks)
    BY <1>1, <1>2, SinceEnd, SinceLast
<1>5. One(d[Len(d)].k \in TableKinds) \in Nat /\ One(d[Len(d)].k \in HeapKinds) \in Nat
    BY DEF One
<1> HIDE DEF r
<1>6. Balanced(c, d, r, Len(t), Len(u), Len(sa), Len(sb))
    <2>1. /\ Since(c, HeapKinds, r) = 0 /\ Since(c, TableKinds, r) = 0
          /\ Since(d, HeapKinds, r) = One(d[Len(d)].k \in HeapKinds)
          /\ Since(d, TableKinds, r) = One(d[Len(d)].k \in TableKinds)
        BY <1>4
    <2>2. /\ Len(sb) - Since(d, HeapKinds, r) = Len(sa) /\ Len(sa) - Since(c, HeapKinds, r) = Len(sa)
          /\ Len(u) - Since(d, TableKinds, r) = Len(t) /\ Len(t) - Since(c, TableKinds, r) = Len(t)
        <3>1. \A p, q \in Nat : (p + q) - q = p /\ p - 0 = p
            OBVIOUS
        <3>2. /\ (Len(sa) + One(d[Len(d)].k \in HeapKinds)) - One(d[Len(d)].k \in HeapKinds) = Len(sa)
              /\ (Len(t) + One(d[Len(d)].k \in TableKinds)) - One(d[Len(d)].k \in TableKinds) = Len(t)
              /\ Len(sa) - 0 = Len(sa) /\ Len(t) - 0 = Len(t)
            BY <3>1, <1>1, <1>5, Zenon
        <3> QED
            BY <3>2, <2>1, Zenon
    <2>3. Len(sa) <= Len(sa) /\ Len(t) - Len(t) <= Len(sa) - Len(sa)
        BY <1>1
    <2> QED
        BY <2>2, <2>3 DEF Balanced
<1>7. Len(u) - Since(d, TableKinds, r) = Len(t)
    BY <1>1, <1>4, <1>5
<1>8. Carries(t, u, Len(u) - Since(d, TableKinds, r), Len(u), z, a)
    BY <1>7
<1> QED
    BY <1>3, <1>6, <1>8, GoodMove

\* What the construct pushed is popped, or both a table and a scope stay behind.
LEMMA GoodPop ==
    ASSUME NEW c \in Seq(FrameType), c # << >>, NEW d \in Seq(FrameType), Len(d) = Len(c) - 1,
           AlikeTo(c, d, Len(c)), c[Len(c)].k # "call",
           NEW t \in Seq(ScopeType), NEW u \in Seq(ScopeType), NEW x \in Nat, Len(u) = Len(t) - x,
           NEW sa \in Seq(SUBSET Nat), NEW sb \in Seq(SUBSET Nat), NEW y \in Nat, Len(sb) = Len(sa) - y,
           y <= One(c[Len(c)].k \in HeapKinds),
           One(c[Len(c)].k \in TableKinds) - x <= One(c[Len(c)].k \in HeapKinds) - y,
           NEW sv \in Seq(Seq(ScopeType)), Good(c, t, sa, sv), Retains(sa, sb),
           NEW z, NEW a, NewBlock(sa, sb, u, a), Carries(t, u, Len(u), Len(u), z, a)
    PROVE  Good(d, u, sb, sv)
<1> DEFINE r == Len(c)
<1>1. Len(c) \in Nat /\ Len(c) >= 1 /\ Len(t) \in Nat /\ Len(sa) \in Nat /\ Len(u) \in Nat
    OBVIOUS
<1>2. Len(d) + 1 = r /\ r \in Nat
    BY <1>1
<1>3. Turns(c, d, r)
    <2>1. NoCall(c, r, Len(c) + 1)
        BY <1>1 DEF NoCall
    <2>2. NoCall(d, r, Len(d) + 1)
        BY <1>1 DEF NoCall
    <2>3. r \in 1..(Len(c) + 1) /\ Len(d) \in {r - 1, r}
        BY <1>1
    <2> QED
        BY <2>1, <2>2, <2>3 DEF Turns
<1>4. \A ks : Since(d, ks, r) = 0 /\ Since(c, ks, r) = One(c[Len(c)].k \in ks)
    BY <1>1, <1>2, SinceEnd, SinceLast
<1>5. One(c[Len(c)].k \in TableKinds) \in Nat /\ One(c[Len(c)].k \in HeapKinds) \in Nat
    BY DEF One
<1> HIDE DEF r
<1>6. Balanced(c, d, r, Len(t), Len(u), Len(sa), Len(sb))
    <2> DEFINE h == One(c[Len(c)].k \in HeapKinds)
               g == One(c[Len(c)].k \in TableKinds)
    <2>1. h \in Nat /\ g \in Nat /\ y <= h /\ g - x <= h - y
        BY <1>5
    <2>2. /\ Since(c, HeapKinds, r) = h /\ Since(d, HeapKinds, r) = 0
          /\ Since(c, TableKinds, r) = g /\ Since(d, TableKinds, r) = 0
        BY <1>4
    <2> HIDE DEF h, g
    <2>3. Len(sa) - h <= (Len(sa) - y) - 0
        BY <1>1, <2>1
    <2>4. ((Len(t) - x) - 0) - (Len(t) - g) <= ((Len(sa) - y) - 0) - (Len(sa) - h)
        BY <1>1, <2>1
    <2> QED
        BY <2>2, <2>3, <2>4 DEF Balanced
<1>7. Len(u) - Since(d, TableKinds, r) = Len(u)
    BY <1>1, <1>4, <1>5
<1>8. Carries(t, u, Len(u) - Since(d, TableKinds, r), Len(u), z, a)
    BY <1>7
<1> QED
    BY <1>3, <1>6, <1>8, GoodMove

LEMMA GoodBecome ==
    ASSUME NEW c \in Seq(FrameType), c # << >>, NEW d \in Seq(FrameType), Len(d) = Len(c),
           AlikeTo(c, d, Len(c)), c[Len(c)].k # "call", d[Len(d)].k # "call",
           NEW t \in Seq(ScopeType), NEW u \in Seq(ScopeType),
           Len(u) - One(d[Len(d)].k \in TableKinds) = Len(t) - One(c[Len(c)].k \in TableKinds),
           NEW sa \in Seq(SUBSET Nat), NEW sb \in Seq(SUBSET Nat),
           Len(sb) - One(d[Len(d)].k \in HeapKinds) = Len(sa) - One(c[Len(c)].k \in HeapKinds),
           NEW sv \in Seq(Seq(ScopeType)), Good(c, t, sa, sv), Retains(sa, sb),
           NEW z, NEW a, NewBlock(sa, sb, u, a),
           Carries(t, u, Len(u) - One(d[Len(d)].k \in TableKinds), Len(u), z, a)
    PROVE  Good(d, u, sb, sv)
<1> DEFINE r == Len(c)
<1>1. /\ Len(c) \in Nat /\ Len(c) >= 1 /\ Len(t) \in Nat /\ Len(sa) \in Nat /\ Len(u) \in Nat
      /\ Len(sb) \in Nat
    OBVIOUS
<1>2. Len(d) = r /\ r \in Nat /\ d # << >>
    BY <1>1
<1>3. Turns(c, d, r)
    <2>1. NoCall(c, r, Len(c) + 1)
        BY <1>1 DEF NoCall
    <2>2. NoCall(d, r, Len(d) + 1)
        BY <1>1 DEF NoCall
    <2>3. r \in 1..(Len(c) + 1) /\ Len(d) \in {r - 1, r}
        BY <1>1
    <2> QED
        BY <2>1, <2>2, <2>3 DEF Turns
<1>4. \A ks : Since(d, ks, r) = One(d[Len(d)].k \in ks) /\ Since(c, ks, r) = One(c[Len(c)].k \in ks)
    BY <1>1, <1>2, SinceLast
<1>5. /\ One(c[Len(c)].k \in TableKinds) \in Nat /\ One(c[Len(c)].k \in HeapKinds) \in Nat
      /\ One(d[Len(d)].k \in TableKinds) \in Nat /\ One(d[Len(d)].k \in HeapKinds) \in Nat
    BY DEF One
<1> HIDE DEF r
<1>6. Balanced(c, d, r, Len(t), Len(u), Len(sa), Len(sb))
    BY <1>1, <1>4, <1>5, SMTT(30) DEF Balanced
<1>7. Carries(t, u, Len(u) - Since(d, TableKinds, r), Len(u), z, a)
    BY <1>4
<1> QED
    BY <1>3, <1>6, <1>7, GoodMove

-----------------------------------------------------------------------------
(* What the steps do to the tables and to the heap's scopes.               *)

LEMMA CarriesSame ==
    ASSUME NEW t \in Seq(ScopeType), NEW q, NEW z, NEW a
    PROVE  Carries(t, t, Len(t), q, z, a)
BY DEF Carries

LEMMA CarriesFront ==
    ASSUME NEW t \in Seq(ScopeType), t # << >>, NEW q, NEW z, NEW a
    PROVE  Carries(t, Front(t), Len(t) - 1, q, z, a)
<1>1. /\ DOMAIN Front(t) = 1..(Len(t) - 1) /\ Len(t) \in Nat /\ DOMAIN t = 1..Len(t)
      /\ \A i \in 1..(Len(t) - 1) : Front(t)[i] = t[i] /\ i \in 1..Len(t)
    BY FrontAppend
<1>2. \A i \in 1..(Len(t) - 1) : i <= Len(t) - 1
    BY <1>1
<1> QED
    BY <1>1, <1>2 DEF Carries

LEMMA CarriesDefine ==
    ASSUME NEW t \in Seq(ScopeType), NEW q \in DOMAIN t, NEW z, NEW a, NEW m,
           NEW u, u = [t EXCEPT ![q] = Extend(@, z, Entry(a, m))]
    PROVE  Carries(t, u, Len(t), q, z, a)
<1> SUFFICES ASSUME NEW i \in DOMAIN u, NEW n \in DOMAIN u[i]
             PROVE  \/ /\ i \in DOMAIN t /\ i <= Len(t) /\ n \in DOMAIN t[i]
                       /\ u[i][n].addr = t[i][n].addr
                    \/ i = q /\ n = z /\ u[i][n].addr = a
    BY DEF Carries
<1>1. i \in DOMAIN t /\ i <= Len(t)
    OBVIOUS
<1>2. CASE i # q
    BY <1>1, <1>2
<1>3. CASE i = q
    <2>1. u[i] = Extend(t[i], z, Entry(a, m))
        BY <1>1, <1>3
    <2>2. DOMAIN u[i] = DOMAIN t[i] \cup {z}
        BY <2>1 DEF Extend
    <2>3. CASE n = z
        <3>1. u[i][n] = Entry(a, m)
            BY <2>1, <2>2, <2>3 DEF Extend
        <3> QED
            BY <3>1, <1>3, <2>3 DEF Entry
    <2>4. CASE n # z
        <3>1. u[i][n] = t[i][n] /\ n \in DOMAIN t[i]
            BY <2>1, <2>2, <2>4 DEF Extend
        <3> QED
            BY <3>1, <1>1
    <2> QED
        BY <2>3, <2>4
<1> QED
    BY <1>2, <1>3

\* A new table on top adds nothing of its own.
LEMMA CarriesAppend ==
    ASSUME NEW t \in Seq(ScopeType), NEW u, NEW q, NEW z, NEW a,
           Carries(Append(t, << >>), u, Len(t) + 1, q, z, a)
    PROVE  Carries(t, u, Len(t), q, z, a)
<1> DEFINE b == Append(t, << >>)
<1>1. /\ Len(t) \in Nat /\ DOMAIN t = 1..Len(t) /\ DOMAIN b = 1..(Len(t) + 1)
      /\ \A i \in 1..Len(t) : b[i] = t[i]
      /\ b[Len(t) + 1] = << >>
    OBVIOUS
<1>2. DOMAIN << >> = {}
    OBVIOUS
<1>3. Carries(b, u, Len(t) + 1, q, z, a)
    OBVIOUS
<1> HIDE DEF b
<1> SUFFICES ASSUME NEW i \in DOMAIN u, NEW n \in DOMAIN u[i]
             PROVE  \/ /\ i \in DOMAIN t /\ i <= Len(t) /\ n \in DOMAIN t[i]
                       /\ u[i][n].addr = t[i][n].addr
                    \/ i = q /\ n = z /\ u[i][n].addr = a
    BY DEF Carries
<1>4. CASE /\ i \in DOMAIN b /\ i <= Len(t) + 1 /\ n \in DOMAIN b[i]
           /\ u[i][n].addr = b[i][n].addr
    <2>1. i # Len(t) + 1
        BY <1>1, <1>2, <1>4
    <2>2. i \in 1..Len(t) /\ i <= Len(t)
        BY <1>1, <1>4, <2>1
    <2> QED
        BY <1>1, <1>4, <2>2
<1> QED
    BY <1>3, <1>4 DEF Carries

\* A call's tables: the outermost one and a new one.
LEMMA CarriesCall ==
    ASSUME NEW t \in Seq(ScopeType), t # << >>, NEW u, NEW z, NEW a,
           Carries(<<Head(t), << >> >>, u, 2, 2, z, a)
    PROVE  Carries(t, u, 1, 2, z, a)
<1> DEFINE b == <<Head(t), << >> >>
<1>1. DOMAIN b = 1..2 /\ b[1] = t[1] /\ b[2] = << >> /\ 1 \in DOMAIN t
    OBVIOUS
<1>2. DOMAIN << >> = {}
    OBVIOUS
<1>3. Carries(b, u, 2, 2, z, a)
    OBVIOUS
<1> HIDE DEF b
<1> SUFFICES ASSUME NEW i \in DOMAIN u, NEW n \in DOMAIN u[i]
             PROVE  \/ /\ i \in DOMAIN t /\ i <= 1 /\ n \in DOMAIN t[i]
                       /\ u[i][n].addr = t[i][n].addr
                    \/ i = 2 /\ n = z /\ u[i][n].addr = a
    BY DEF Carries
<1>4. CASE i \in DOMAIN b /\ n \in DOMAIN b[i] /\ u[i][n].addr = b[i][n].addr
    <2>1. i # 2
        BY <1>1, <1>2, <1>4
    <2>2. i = 1
        BY <1>1, <1>4, <2>1
    <2> QED
        BY <1>1, <1>4, <2>2
<1> QED
    BY <1>3, <1>4 DEF Carries

\* -1 is no address: the steps that bind nothing.
LEMMA NoNewBlock ==
    ASSUME NEW sa \in Seq(SUBSET Nat), NEW sb, NEW u \in Seq(ScopeType)
    PROVE  NewBlock(sa, sb, u, -1)
<1>1. \A o \in DOMAIN sa : -1 \notin sa[o]
    <2>1. \A o \in DOMAIN sa : sa[o] \subseteq Nat
        OBVIOUS
    <2>2. -1 \notin Nat
        OBVIOUS
    <2> QED
        BY <2>1, <2>2
<1>2. ASSUME NEW i \in DOMAIN u, NEW n \in DOMAIN u[i]
      PROVE  u[i][n].addr # -1
    <2>1. u[i] \in ScopeType
        OBVIOUS
    <2>2. PICK D \in SUBSET (Names \cup {UnsafeContext}) : u[i] \in [D -> EntryType]
        BY <2>1 DEF ScopeType
    <2>3. u[i][n].addr \in Nat
        BY <1>2, <2>2 DEF EntryType
    <2> QED
        BY <2>3
<1> QED
    BY <1>1, <1>2 DEF NewBlock

LEMMA FreshBlock ==
    ASSUME HeapOK, NEW a, a \notin DOMAIN metadata
    PROVE  \A o \in DOMAIN scope_allocations : a \notin scope_allocations[o]
BY DEF HeapOK, OwnedOnce

\* The scopes after an allocation: s is the stack with, maybe, a new scope.
LEMMA AllocRetains ==
    ASSUME NEW sa \in Seq(SUBSET Nat), NEW s \in Seq(SUBSET Nat), s # << >>, NEW sb, NEW a,
           s = sa \/ s = Append(sa, {}), sb = [s EXCEPT ![Len(s)] = @ \cup {a}]
    PROVE  Retains(sa, sb) /\ a \in sb[Len(sb)]
<1>1. /\ DOMAIN sb = DOMAIN s /\ Len(sb) = Len(s) /\ Len(s) \in DOMAIN s /\ Len(s) \in Nat
      /\ sb # << >>
    OBVIOUS
<1>2. a \in sb[Len(sb)] /\ \A o \in DOMAIN s : s[o] \subseteq sb[o]
    BY <1>1
<1>3. \A o \in DOMAIN sa : s[o] = sa[o]
    OBVIOUS
<1> QED
    BY <1>1, <1>2, <1>3 DEF Retains

LEMMA AllocFresh ==
    ASSUME Inv, NEW v \in Vals, NEW a, NEW s,
           s = scope_allocations \/ s = Append(scope_allocations, {}), alloc(v, a, s)
    PROVE  /\ Retains(scope_allocations, scope_allocations')
           /\ \A u : NewBlock(scope_allocations, scope_allocations', u, a)
<1>1. /\ HeapOK /\ HeapInv /\ scope_allocations \in Seq(SUBSET Nat) /\ scope_allocations # << >>
    BY InvFacts DEF HeapOK
<1>2. s \in Seq(SUBSET Nat) /\ s # << >>
    BY <1>1
<1>3. a \notin DOMAIN metadata /\ scope_allocations' = [s EXCEPT ![Len(s)] = @ \cup {a}]
    BY <1>1, <1>2, AllocInv
<1>4. /\ Retains(scope_allocations, scope_allocations')
      /\ a \in scope_allocations'[Len(scope_allocations')]
    BY <1>1, <1>2, <1>3, AllocRetains
<1>5. \A o \in DOMAIN scope_allocations : a \notin scope_allocations[o]
    BY <1>1, <1>3, FreshBlock
<1> QED
    BY <1>4, <1>5 DEF NewBlock

LEMMA PushRetains ==
    ASSUME NEW sa \in Seq(SUBSET Nat)
    PROVE  Retains(sa, Append(sa, {}))
<1>1. Append(sa, {}) # << >> /\ \A o \in DOMAIN sa : Append(sa, {})[o] = sa[o]
    OBVIOUS
<1> QED
    BY <1>1 DEF Retains

LEMMA PopRetains ==
    ASSUME NEW sa \in Seq(SUBSET Nat), Len(sa) >= 2
    PROVE  Retains(sa, Front(sa)) /\ Len(Front(sa)) = Len(sa) - 1
<1>1. sa # << >>
    OBVIOUS
<1>2. /\ Len(Front(sa)) = Len(sa) - 1 /\ Front(sa) \in Seq(SUBSET Nat)
      /\ DOMAIN Front(sa) = 1..(Len(sa) - 1)
      /\ \A i \in 1..(Len(sa) - 1) : Front(sa)[i] = sa[i]
    BY <1>1, FrontAppend
<1>3. Front(sa) # << >>
    <2>1. Len(Front(sa)) >= 1
        BY <1>2
    <2> QED
        BY <1>2, <2>1
<1> QED
    BY <1>2, <1>3 DEF Retains

LEMMA OpenCarries ==
    ASSUME Inv, NEW base \in Seq(ScopeType), base # << >>, NEW B \in Bindings, NEW m \in BOOLEAN,
           Open(base, B, m)
    PROVE  /\ Retains(scope_allocations, scope_allocations')
           /\ \E z, a : /\ NewBlock(scope_allocations, scope_allocations', symbols', a)
                        /\ Carries(base, symbols', Len(base), Len(base), z, a)
<1>1. scope_allocations \in Seq(SUBSET Nat) /\ Len(base) \in DOMAIN base
    BY InvFacts
<1>2. CASE push_scope /\ symbols' = base
    <2>1. Retains(scope_allocations, scope_allocations')
        BY <1>1, <1>2, PushRetains DEF push_scope
    <2>2. NewBlock(scope_allocations, scope_allocations', symbols', -1)
        BY <1>1, <1>2, NoNewBlock
    <2>3. Carries(base, symbols', Len(base), Len(base), 0, -1)
        BY <1>2, CarriesSame
    <2> QED
        BY <2>1, <2>2, <2>3
<1>3. ASSUME NEW b \in B, NEW a, alloc(b.v, a, Append(scope_allocations, {})),
             Define(base, Len(base), b.n, Entry(a, m))
      PROVE  /\ Retains(scope_allocations, scope_allocations')
             /\ NewBlock(scope_allocations, scope_allocations', symbols', a)
             /\ Carries(base, symbols', Len(base), Len(base), b.n, a)
    <2>1. b.v \in Vals
        BY DEF Bindings
    <2>2. /\ Retains(scope_allocations, scope_allocations')
          /\ NewBlock(scope_allocations, scope_allocations', symbols', a)
        BY <1>3, <2>1, AllocFresh
    <2>3. symbols' = [base EXCEPT ![Len(base)] = Extend(@, b.n, Entry(a, m))]
        BY <1>3 DEF Define
    <2>4. Carries(base, symbols', Len(base), Len(base), b.n, a)
        BY <1>1, <2>3, CarriesDefine
    <2> QED
        BY <2>2, <2>4
<1> QED
    BY <1>2, <1>3 DEF Open

LEMMA EnterCarries ==
    ASSUME Inv, NEW B \in Bindings, NEW m \in BOOLEAN, Enter(B, m)
    PROVE  /\ Retains(scope_allocations, scope_allocations')
           /\ Len(scope_allocations') = Len(scope_allocations) + 1
           /\ Len(symbols') = Len(symbols) + 1
           /\ \E z, a : /\ NewBlock(scope_allocations, scope_allocations', symbols', a)
                        /\ Carries(symbols, symbols', Len(symbols), Len(symbols'), z, a)
<1> DEFINE base == Append(symbols, << >>)
<1>1. symbols \in Seq(ScopeType)
    BY InvFacts
<1>2. base \in Seq(ScopeType) /\ base # << >> /\ Len(base) = Len(symbols) + 1
    BY <1>1, EmptyScope
<1>3. Open(base, B, m)
    BY DEF Enter
<1>4. Len(scope_allocations') = Len(scope_allocations) + 1 /\ Len(symbols') = Len(symbols) + 1
    BY EnterTyped
<1> HIDE DEF base
<1>5. Retains(scope_allocations, scope_allocations')
    BY <1>2, <1>3, OpenCarries
<1>6. PICK z, a : /\ NewBlock(scope_allocations, scope_allocations', symbols', a)
                  /\ Carries(base, symbols', Len(base), Len(base), z, a)
    BY <1>2, <1>3, OpenCarries
<1>7. Carries(Append(symbols, << >>), symbols', Len(symbols) + 1, Len(symbols'), z, a)
    BY <1>2, <1>4, <1>6 DEF base
<1>8. Carries(symbols, symbols', Len(symbols), Len(symbols'), z, a)
    BY <1>1, <1>7, CarriesAppend
<1> QED
    BY <1>4, <1>5, <1>6, <1>8

LEMMA LeaveCarries ==
    ASSUME Inv, Leave, ctl # << >>, Top.k \in HeapKinds
    PROVE  /\ Retains(scope_allocations, scope_allocations')
           /\ Len(scope_allocations') = Len(scope_allocations) - 1
           /\ Len(symbols') = Len(symbols) - 1
           /\ NewBlock(scope_allocations, scope_allocations', symbols', -1)
           /\ Carries(symbols, symbols', Len(symbols'), Len(symbols'), 0, -1)
<1>1. /\ symbols \in Seq(ScopeType) /\ symbols # << >> /\ scope_allocations \in Seq(SUBSET Nat)
      /\ Len(scope_allocations) \in Nat /\ Len(scope_allocations) >= 1 + One(Top.k \in HeapKinds)
    BY InvFacts
<1>2. symbols' = Front(symbols) /\ scope_allocations' = Front(scope_allocations)
    BY DEF Leave, pop_scope
<1>3. /\ Len(scope_allocations') = Len(scope_allocations) - 1 /\ Len(symbols') = Len(symbols) - 1
      /\ symbols' \in Seq(ScopeType)
    BY LeaveTyped
<1>4. Len(scope_allocations) >= 2
    BY <1>1 DEF One
<1>5. Retains(scope_allocations, scope_allocations')
    BY <1>1, <1>2, <1>4, PopRetains
<1>6. NewBlock(scope_allocations, scope_allocations', symbols', -1)
    BY <1>1, <1>3, NoNewBlock
<1>7. Carries(symbols, symbols', Len(symbols'), Len(symbols'), 0, -1)
    BY <1>1, <1>2, <1>3, CarriesFront
<1> QED
    BY <1>3, <1>5, <1>6, <1>7

-----------------------------------------------------------------------------
(* The steps of the specification.                                         *)

\* The invariant that the theorems below add to Inv.
Bound == Good(ctl, symbols, scope_allocations, saved_symbol_stacks)

LEMMA TypedAfter ==
    ASSUME Inv'
    PROVE  /\ ctl' \in Seq(FrameType) /\ symbols' \in Seq(ScopeType)
           /\ scope_allocations' \in Seq(SUBSET Nat)
           /\ saved_symbol_stacks' \in Seq(Seq(ScopeType))
BY DEF Inv, StackOK, HeapOK, HeapInv, HeapTypeOK

LEMMA TopIsLast ==
    ASSUME Inv, ctl # << >>
    PROVE  /\ Top = ctl[Len(ctl)] /\ Top \in FrameType
           /\ Len(ctl) \in Nat /\ Len(ctl) >= 1 /\ Len(ctl) \in DOMAIN ctl
BY InvFacts, FrontAppend DEF Top

\* Nothing that Bound looks at changes but the innermost frame, and the new
\* one counts the same.
LEMMA TouchBound ==
    ASSUME Inv, Inv', Bound, UNCHANGED <<symbols, saved_symbol_stacks>>,
           scope_allocations' = scope_allocations, Len(ctl') = Len(ctl),
           AlikeTo(ctl, ctl', Len(ctl) + 1)
    PROVE  Bound'
<1>1. /\ ctl \in Seq(FrameType) /\ symbols \in Seq(ScopeType) /\ ctl' \in Seq(FrameType)
      /\ scope_allocations \in Seq(SUBSET Nat) /\ saved_symbol_stacks \in Seq(Seq(ScopeType))
      /\ scope_allocations # << >>
    BY InvFacts, TypedAfter
<1>2. Retains(scope_allocations, scope_allocations)
    BY <1>1 DEF Retains
<1>3. NewBlock(scope_allocations, scope_allocations, symbols, -1)
    BY <1>1, NoNewBlock
<1>4. Carries(symbols, symbols, Len(symbols), Len(symbols), 0, -1)
    BY <1>1, CarriesSame
<1>5. Good(ctl, symbols, scope_allocations, saved_symbol_stacks)
    BY DEF Bound
<1>6. Good(ctl', symbols, scope_allocations, saved_symbol_stacks)
    BY <1>1, <1>2, <1>3, <1>4, <1>5, GoodStay
<1> QED
    BY <1>6 DEF Bound

\* A block is allocated in the scope on top and bound in the table on top, or
\* by nobody (ptr_new).
LEMMA BindBound ==
    ASSUME Inv, Inv', Bound, NEW v \in Vals, NEW a, alloc(v, a, scope_allocations),
           NEW z, NEW m,
           UNCHANGED symbols \/ Define(symbols, Len(symbols), z, Entry(a, m)),
           UNCHANGED <<saved_symbol_stacks, ctl>>
    PROVE  Bound'
<1>1. /\ ctl \in Seq(FrameType) /\ symbols \in Seq(ScopeType) /\ symbols' \in Seq(ScopeType)
      /\ scope_allocations \in Seq(SUBSET Nat) /\ saved_symbol_stacks \in Seq(Seq(ScopeType))
      /\ scope_allocations # << >> /\ scope_allocations' \in Seq(SUBSET Nat)
      /\ HeapOK /\ symbols # << >>
    BY InvFacts, TypedAfter
<1>2. Len(scope_allocations') = Len(scope_allocations)
    BY <1>1, AllocHere
<1>3. /\ Retains(scope_allocations, scope_allocations')
      /\ NewBlock(scope_allocations, scope_allocations', symbols', a)
    BY AllocFresh
<1>4. /\ Len(symbols') = Len(symbols)
      /\ Carries(symbols, symbols', Len(symbols), Len(symbols), z, a)
    <2>1. CASE symbols' = symbols
        BY <2>1, <1>1, CarriesSame
    <2>2. CASE Define(symbols, Len(symbols), z, Entry(a, m))
        <3>1. Len(symbols) \in DOMAIN symbols
            BY <1>1
        <3>2. symbols' = [symbols EXCEPT ![Len(symbols)] = Extend(@, z, Entry(a, m))]
            BY <2>2 DEF Define
        <3>3. Carries(symbols, symbols', Len(symbols), Len(symbols), z, a)
            BY <1>1, <3>1, <3>2, CarriesDefine
        <3>4. Len(symbols') = Len(symbols)
            BY <1>1, <3>2
        <3> QED
            BY <3>3, <3>4
    <2> QED
        BY <2>1, <2>2
<1>5. Good(ctl, symbols, scope_allocations, saved_symbol_stacks)
    BY DEF Bound
<1>6. AlikeTo(ctl, ctl, Len(ctl) + 1)
    BY AlikeSame
<1>7. Good(ctl, symbols', scope_allocations', saved_symbol_stacks)
    BY <1>1, <1>2, <1>3, <1>4, <1>5, <1>6, GoodStay
<1> QED
    BY <1>7 DEF Bound

\* A construct with a scope and a table begins; the frames below it may change
\* phase.
LEMMA EnterBound ==
    ASSUME Inv, Inv', Bound, NEW B \in Bindings, NEW m \in BOOLEAN, Enter(B, m),
           Len(ctl') = Len(ctl) + 1, AlikeTo(ctl, ctl', Len(ctl) + 1),
           ctl'[Len(ctl')].k \in HeapKinds \cap TableKinds, UNCHANGED saved_symbol_stacks
    PROVE  Bound'
<1>1. /\ ctl \in Seq(FrameType) /\ symbols \in Seq(ScopeType) /\ symbols' \in Seq(ScopeType)
      /\ scope_allocations \in Seq(SUBSET Nat) /\ saved_symbol_stacks \in Seq(Seq(ScopeType))
      /\ scope_allocations' \in Seq(SUBSET Nat) /\ ctl' \in Seq(FrameType)
    BY InvFacts, TypedAfter
<1>2. /\ Retains(scope_allocations, scope_allocations')
      /\ Len(scope_allocations') = Len(scope_allocations) + 1 /\ Len(symbols') = Len(symbols) + 1
    BY EnterCarries
<1>3. PICK z, a : /\ NewBlock(scope_allocations, scope_allocations', symbols', a)
                  /\ Carries(symbols, symbols', Len(symbols), Len(symbols'), z, a)
    BY EnterCarries
<1>4. /\ One(ctl'[Len(ctl')].k \in TableKinds) = 1 /\ One(ctl'[Len(ctl')].k \in HeapKinds) = 1
      /\ ctl'[Len(ctl')].k # "call"
    BY DEF One, TableKinds, Bodies
<1>5. Good(ctl, symbols, scope_allocations, saved_symbol_stacks)
    BY DEF Bound
<1>6. /\ Len(symbols') = Len(symbols) + One(ctl'[Len(ctl')].k \in TableKinds)
      /\ Len(scope_allocations') = Len(scope_allocations) + One(ctl'[Len(ctl')].k \in HeapKinds)
    BY <1>2, <1>4
<1>7. Good(ctl', symbols', scope_allocations', saved_symbol_stacks)
    BY <1>1, <1>2, <1>3, <1>4, <1>5, <1>6, GoodPush
<1> QED
    BY <1>7 DEF Bound

\* It ends.
LEMMA LeaveBound ==
    ASSUME Inv, Inv', Bound, Leave, ctl # << >>, Top.k \in HeapKinds \cap TableKinds,
           Len(ctl') = Len(ctl) - 1, AlikeTo(ctl, ctl', Len(ctl)), UNCHANGED saved_symbol_stacks
    PROVE  Bound'
<1>1. /\ ctl \in Seq(FrameType) /\ symbols \in Seq(ScopeType) /\ symbols' \in Seq(ScopeType)
      /\ scope_allocations \in Seq(SUBSET Nat) /\ saved_symbol_stacks \in Seq(Seq(ScopeType))
      /\ scope_allocations' \in Seq(SUBSET Nat) /\ ctl' \in Seq(FrameType)
    BY InvFacts, TypedAfter
<1>2. /\ Retains(scope_allocations, scope_allocations')
      /\ Len(scope_allocations') = Len(scope_allocations) - 1 /\ Len(symbols') = Len(symbols) - 1
      /\ NewBlock(scope_allocations, scope_allocations', symbols', -1)
      /\ Carries(symbols, symbols', Len(symbols'), Len(symbols'), 0, -1)
    BY LeaveCarries
<1>3. Top = ctl[Len(ctl)]
    BY TopIsLast
<1>4. One(Top.k \in TableKinds) = 1 /\ One(Top.k \in HeapKinds) = 1 /\ Top.k # "call"
    BY DEF One, TableKinds, Bodies
<1>5. Good(ctl, symbols, scope_allocations, saved_symbol_stacks)
    BY DEF Bound
<1>6. /\ 1 <= One(ctl[Len(ctl)].k \in HeapKinds) /\ ctl[Len(ctl)].k # "call" /\ 1 \in Nat
      /\ One(ctl[Len(ctl)].k \in TableKinds) - 1 <= One(ctl[Len(ctl)].k \in HeapKinds) - 1
    BY <1>3, <1>4
<1>7. Good(ctl', symbols', scope_allocations', saved_symbol_stacks)
    BY <1>1, <1>2, <1>5, <1>6, GoodPop
<1> QED
    BY <1>7 DEF Bound

\* A construct ends, in order or with an error, and leaves tables and scopes
\* as they are.
LEMMA GoodDrop ==
    ASSUME NEW c \in Seq(FrameType), c # << >>, Last(c).k # "call",
           Last(c).k \in TableKinds => Last(c).k \in HeapKinds,
           NEW t \in Seq(ScopeType), NEW sa \in Seq(SUBSET Nat), sa # << >>,
           NEW sv \in Seq(Seq(ScopeType)), Good(c, t, sa, sv)
    PROVE  Good(Front(c), t, sa, sv)
<1>0. Len(c) \in Nat /\ Len(t) \in Nat /\ Len(sa) \in Nat
    OBVIOUS
<1>1. Front(c) \in Seq(FrameType) /\ Len(Front(c)) = Len(c) - 1 /\ Last(c) = c[Len(c)]
    BY FrontAppend
<1>2. AlikeTo(c, Front(c), Len(c))
    <2>1. Len(c) <= Len(c)
        BY <1>0
    <2> QED
        BY <1>0, <2>1, AlikeFront
<1>3. Retains(sa, sa) /\ NewBlock(sa, sa, t, -1) /\ Carries(t, t, Len(t), Len(t), 0, -1)
    BY NoNewBlock, CarriesSame DEF Retains
<1>4. /\ 0 <= One(c[Len(c)].k \in HeapKinds) /\ c[Len(c)].k # "call" /\ 0 \in Nat
      /\ One(c[Len(c)].k \in TableKinds) - 0 <= One(c[Len(c)].k \in HeapKinds) - 0
      /\ Len(t) = Len(t) - 0 /\ Len(sa) = Len(sa) - 0
    BY <1>0, <1>1 DEF One
<1> QED
    BY <1>1, <1>2, <1>3, <1>4, GoodPop

LEMMA DropBound ==
    ASSUME Inv, Bound, ctl # << >>, Top.k # "call", Top.k \in TableKinds => Top.k \in HeapKinds,
           ctl' = Front(ctl), UNCHANGED <<heapVars, symbols, saved_symbol_stacks>>
    PROVE  Bound'
<1>1. /\ ctl \in Seq(FrameType) /\ symbols \in Seq(ScopeType)
      /\ scope_allocations \in Seq(SUBSET Nat) /\ saved_symbol_stacks \in Seq(Seq(ScopeType))
      /\ scope_allocations # << >>
    BY InvFacts
<1>2. Good(ctl, symbols, scope_allocations, saved_symbol_stacks)
    BY DEF Bound
<1>3. Good(Front(ctl), symbols, scope_allocations, saved_symbol_stacks)
    BY <1>1, <1>2, GoodDrop DEF Top
<1> QED
    BY <1>3 DEF Bound, heapVars

\* A construct with neither scope nor table begins.
LEMMA HeadBound ==
    ASSUME Inv, Inv', Bound, Len(ctl') = Len(ctl) + 1, AlikeTo(ctl, ctl', Len(ctl) + 1),
           ctl'[Len(ctl')].k \notin HeapKinds \cup TableKinds,
           UNCHANGED <<heapVars, symbols, saved_symbol_stacks>>
    PROVE  Bound'
<1>1. /\ ctl \in Seq(FrameType) /\ symbols \in Seq(ScopeType) /\ Len(symbols) \in Nat
      /\ scope_allocations \in Seq(SUBSET Nat) /\ saved_symbol_stacks \in Seq(Seq(ScopeType))
      /\ scope_allocations # << >> /\ ctl' \in Seq(FrameType) /\ Len(scope_allocations) \in Nat
    BY InvFacts, TypedAfter
<1>2. /\ Retains(scope_allocations, scope_allocations)
      /\ NewBlock(scope_allocations, scope_allocations, symbols, -1)
      /\ Carries(symbols, symbols, Len(symbols), Len(symbols), 0, -1)
    BY <1>1, NoNewBlock, CarriesSame DEF Retains
<1>3. /\ One(ctl'[Len(ctl')].k \in TableKinds) = 0 /\ One(ctl'[Len(ctl')].k \in HeapKinds) = 0
      /\ ctl'[Len(ctl')].k # "call"
    BY DEF One, HeapKinds, Bodies
<1>4. Good(ctl, symbols, scope_allocations, saved_symbol_stacks)
    BY DEF Bound
<1>5. /\ Len(symbols) = Len(symbols) + One(ctl'[Len(ctl')].k \in TableKinds)
      /\ Len(scope_allocations) = Len(scope_allocations) + One(ctl'[Len(ctl')].k \in HeapKinds)
    BY <1>1, <1>3
<1>6. Good(ctl', symbols, scope_allocations, saved_symbol_stacks)
    BY <1>1, <1>2, <1>3, <1>4, <1>5, GoodPush
<1> QED
    BY <1>6 DEF Bound, heapVars

\* A construct without a scope becomes one with a scope, and back.
LEMMA EnterToBound ==
    ASSUME Inv, Inv', Bound, NEW B \in Bindings, NEW m \in BOOLEAN, Enter(B, m),
           ctl # << >>, Top.k \notin HeapKinds \cup TableKinds, NEW f \in FrameType,
           f.k \in HeapKinds \cap TableKinds, ctl' = [ctl EXCEPT ![Len(ctl)] = f],
           UNCHANGED saved_symbol_stacks
    PROVE  Bound'
<1>1. /\ ctl \in Seq(FrameType) /\ symbols \in Seq(ScopeType) /\ symbols' \in Seq(ScopeType)
      /\ scope_allocations \in Seq(SUBSET Nat) /\ saved_symbol_stacks \in Seq(Seq(ScopeType))
      /\ scope_allocations' \in Seq(SUBSET Nat) /\ ctl' \in Seq(FrameType)
      /\ Len(symbols) \in Nat /\ Len(scope_allocations) \in Nat
    BY InvFacts, TypedAfter
<1>2. /\ Retains(scope_allocations, scope_allocations')
      /\ Len(scope_allocations') = Len(scope_allocations) + 1 /\ Len(symbols') = Len(symbols) + 1
    BY EnterCarries
<1>3. PICK z, a : /\ NewBlock(scope_allocations, scope_allocations', symbols', a)
                  /\ Carries(symbols, symbols', Len(symbols), Len(symbols'), z, a)
    BY EnterCarries
<1>4. Top = ctl[Len(ctl)] /\ Len(ctl) \in Nat /\ Len(ctl) \in DOMAIN ctl
    BY TopIsLast
<1>5. Len(ctl') = Len(ctl) /\ ctl'[Len(ctl')] = f /\ AlikeTo(ctl, ctl', Len(ctl))
    <2>1. Len(ctl') = Len(ctl) /\ ctl'[Len(ctl)] = f /\ \A i \in 1..(Len(ctl) - 1) : ctl'[i] = ctl[i]
        BY <1>1, <1>4
    <2> QED
        BY <2>1 DEF AlikeTo, Alike
<1>6. /\ One(f.k \in TableKinds) = 1 /\ One(f.k \in HeapKinds) = 1 /\ f.k # "call"
      /\ One(Top.k \in TableKinds) = 0 /\ One(Top.k \in HeapKinds) = 0 /\ Top.k # "call"
    BY DEF One, TableKinds, HeapKinds, Bodies
<1>7. /\ Len(symbols') - One(f.k \in TableKinds) = Len(symbols) - One(Top.k \in TableKinds)
      /\ Len(scope_allocations') - One(f.k \in HeapKinds) =
            Len(scope_allocations) - One(Top.k \in HeapKinds)
      /\ Len(symbols') - One(f.k \in TableKinds) = Len(symbols)
    <2> DEFINE g == One(f.k \in TableKinds)
               h == One(f.k \in HeapKinds)
               x == One(Top.k \in TableKinds)
               y == One(Top.k \in HeapKinds)
    <2>1. g = 1 /\ h = 1 /\ x = 0 /\ y = 0
        BY <1>6
    <2> HIDE DEF g, h, x, y
    <2>2. Len(symbols') - g = Len(symbols) - x /\ Len(symbols') - g = Len(symbols)
        BY <1>1, <1>2, <2>1
    <2>3. Len(scope_allocations') - h = Len(scope_allocations) - y
        BY <1>1, <1>2, <2>1
    <2> QED
        BY <2>2, <2>3 DEF g, h, x, y
<1>8. Carries(symbols, symbols', Len(symbols') - One(f.k \in TableKinds), Len(symbols'), z, a)
    BY <1>3, <1>7
<1>9. Good(ctl, symbols, scope_allocations, saved_symbol_stacks)
    BY DEF Bound
<1>10. Good(ctl', symbols', scope_allocations', saved_symbol_stacks)
    BY <1>1, <1>2, <1>3, <1>4, <1>5, <1>6, <1>7, <1>8, <1>9, GoodBecome
<1> QED
    BY <1>10 DEF Bound

LEMMA LeaveToBound ==
    ASSUME Inv, Inv', Bound, Leave, ctl # << >>, Top.k \in HeapKinds \cap TableKinds,
           NEW f \in FrameType, f.k \notin HeapKinds \cup TableKinds,
           ctl' = [ctl EXCEPT ![Len(ctl)] = f], UNCHANGED saved_symbol_stacks
    PROVE  Bound'
<1>1. /\ ctl \in Seq(FrameType) /\ symbols \in Seq(ScopeType) /\ symbols' \in Seq(ScopeType)
      /\ scope_allocations \in Seq(SUBSET Nat) /\ saved_symbol_stacks \in Seq(Seq(ScopeType))
      /\ scope_allocations' \in Seq(SUBSET Nat) /\ ctl' \in Seq(FrameType)
      /\ Len(symbols) \in Nat /\ Len(scope_allocations) \in Nat
    BY InvFacts, TypedAfter
<1>2. /\ Retains(scope_allocations, scope_allocations')
      /\ Len(scope_allocations') = Len(scope_allocations) - 1 /\ Len(symbols') = Len(symbols) - 1
      /\ NewBlock(scope_allocations, scope_allocations', symbols', -1)
      /\ Carries(symbols, symbols', Len(symbols'), Len(symbols'), 0, -1)
    BY LeaveCarries
<1>4. Top = ctl[Len(ctl)] /\ Len(ctl) \in Nat /\ Len(ctl) \in DOMAIN ctl
    BY TopIsLast
<1>5. Len(ctl') = Len(ctl) /\ ctl'[Len(ctl')] = f /\ AlikeTo(ctl, ctl', Len(ctl))
    <2>1. Len(ctl') = Len(ctl) /\ ctl'[Len(ctl)] = f /\ \A i \in 1..(Len(ctl) - 1) : ctl'[i] = ctl[i]
        BY <1>1, <1>4
    <2> QED
        BY <2>1 DEF AlikeTo, Alike
<1>6. /\ One(f.k \in TableKinds) = 0 /\ One(f.k \in HeapKinds) = 0 /\ f.k # "call"
      /\ One(Top.k \in TableKinds) = 1 /\ One(Top.k \in HeapKinds) = 1 /\ Top.k # "call"
    BY DEF One, TableKinds, HeapKinds, Bodies
<1>7. /\ Len(symbols') - One(f.k \in TableKinds) = Len(symbols) - One(Top.k \in TableKinds)
      /\ Len(scope_allocations') - One(f.k \in HeapKinds) =
            Len(scope_allocations) - One(Top.k \in HeapKinds)
      /\ Len(symbols') - One(f.k \in TableKinds) = Len(symbols')
    <2> DEFINE g == One(f.k \in TableKinds)
               h == One(f.k \in HeapKinds)
               x == One(Top.k \in TableKinds)
               y == One(Top.k \in HeapKinds)
    <2>1. g = 0 /\ h = 0 /\ x = 1 /\ y = 1
        BY <1>6
    <2> HIDE DEF g, h, x, y
    <2>2. Len(symbols') - g = Len(symbols) - x /\ Len(symbols') - g = Len(symbols')
        BY <1>1, <1>2, <2>1
    <2>3. Len(scope_allocations') - h = Len(scope_allocations) - y
        BY <1>1, <1>2, <2>1
    <2> QED
        BY <2>2, <2>3 DEF g, h, x, y
<1>8. Carries(symbols, symbols', Len(symbols') - One(f.k \in TableKinds), Len(symbols'), 0, -1)
    BY <1>2, <1>7
<1>9. Good(ctl, symbols, scope_allocations, saved_symbol_stacks)
    BY DEF Bound
<1>10. Good(ctl', symbols', scope_allocations', saved_symbol_stacks)
    BY <1>1, <1>2, <1>4, <1>5, <1>6, <1>7, <1>8, <1>9, GoodBecome
<1> QED
    BY <1>10 DEF Bound

LEMMA SameBound ==
    ASSUME Bound, UNCHANGED <<symbols, saved_symbol_stacks, ctl>>,
           scope_allocations' = scope_allocations
    PROVE  Bound'
BY DEF Bound

\* How ctl can change.
LEMMA AlikeTouch ==
    ASSUME NEW c \in Seq(FrameType), c # << >>, NEW f, Alike(Last(c), f)
    PROVE  LET d == [c EXCEPT ![Len(c)] = f]
           IN  Len(d) = Len(c) /\ AlikeTo(c, d, Len(c) + 1)
<1> DEFINE d == [c EXCEPT ![Len(c)] = f]
<1>1. Last(c) = c[Len(c)] /\ Len(c) \in Nat /\ Len(c) \in DOMAIN c
    BY FrontAppend
<1>2. Len(d) = Len(c) /\ d[Len(c)] = f /\ \A i \in 1..Len(c) : i # Len(c) => d[i] = c[i]
    BY <1>1
<1>3. \A i \in 1..((Len(c) + 1) - 1) : i \in 1..Len(c)
    BY <1>1
<1> HIDE DEF d
<1>4. \A i \in 1..((Len(c) + 1) - 1) : Alike(c[i], d[i])
    BY <1>1, <1>2, <1>3 DEF Alike
<1> QED
    BY <1>2, <1>4 DEF AlikeTo, d

LEMMA AlikePush ==
    ASSUME NEW c \in Seq(FrameType), NEW f \in FrameType
    PROVE  LET d == Append(c, f)
           IN  Len(d) = Len(c) + 1 /\ d[Len(d)] = f /\ AlikeTo(c, d, Len(c) + 1)
<1>1. Len(c) + 1 \in Nat /\ Len(c) + 1 <= Len(c) + 1
    OBVIOUS
<1>2. Len(Append(c, f)) = Len(c) + 1 /\ Append(c, f)[Len(c) + 1] = f
    OBVIOUS
<1> QED
    BY <1>1, <1>2, AlikeAppend

LEMMA AlikeTrans ==
    ASSUME NEW c, NEW d, NEW e, NEW p, AlikeTo(c, d, p), AlikeTo(d, e, p)
    PROVE  AlikeTo(c, e, p)
BY DEF AlikeTo, Alike

\* The innermost frame changes phase and another begins.
LEMMA AlikeTouchPush ==
    ASSUME NEW c \in Seq(FrameType), c # << >>, NEW f \in FrameType, f.k = Last(c).k,
           NEW g \in FrameType
    PROVE  LET d == Append([c EXCEPT ![Len(c)] = f], g)
           IN  Len(d) = Len(c) + 1 /\ d[Len(d)] = g /\ AlikeTo(c, d, Len(c) + 1)
<1> DEFINE e == [c EXCEPT ![Len(c)] = f]
           d == Append(e, g)
<1>1. Alike(Last(c), f)
    BY DEF Alike
<1>2. Len(e) = Len(c) /\ AlikeTo(c, e, Len(c) + 1)
    BY <1>1, AlikeTouch
<1>3. e \in Seq(FrameType)
    OBVIOUS
<1> HIDE DEF e
<1>4. Len(d) = Len(e) + 1 /\ d[Len(d)] = g /\ AlikeTo(e, d, Len(e) + 1)
    BY <1>3, AlikePush
<1> HIDE DEF d
<1>5. AlikeTo(c, d, Len(c) + 1)
    BY <1>2, <1>4, AlikeTrans
<1> QED
    BY <1>2, <1>4, <1>5 DEF d, e

LEMMA StaticBound ==
    ASSUME Inv, Inv', Bound, NEW n, NEW v \in Vals, StaticDef(n, v),
           "nestedStatic" \notin Features
    PROVE  Bound'
<1>1. /\ ctl \in Seq(FrameType) /\ symbols \in Seq(ScopeType) /\ symbols' \in Seq(ScopeType)
      /\ scope_allocations \in Seq(SUBSET Nat) /\ saved_symbol_stacks \in Seq(Seq(ScopeType))
      /\ scope_allocations # << >> /\ scope_allocations' \in Seq(SUBSET Nat)
      /\ HeapOK /\ symbols # << >>
    BY InvFacts, TypedAfter
<1>2. UNCHANGED <<saved_symbol_stacks, ctl>>
    BY DEF StaticDef
<1>3. PICK a, m : /\ alloc(v, a, scope_allocations)
                  /\ symbols' = [symbols EXCEPT ![1] = Extend(@, n, Entry(a, m))]
    BY DEF StaticDef, Define
<1>4. Alone(ctl)
    <2>1. ctl = << >> \/ (ctl # << >> /\ Top.k = "call")
        BY DEF StaticDef, Running
    <2> QED
        BY <2>1, TopIsLast DEF Alone
<1>5. Len(scope_allocations') = Len(scope_allocations)
    BY <1>1, <1>3, AllocHere
<1>6. /\ Retains(scope_allocations, scope_allocations')
      /\ NewBlock(scope_allocations, scope_allocations', symbols', a)
    BY <1>3, AllocFresh
<1>7. Carries(symbols, symbols', Len(symbols), 1, n, a)
    <2>1. 1 \in DOMAIN symbols
        BY <1>1
    <2> QED
        BY <1>1, <1>3, <2>1, CarriesDefine
<1>8. Good(ctl, symbols, scope_allocations, saved_symbol_stacks)
    BY DEF Bound
<1>9. Good(ctl, symbols', scope_allocations', saved_symbol_stacks)
    BY <1>1, <1>4, <1>5, <1>6, <1>7, <1>8, GoodStatic
<1> QED
    BY <1>2, <1>9 DEF Bound

LEMMA StatementBound ==
    ASSUME Inv, Inv', Bound, Statement, "nestedStatic" \notin Features
    PROVE  Bound'
<1>1. ctl \in Seq(FrameType)
    BY InvFacts
<1>2. ASSUME NEW n \in Names, NEW v \in Vals, Let(n, v)
      PROVE  Bound'
    <2>1. CASE UNCHANGED <<heapVars, symbols>>
        BY <1>2, <2>1, SameBound DEF Let, heapVars
    <2>2. CASE \E a \in Candidates : /\ alloc(v, a, scope_allocations)
                                     /\ Define(symbols, Len(symbols), n, Entry(a, TRUE))
        BY <1>2, <2>2, BindBound DEF Let
    <2> QED
        BY <1>2, <2>1, <2>2 DEF Let
<1>3. ASSUME NEW n \in Names, NEW v \in Vals, ConstDef(n, v)
      PROVE  Bound'
    BY <1>3, BindBound DEF ConstDef
<1>4. ASSUME NEW n \in Names, NEW v \in Vals, StaticDef(n, v)
      PROVE  Bound'
    BY <1>4, StaticBound
<1>5. ASSUME NEW n \in Names, NEW v \in Vals, Assignment(n, v)
      PROVE  Bound'
    <2>1. scope_allocations' = scope_allocations
        BY <1>5 DEF Assignment, write, heapVars
    <2> QED
        BY <1>5, <2>1, SameBound DEF Assignment
<1>6. ASSUME NEW e \in Raised, Fail(e)
      PROVE  Bound'
    BY <1>6, SameBound DEF Fail, heapVars
<1>7. ASSUME Defer
      PROVE  Bound'
    <2> DEFINE f == [Top EXCEPT !.dfr = @ + 1]
    <2>1. /\ ctl # << >> /\ ctl' = [ctl EXCEPT ![Len(ctl)] = f]
          /\ UNCHANGED <<heapVars, symbols, saved_symbol_stacks>>
        BY <1>7 DEF Defer, Running, SetTop
    <2>2. f.k = Top.k
        BY <2>1, TopIsLast DEF FrameType
    <2> HIDE DEF f
    <2>3. Len(ctl') = Len(ctl) /\ AlikeTo(ctl, ctl', Len(ctl) + 1)
        BY <1>1, <2>1, <2>2, AlikeTouch DEF Alike, Top
    <2> QED
        BY <2>1, <2>3, TouchBound DEF heapVars
<1>8. ASSUME NEW k \in {"while", "for", "do"}, StartLoop(k)
      PROVE  Bound'
    <2>1. /\ ctl' = Append(ctl, Frame(k, "cond"))
          /\ UNCHANGED <<heapVars, symbols, saved_symbol_stacks>>
        BY <1>8 DEF StartLoop, Push
    <2>2. k \in Bodies \cup Heads /\ "cond" \in Phases
        BY DEF Heads, Phases
    <2>3. Frame(k, "cond") \in FrameType /\ Frame(k, "cond").k = k
        BY <2>2, FrameTyped
    <2>4. k \notin HeapKinds \cup TableKinds
        BY DEF HeapKinds, TableKinds, Bodies
    <2>5. /\ Len(ctl') = Len(ctl) + 1 /\ AlikeTo(ctl, ctl', Len(ctl) + 1)
          /\ ctl'[Len(ctl')] = Frame(k, "cond")
        BY <1>1, <2>1, <2>3, AlikePush
    <2> QED
        BY <2>1, <2>3, <2>4, <2>5, HeadBound
<1>9. ASSUME StartCStyleFor
      PROVE  Bound'
    <2>1. /\ ctl' = Append(ctl, Frame("cfor", "init")) /\ Enter({}, FALSE)
          /\ UNCHANGED saved_symbol_stacks
        BY <1>9 DEF StartCStyleFor, Push
    <2>2. "cfor" \in Bodies \cup Heads /\ "init" \in Phases
        BY DEF Heads, Phases
    <2>3. Frame("cfor", "init") \in FrameType /\ Frame("cfor", "init").k = "cfor"
        BY <2>2, FrameTyped
    <2>4. "cfor" \in HeapKinds \cap TableKinds
        BY DEF HeapKinds, TableKinds
    <2>5. /\ Len(ctl') = Len(ctl) + 1 /\ AlikeTo(ctl, ctl', Len(ctl) + 1)
          /\ ctl'[Len(ctl')] = Frame("cfor", "init")
        BY <1>1, <2>1, <2>3, AlikePush
    <2> QED
        BY <2>1, <2>3, <2>4, <2>5, NoBinding, EnterBound
<1> QED
    BY <1>2, <1>3, <1>4, <1>5, <1>6, <1>7, <1>8, <1>9 DEF Statement

-----------------------------------------------------------------------------
LEMMA IterateBound ==
    ASSUME Inv, Inv', Bound, NEW k, NEW B \in Bindings, Iterate(k, B)
    PROVE  Bound'
<1> DEFINE f == [Top EXCEPT !.ph = "body"]
           g == Frame("iter", "run")
<1>1. /\ ctl \in Seq(FrameType) /\ ctl # << >> /\ Enter(B, FALSE) /\ UNCHANGED saved_symbol_stacks
    BY InvFacts DEF Iterate, Running
<1>2. Top = ctl[Len(ctl)] /\ Top \in FrameType /\ Len(ctl) \in DOMAIN ctl
    BY <1>1, TopIsLast
<1>3. ctl' = Append([ctl EXCEPT ![Len(ctl)] = f], g)
    <2>1. ctl' = Append([ctl EXCEPT ![Len(ctl)] = [@ EXCEPT !.ph = "body"]], g)
        BY DEF Iterate
    <2> QED
        BY <2>1, <1>2
<1>4. f \in FrameType /\ f.k = Last(ctl).k
    BY <1>2 DEF FrameType, Phases, Top
<1>5. "iter" \in Bodies \cup Heads /\ "run" \in Phases
    BY DEF Bodies, Phases
<1>6. g \in FrameType /\ g.k = "iter"
    BY <1>5, FrameTyped
<1> HIDE DEF f, g
<1>7. /\ Len(ctl') = Len(ctl) + 1 /\ AlikeTo(ctl, ctl', Len(ctl) + 1)
      /\ ctl'[Len(ctl')] = g
    BY <1>1, <1>3, <1>4, <1>6, AlikeTouchPush
<1>8. "iter" \in HeapKinds \cap TableKinds
    BY DEF HeapKinds, TableKinds, Bodies
<1> QED
    BY <1>1, <1>6, <1>7, <1>8, EnterBound

\* The iteration is left; then its loop changes phase, or is left as well.
LEMMA LeaveIterationBound ==
    ASSUME Inv, Inv', Bound, LeaveIteration
    PROVE  Bound'
<1> DEFINE c == Front(ctl)
           loop == ctl[Len(ctl) - 1]
<1>1. /\ ctl # << >> /\ Top.k = "iter" /\ Leave /\ UNCHANGED saved_symbol_stacks
    BY DEF LeaveIteration, AtEnd, Running
<1>2. /\ ctl \in Seq(FrameType) /\ symbols \in Seq(ScopeType) /\ symbols' \in Seq(ScopeType)
      /\ scope_allocations \in Seq(SUBSET Nat) /\ saved_symbol_stacks \in Seq(Seq(ScopeType))
      /\ scope_allocations' \in Seq(SUBSET Nat) /\ ctl' \in Seq(FrameType)
      /\ StackOK(ctl, Len(symbols), Len(scope_allocations), call_depth, saved_symbol_stacks)
    BY InvFacts, TypedAfter
<1>3. Top.k \in HeapKinds \cap TableKinds
    BY <1>1 DEF HeapKinds, TableKinds, Bodies
<1>4. c # << >> /\ Last(c).k \in LoopKinds
    <2>1. IterOK(ctl)
        BY <1>2 DEF StackOK
    <2> QED
        BY <1>1, <1>2, <2>1, IterFront DEF Top
<1>5. c \in Seq(FrameType) /\ Len(c) = Len(ctl) - 1 /\ Len(ctl) \in Nat
    BY <1>1, <1>2, FrontAppend
<1>6. loop = Last(c) /\ loop \in FrameType
    <2>1. Len(ctl) - 1 \in 1..(Len(ctl) - 1)
        BY <1>4, <1>5, FrontAppend
    <2>2. c[Len(ctl) - 1] = ctl[Len(ctl) - 1]
        BY <1>1, <1>2, <2>1, FrontAppend
    <2>3. Last(c) = c[Len(c)] /\ Last(c) \in FrameType
        BY <1>4, <1>5, FrontAppend
    <2> QED
        BY <2>2, <2>3, <1>5
<1>7. AlikeTo(ctl, c, Len(ctl))
    <2>1. Len(ctl) <= Len(ctl)
        BY <1>5
    <2> QED
        BY <1>1, <1>2, <1>5, <2>1, AlikeFront
<1>8. \/ \E p \in Phases : ctl' = [c EXCEPT ![Len(ctl) - 1] = [loop EXCEPT !.ph = p]]
      \/ ctl' = Front(c)
    <2>1. "exit" \in Phases /\ \A k, e : PhaseAfter(k, e) \in Phases
        BY DEF Phases, PhaseAfter
    <2> QED
        BY <2>1 DEF LeaveIteration
<1> HIDE DEF c, loop
<1>9. CASE \E p \in Phases : ctl' = [c EXCEPT ![Len(ctl) - 1] = [loop EXCEPT !.ph = p]]
    <2>1. PICK p \in Phases : ctl' = [c EXCEPT ![Len(c)] = [loop EXCEPT !.ph = p]]
        BY <1>5, <1>9
    <2>2. Alike(Last(c), [loop EXCEPT !.ph = p])
        BY <1>6 DEF Alike, FrameType
    <2>3. Len(ctl') = Len(c) /\ AlikeTo(c, ctl', Len(c) + 1)
        BY <1>4, <1>5, <2>1, <2>2, AlikeTouch
    <2>4. Len(ctl') = Len(ctl) - 1 /\ Len(c) + 1 = Len(ctl)
        BY <1>5, <2>3
    <2>5. AlikeTo(ctl, ctl', Len(ctl))
        BY <1>7, <2>3, <2>4, AlikeTrans
    <2> QED
        BY <1>1, <1>3, <2>4, <2>5, LeaveBound
<1>10. CASE ctl' = Front(c)
    <2>1. /\ Retains(scope_allocations, scope_allocations')
          /\ Len(scope_allocations') = Len(scope_allocations) - 1 /\ Len(symbols') = Len(symbols) - 1
          /\ NewBlock(scope_allocations, scope_allocations', symbols', -1)
          /\ Carries(symbols, symbols', Len(symbols'), Len(symbols'), 0, -1)
        BY <1>1, <1>3, LeaveCarries
    <2>2. /\ ctl[Len(ctl)].k # "call" /\ 1 \in Nat
          /\ 1 <= One(ctl[Len(ctl)].k \in HeapKinds)
          /\ One(ctl[Len(ctl)].k \in TableKinds) - 1 <= One(ctl[Len(ctl)].k \in HeapKinds) - 1
        <3>1. Top = ctl[Len(ctl)] /\ Top.k # "call"
            BY <1>1, TopIsLast
        <3>2. One(Top.k \in HeapKinds) = 1 /\ One(Top.k \in TableKinds) = 1
            BY <1>3 DEF One
        <3> QED
            BY <3>1, <3>2
    <2>3. Good(ctl, symbols, scope_allocations, saved_symbol_stacks)
        BY DEF Bound
    <2>4. Good(c, symbols', scope_allocations', saved_symbol_stacks)
        BY <1>1, <1>2, <1>5, <1>7, <2>1, <2>2, <2>3, GoodPop
    <2>5. Last(c).k # "call" /\ (Last(c).k \in TableKinds => Last(c).k \in HeapKinds)
        BY <1>4 DEF LoopKinds, TableKinds, HeapKinds, Bodies
    <2>6. scope_allocations' # << >>
        BY <2>1 DEF Retains
    <2>7. Good(Front(c), symbols', scope_allocations', saved_symbol_stacks)
        BY <1>2, <1>4, <1>5, <2>4, <2>5, <2>6, GoodDrop
    <2> QED
        BY <1>1, <1>10, <2>7 DEF Bound
<1> QED
    BY <1>8, <1>9, <1>10

\* The roots are what the tables name.
LEMMA RootsKept ==
    ASSUME TRUE
    PROVE  /\ \A i \in DOMAIN symbols : \A n \in DOMAIN symbols[i] : symbols[i][n].addr \in Roots
           /\ \A k \in DOMAIN saved_symbol_stacks : \A i \in DOMAIN saved_symbol_stacks[k] :
                 \A n \in DOMAIN saved_symbol_stacks[k][i] :
                    saved_symbol_stacks[k][i][n].addr \in Roots
<1>1. ASSUME NEW t \in Tables, NEW i \in DOMAIN t, NEW n \in DOMAIN t[i]
      PROVE  t[i][n].addr \in Roots
    <2>1. t[i][n].addr \in AddrsOf(t[i])
        BY <1>1 DEF AddrsOf
    <2>2. t[i][n].addr \in TableAddrs(t)
        BY <1>1, <2>1 DEF TableAddrs
    <2> QED
        BY <1>1, <2>2 DEF Roots
<1>2. symbols \in Tables /\ \A k \in DOMAIN saved_symbol_stacks : saved_symbol_stacks[k] \in Tables
    BY DEF Tables, Range
<1> QED
    BY <1>1, <1>2

LEMMA PhaseBound ==
    ASSUME Inv, Inv', Bound, ctl # << >>, NEW p, SetPhase(p),
           UNCHANGED <<heapVars, symbols, saved_symbol_stacks>>
    PROVE  Bound'
<1>1. ctl \in Seq(FrameType) /\ ctl' = [ctl EXCEPT ![Len(ctl)] = [Top EXCEPT !.ph = p]]
    BY InvFacts DEF SetPhase, SetTop
<1>2. Alike(Last(ctl), [Top EXCEPT !.ph = p])
    BY TopIsLast DEF Alike, FrameType, Top
<1>3. Len(ctl') = Len(ctl) /\ AlikeTo(ctl, ctl', Len(ctl) + 1)
    BY <1>1, <1>2, AlikeTouch
<1> QED
    BY <1>3, TouchBound DEF heapVars

LEMMA CollectBound ==
    ASSUME Inv, Inv', Bound, ctl # << >>, NEW p, SetPhase(p), collect_garbage(Roots),
           UNCHANGED <<symbols, saved_symbol_stacks>>
    PROVE  Bound'
<1>1. /\ ctl \in Seq(FrameType) /\ symbols \in Seq(ScopeType) /\ ctl' \in Seq(FrameType)
      /\ scope_allocations \in Seq(SUBSET Nat) /\ saved_symbol_stacks \in Seq(Seq(ScopeType))
      /\ scope_allocations' \in Seq(SUBSET Nat) /\ scope_allocations # << >>
      /\ HeapOK
    BY InvFacts, TypedAfter
<1>2. ctl' = [ctl EXCEPT ![Len(ctl)] = [Top EXCEPT !.ph = p]]
    BY DEF SetPhase, SetTop
<1>3. Alike(Last(ctl), [Top EXCEPT !.ph = p])
    BY TopIsLast DEF Alike, FrameType, Top
<1>4. Len(ctl') = Len(ctl) /\ AlikeTo(ctl, ctl', Len(ctl) + 1)
    BY <1>1, <1>2, <1>3, AlikeTouch
<1>5. Len(scope_allocations') = Len(scope_allocations)
    BY <1>1, CollectHeap
<1>6. \A o \in DOMAIN scope_allocations : scope_allocations'[o] = scope_allocations[o] \cap Roots
    BY DEF collect_garbage
<1>7. Good(ctl, symbols, scope_allocations, saved_symbol_stacks)
    BY DEF Bound
<1>8. Good(ctl, symbols, scope_allocations', saved_symbol_stacks)
    BY <1>1, <1>5, <1>6, <1>7, RootsKept, GoodCollect
<1>9. Retains(scope_allocations', scope_allocations')
    <2>1. scope_allocations' # << >>
        BY <1>1, <1>5
    <2> QED
        BY <2>1 DEF Retains
<1>10. NewBlock(scope_allocations', scope_allocations', symbols, -1)
    BY <1>1, NoNewBlock
<1>11. Carries(symbols, symbols, Len(symbols), Len(symbols), 0, -1)
    BY <1>1, CarriesSame
<1>12. Good(ctl', symbols, scope_allocations', saved_symbol_stacks)
    BY <1>1, <1>4, <1>8, <1>9, <1>10, <1>11, GoodStay
<1> QED
    BY <1>12 DEF Bound

LEMMA LoopsBound ==
    ASSUME Inv, Inv', Bound, Loops
    PROVE  Bound'
<1>1. ASSUME NEW B \in Bindings, ForLoop(B)
      PROVE  Bound'
    BY <1>1, IterateBound DEF ForLoop
<1>2. ASSUME WhileLoop \/ DoWhileLoop \/ CStyleFor
      PROVE  Bound'
    BY <1>2, IterateBound, NoBinding DEF WhileLoop, DoWhileLoop, CStyleFor
<1>3. ASSUME MaybeGc
      PROVE  Bound'
    <2>1. /\ ctl # << >> /\ SetPhase("cond")
          /\ UNCHANGED <<symbols, saved_symbol_stacks>>
          /\ collect_garbage(Roots) \/ UNCHANGED heapVars
        BY <1>3 DEF MaybeGc, Running
    <2> QED
        BY <2>1, CollectBound, PhaseBound
\* Loops that end, in order or not: a C-style for has both table and scope.
<1>4. ASSUME ctl # << >>, Top.k \in {"while", "for", "do", "cfor", "margs"}, ctl' = Front(ctl),
             UNCHANGED <<heapVars, symbols, saved_symbol_stacks>>
      PROVE  Bound'
    <2>1. Top.k # "call" /\ (Top.k \in TableKinds => Top.k \in HeapKinds)
        BY <1>4 DEF TableKinds, HeapKinds, Bodies
    <2> QED
        BY <1>4, <2>1, DropBound
<1>5. ASSUME EndLoop
      PROVE  Bound'
    BY <1>4, <1>5 DEF EndLoop, Running, Pop
<1>6. ASSUME LoopLimit
      PROVE  Bound'
    <2>1. /\ ctl # << >> /\ Top.k \in {"while", "for", "do", "cfor"}
          /\ UNCHANGED <<heapVars, symbols, saved_symbol_stacks>>
          /\ SetPhase("exit") \/ ctl' = Front(ctl)
        BY <1>6 DEF LoopLimit, Running, Pop
    <2> QED
        BY <2>1, <1>4, PhaseBound
<1>7. ASSUME EndCStyleFor
      PROVE  Bound'
    <2>1. /\ ctl # << >> /\ Top.k = "cfor" /\ Leave /\ ctl' = Front(ctl)
          /\ UNCHANGED saved_symbol_stacks
        BY <1>7 DEF EndCStyleFor, Running, Pop
    <2>2. Top.k \in HeapKinds \cap TableKinds
        BY <2>1 DEF HeapKinds, TableKinds
    <2>3. Len(ctl') = Len(ctl) - 1 /\ AlikeTo(ctl, ctl', Len(ctl))
        <3>1. ctl \in Seq(FrameType) /\ Len(ctl) \in Nat /\ Len(ctl) <= Len(ctl)
            BY InvFacts
        <3> QED
            BY <2>1, <3>1, FrontAppend, AlikeFront
    <2> QED
        BY <2>1, <2>2, <2>3, LeaveBound
<1>8. ASSUME HeadFails
      PROVE  Bound'
    BY <1>4, <1>8 DEF HeadFails, Running, Pop
<1> QED
    BY <1>1, <1>2, <1>3, <1>5, <1>6, <1>7, <1>8, LeaveIterationBound DEF Loops

-----------------------------------------------------------------------------
\* A construct with a scope and a table ends and nothing else is in ctl.
LEMMA LeaveTopBound ==
    ASSUME Inv, Inv', Bound, Leave, ctl # << >>, Top.k \in HeapKinds \cap TableKinds,
           ctl' = Front(ctl), UNCHANGED saved_symbol_stacks
    PROVE  Bound'
<1>1. ctl \in Seq(FrameType) /\ Len(ctl) \in Nat /\ Len(ctl) <= Len(ctl)
    BY InvFacts
<1>2. Len(ctl') = Len(ctl) - 1
    BY <1>1, FrontAppend
<1>3. AlikeTo(ctl, ctl', Len(ctl))
    BY <1>1, AlikeFront
<1> QED
    BY <1>2, <1>3, LeaveBound

LEMMA EnterTopBound ==
    ASSUME Inv, Inv', Bound, NEW B \in Bindings, NEW m \in BOOLEAN, Enter(B, m),
           NEW k \in Bodies \cup Heads, k \in HeapKinds \cap TableKinds, NEW ph \in Phases,
           ctl' = Append(ctl, Frame(k, ph)), UNCHANGED saved_symbol_stacks
    PROVE  Bound'
<1>1. ctl \in Seq(FrameType) /\ Frame(k, ph) \in FrameType /\ Frame(k, ph).k = k
    BY InvFacts, FrameTyped
<1>2. /\ Len(ctl') = Len(ctl) + 1 /\ AlikeTo(ctl, ctl', Len(ctl) + 1)
      /\ ctl'[Len(ctl')] = Frame(k, ph)
    BY <1>1, AlikePush
<1> QED
    BY <1>1, <1>2, EnterBound

LEMMA CallBound ==
    ASSUME Inv, Inv', Bound, NEW B \in Bindings,
           Open(<<Head(symbols), << >> >>, B, FALSE),
           saved_symbol_stacks' = Append(saved_symbol_stacks, symbols),
           ctl' = Append(ctl, Frame("call", "run"))
    PROVE  Bound'
<1> DEFINE base == <<Head(symbols), << >> >>
           f == Frame("call", "run")
<1>1. /\ ctl \in Seq(FrameType) /\ symbols \in Seq(ScopeType) /\ symbols' \in Seq(ScopeType)
      /\ scope_allocations \in Seq(SUBSET Nat) /\ saved_symbol_stacks \in Seq(Seq(ScopeType))
      /\ scope_allocations' \in Seq(SUBSET Nat) /\ symbols # << >> /\ HeapOK
    BY InvFacts, TypedAfter
<1>2. "call" \in Bodies \cup Heads /\ "run" \in Phases
    BY DEF Bodies, Phases
<1>3. f \in FrameType /\ f.k = "call"
    BY <1>2, FrameTyped
<1>4. base \in Seq(ScopeType) /\ base # << >> /\ Len(base) = 2
    <2>1. Head(symbols) \in ScopeType /\ << >> \in ScopeType
        BY <1>1, EmptyScope
    <2> QED
        BY <2>1
<1>5. Open(base, B, FALSE)
    OBVIOUS
<1> HIDE DEF base, f
<1>6. Len(scope_allocations') = Len(scope_allocations) + 1
    BY <1>1, <1>4, <1>5, OpenTyped
<1>7. Retains(scope_allocations, scope_allocations')
    BY <1>4, <1>5, OpenCarries
<1>8. PICK z, a : /\ NewBlock(scope_allocations, scope_allocations', symbols', a)
                  /\ Carries(base, symbols', Len(base), Len(base), z, a)
    BY <1>4, <1>5, OpenCarries
<1>9. Carries(<<Head(symbols), << >> >>, symbols', 2, 2, z, a)
    BY <1>4, <1>8 DEF base
<1>10. Carries(symbols, symbols', 1, 2, z, a)
    BY <1>1, <1>9, CarriesCall
<1>11. Good(ctl, symbols, scope_allocations, saved_symbol_stacks)
    BY DEF Bound
<1>12. Good(Append(ctl, f), symbols', scope_allocations', Append(saved_symbol_stacks, symbols))
    BY <1>1, <1>3, <1>6, <1>7, <1>8, <1>10, <1>11, GoodCall
<1> QED
    BY <1>12 DEF Bound, f

LEMMA ReturnBound ==
    ASSUME Inv, Inv', Bound, ctl # << >>, Top.k = "call", pop_scope,
           symbols' = Last(saved_symbol_stacks),
           saved_symbol_stacks' = Front(saved_symbol_stacks), ctl' = Front(ctl)
    PROVE  Bound'
<1>1. /\ ctl \in Seq(FrameType) /\ Len(scope_allocations) \in Nat
      /\ scope_allocations \in Seq(SUBSET Nat) /\ saved_symbol_stacks \in Seq(Seq(ScopeType))
      /\ scope_allocations' \in Seq(SUBSET Nat)
      /\ Len(scope_allocations) >= 1 + One(Top.k \in HeapKinds)
    BY InvFacts, TypedAfter
<1>2. scope_allocations' = Front(scope_allocations)
    BY DEF pop_scope
<1>3. Len(scope_allocations) >= 2
    <2>1. One(Top.k \in HeapKinds) = 1
        BY DEF One, HeapKinds, Bodies
    <2> QED
        BY <1>1, <2>1
<1>4. /\ Retains(scope_allocations, scope_allocations')
      /\ Len(scope_allocations') = Len(scope_allocations) - 1
    BY <1>1, <1>2, <1>3, PopRetains
<1>5. Good(ctl, symbols, scope_allocations, saved_symbol_stacks)
    BY DEF Bound
<1>6. Good(Front(ctl), Last(saved_symbol_stacks), scope_allocations', Front(saved_symbol_stacks))
    BY <1>1, <1>4, <1>5, GoodReturn DEF Top
<1> QED
    BY <1>6 DEF Bound

LEMMA CallsBound ==
    ASSUME Inv, Inv', Bound, Calls
    PROVE  Bound'
<1>1. ASSUME NEW B \in Bindings, call_function(B)
      PROVE  Bound'
    <2>1. CASE UNCHANGED <<heapVars, symbols, saved_symbol_stacks, call_depth, ctl>>
        BY <2>1, SameBound DEF heapVars
    <2>2. CASE /\ Open(<<Head(symbols), << >> >>, B, FALSE)
               /\ saved_symbol_stacks' = Append(saved_symbol_stacks, symbols)
               /\ Push(Frame("call", "run"))
        BY <2>2, CallBound DEF Push
    <2> QED
        BY <1>1, <2>1, <2>2 DEF call_function
<1>2. ASSUME NEW B \in Bindings, EnterMethod(B)
      PROVE  Bound'
    <2>1. UNCHANGED saved_symbol_stacks
        BY <1>2 DEF EnterMethod
    <2>2. CASE UNCHANGED <<heapVars, symbols, call_depth, ctl>>
        BY <2>1, <2>2, SameBound DEF heapVars
    <2>3. CASE Enter(B, TRUE) /\ Push(Frame("margs", "run"))
        <3>1. "margs" \in Bodies \cup Heads /\ "margs" \in HeapKinds \cap TableKinds /\ "run" \in Phases
            BY DEF Heads, HeapKinds, TableKinds, Phases
        <3> QED
            BY <2>1, <2>3, <3>1, EnterTopBound DEF Push
    <2> QED
        BY <1>2, <2>2, <2>3 DEF EnterMethod
<1>3. ASSUME LeaveCall
      PROVE  Bound'
    BY <1>3, ReturnBound DEF LeaveCall, AtEnd, Running, Pop
<1>4. ASSUME RunMethod
      PROVE  Bound'
    <2> DEFINE f == [Top EXCEPT !.k = "method"]
    <2>1. /\ ctl # << >> /\ Top.k = "margs" /\ ctl' = [ctl EXCEPT ![Len(ctl)] = f]
          /\ UNCHANGED <<heapVars, symbols, saved_symbol_stacks>>
        BY <1>4 DEF RunMethod, Running, SetTop
    <2>2. f.k = "method" /\ ctl \in Seq(FrameType)
        BY <2>1, InvFacts DEF FrameType
    <2> HIDE DEF f
    <2>3. Alike(Last(ctl), f)
        BY <2>1, <2>2 DEF Alike, Top, HeapKinds, TableKinds, Bodies
    <2>4. Len(ctl') = Len(ctl) /\ AlikeTo(ctl, ctl', Len(ctl) + 1)
        BY <2>1, <2>2, <2>3, AlikeTouch
    <2> QED
        BY <2>1, <2>4, TouchBound DEF heapVars
<1>5. ASSUME LeaveMethod
      PROVE  Bound'
    <2>1. /\ ctl # << >> /\ Top.k = "method" /\ Leave /\ ctl' = Front(ctl)
          /\ UNCHANGED saved_symbol_stacks
        BY <1>5 DEF LeaveMethod, AtEnd, Running, Pop
    <2>2. Top.k \in HeapKinds \cap TableKinds
        BY <2>1 DEF HeapKinds, TableKinds, Bodies
    <2> QED
        BY <2>1, <2>2, LeaveTopBound
<1> QED
    BY <1>1, <1>2, <1>3, <1>4, <1>5 DEF Calls

-----------------------------------------------------------------------------
LEMMA RunDeferredBound ==
    ASSUME Inv, Inv', Bound, RunDeferred
    PROVE  Bound'
<1> DEFINE f == OneDeferredLess(Top)
           g == [Frame("defer", "run") EXCEPT !.pend = err]
<1>1. /\ ctl # << >> /\ Top.dfr > 0 /\ ctl' = Append([ctl EXCEPT ![Len(ctl)] = f], g)
      /\ UNCHANGED <<heapVars, symbols, saved_symbol_stacks>>
    BY DEF RunDeferred, Running
<1>2. Top \in FrameType /\ ctl \in Seq(FrameType) /\ err \in Errs
    BY <1>1, InvFacts
<1>3. f \in FrameType /\ f.k = Last(ctl).k
    <2> DEFINE n == Top.dfr - 1
    <2>1. n \in Nat /\ "leaving" \in Phases
        BY <1>1, <1>2 DEF FrameType, Phases
    <2>2. f = [Top EXCEPT !.dfr = n, !.ph = "leaving"]
        BY DEF OneDeferredLess
    <2> HIDE DEF n, f
    <2>3. f \in FrameType /\ f.k = Top.k
        BY <2>1, <2>2, <1>2 DEF FrameType
    <2> QED
        BY <2>3 DEF Top
<1>4. "defer" \in Bodies \cup Heads /\ "run" \in Phases
    BY DEF Heads, Phases
<1>5. Frame("defer", "run") \in FrameType /\ Frame("defer", "run").k = "defer"
    BY <1>4, FrameTyped
<1>6. g \in FrameType /\ g.k = "defer"
    BY <1>2, <1>5 DEF FrameType
<1> HIDE DEF f, g
<1>7. /\ Len(ctl') = Len(ctl) + 1 /\ AlikeTo(ctl, ctl', Len(ctl) + 1)
      /\ ctl'[Len(ctl')] = g
    BY <1>1, <1>2, <1>3, <1>6, AlikeTouchPush
<1>8. "defer" \notin HeapKinds \cup TableKinds
    BY DEF HeapKinds, TableKinds, Bodies
<1> QED
    BY <1>1, <1>6, <1>7, <1>8, HeadBound

LEMMA BlocksBound ==
    ASSUME Inv, Inv', Bound, Blocks
    PROVE  Bound'
<1>1. /\ \A k \in {"block", "try", "catch", "finally"} :
            k \in Bodies \cup Heads /\ k \in HeapKinds \cap TableKinds
      /\ \A k \in {"caught", "finish"} : k \notin HeapKinds \cup TableKinds
      /\ "run" \in Phases
    BY DEF Bodies, HeapKinds, TableKinds, Phases
<1>2. ASSUME NEW B \in Bindings, EnterBlock(B)
      PROVE  Bound'
    BY <1>1, <1>2, EnterTopBound DEF EnterBlock, Push
<1>3. ASSUME EnterTry
      PROVE  Bound'
    BY <1>1, <1>3, NoBinding, EnterTopBound DEF EnterTry, Push
<1>4. ASSUME LeaveBlock
      PROVE  Bound'
    BY <1>1, <1>4, LeaveTopBound DEF LeaveBlock, AtEnd, Running, Pop
<1>5. ASSUME LeaveFinally
      PROVE  Bound'
    BY <1>1, <1>5, LeaveTopBound DEF LeaveFinally, AtEnd, Running, Pop
<1>6. ASSUME EndDeferred
      PROVE  Bound'
    <2>1. /\ ctl # << >> /\ Top.k = "defer" /\ ctl' = Front(ctl)
          /\ UNCHANGED <<heapVars, symbols, saved_symbol_stacks>>
        BY <1>6 DEF EndDeferred, Running, Pop
    <2>2. Top.k # "call" /\ Top.k \notin TableKinds
        BY <2>1 DEF TableKinds, Bodies
    <2> QED
        BY <2>1, <2>2, DropBound
\* The end of a try or catch block: the statement ends, or goes on.
<1>7. ASSUME ctl # << >>, Top.k \in {"try", "catch"}, Leave, UNCHANGED saved_symbol_stacks,
             NEW f, f \in FrameType, f.k \in {"caught", "finish"},
             ctl' = [ctl EXCEPT ![Len(ctl)] = f]
      PROVE  Bound'
    BY <1>1, <1>7, LeaveToBound
<1>8. ASSUME ctl # << >>, Top.k \in {"try", "catch"}, Leave, Conclude, UNCHANGED saved_symbol_stacks
      PROVE  Bound'
    <2> DEFINE f == [Top EXCEPT !.k = "finish", !.ph = "run", !.pend = err]
    <2>1. CASE ctl' = Front(ctl)
        BY <1>1, <1>8, <2>1, LeaveTopBound
    <2>2. CASE ctl' = [ctl EXCEPT ![Len(ctl)] = f]
        <3>1. Top \in FrameType /\ err \in Errs
            BY <1>8, InvFacts
        <3>2. f \in FrameType /\ f.k \in {"caught", "finish"}
            BY <1>1, <3>1 DEF FrameType, Heads
        <3> HIDE DEF f
        <3> QED
            BY <1>7, <1>8, <2>2, <3>2
    <2> QED
        BY <1>8, <2>1, <2>2 DEF Conclude, Pop, SetTop
<1>9. ASSUME LeaveTry
      PROVE  Bound'
    <2> DEFINE f == [Top EXCEPT !.k = "caught", !.ph = "run"]
    <2>1. ctl # << >> /\ Top.k = "try" /\ Leave /\ UNCHANGED saved_symbol_stacks
        BY <1>9 DEF LeaveTry, AtEnd, Running
    <2>2. CASE ctl' = [ctl EXCEPT ![Len(ctl)] = f]
        <3>1. Top \in FrameType
            BY <2>1, InvFacts
        <3>2. f \in FrameType /\ f.k \in {"caught", "finish"}
            BY <1>1, <3>1 DEF FrameType, Heads
        <3> HIDE DEF f
        <3> QED
            BY <1>7, <2>1, <2>2, <3>2
    <2> QED
        BY <1>8, <1>9, <2>1, <2>2 DEF LeaveTry, SetTop
<1>10. ASSUME LeaveCatch
       PROVE  Bound'
    BY <1>8, <1>10 DEF LeaveCatch, AtEnd, Running
<1>11. ASSUME NEW B \in Bindings, ctl # << >>, Top.k \in {"caught", "finish"}, Enter(B, FALSE),
              UNCHANGED saved_symbol_stacks, NEW k \in {"catch", "finally"},
              ctl' = [ctl EXCEPT ![Len(ctl)] = [Top EXCEPT !.k = k]]
       PROVE  Bound'
    <2> DEFINE f == [Top EXCEPT !.k = k]
    <2>1. Top \in FrameType
        BY <1>11, InvFacts
    <2>2. f \in FrameType /\ f.k \in HeapKinds \cap TableKinds
        BY <1>1, <2>1 DEF FrameType
    <2> HIDE DEF f
    <2>3. ctl' = [ctl EXCEPT ![Len(ctl)] = f]
        BY <1>11 DEF f
    <2> QED
        BY <1>1, <1>11, <2>2, <2>3, EnterToBound
<1>12. ASSUME NEW B \in Bindings, EnterCatch(B)
       PROVE  Bound'
    BY <1>11, <1>12 DEF EnterCatch, Running, SetTop
<1>13. ASSUME EnterFinally
       PROVE  Bound'
    BY <1>11, <1>13, NoBinding DEF EnterFinally, Running, SetTop
<1> QED
    BY <1>2, <1>3, <1>4, <1>5, <1>6, <1>9, <1>10, <1>12, <1>13, RunDeferredBound DEF Blocks

-----------------------------------------------------------------------------
LEMMA EnterUnsafeBound ==
    ASSUME Inv, Inv', Bound, EnterUnsafe
    PROVE  Bound'
<1> DEFINE base == Append(symbols, << >>)
           f == Frame("unsafe", "run")
<1>1. /\ ctl \in Seq(FrameType) /\ symbols \in Seq(ScopeType) /\ symbols' \in Seq(ScopeType)
      /\ scope_allocations \in Seq(SUBSET Nat) /\ saved_symbol_stacks \in Seq(Seq(ScopeType))
      /\ scope_allocations' \in Seq(SUBSET Nat) /\ ctl' \in Seq(FrameType)
      /\ scope_allocations # << >> /\ HeapOK
      /\ Len(symbols) \in Nat /\ Len(scope_allocations) \in Nat
    BY InvFacts, TypedAfter
<1>2. ctl' = Append(ctl, f) /\ UNCHANGED saved_symbol_stacks
    BY DEF EnterUnsafe, Push
<1>3. "unsafe" \in Bodies \cup Heads /\ "run" \in Phases
    BY DEF Bodies, Phases
<1>4. f \in FrameType /\ f.k = "unsafe"
    BY <1>3, FrameTyped
<1>5. PICK a : /\ alloc(True, a, scope_allocations)
               /\ symbols' = [base EXCEPT ![Len(symbols) + 1] = Extend(@, UnsafeContext, Entry(a, FALSE))]
    BY DEF EnterUnsafe, Define
<1>6. True \in Vals
    BY ScopesAssumption
<1>7. Len(scope_allocations') = Len(scope_allocations)
    BY <1>1, <1>5, <1>6, AllocHere
<1>8. /\ Retains(scope_allocations, scope_allocations')
      /\ NewBlock(scope_allocations, scope_allocations', symbols', a)
    BY <1>5, <1>6, AllocFresh
<1>9. base \in Seq(ScopeType) /\ Len(symbols) + 1 \in DOMAIN base /\ Len(base) = Len(symbols) + 1
    BY <1>1, EmptyScope
<1> HIDE DEF base, f
<1>10. Carries(base, symbols', Len(base), Len(symbols) + 1, UnsafeContext, a) /\ Len(symbols') = Len(base)
    <2>1. Len(symbols') = Len(base)
        BY <1>5, <1>9
    <2>2. Carries(base, symbols', Len(base), Len(symbols) + 1, UnsafeContext, a)
        BY <1>5, <1>9, CarriesDefine
    <2> QED
        BY <2>1, <2>2
<1>11. Carries(Append(symbols, << >>), symbols', Len(symbols) + 1, Len(symbols'), UnsafeContext, a)
    BY <1>9, <1>10 DEF base
<1>12. Carries(symbols, symbols', Len(symbols), Len(symbols'), UnsafeContext, a)
    BY <1>1, <1>11, CarriesAppend
<1>13. Len(ctl') = Len(ctl) + 1 /\ AlikeTo(ctl, ctl', Len(ctl) + 1) /\ ctl'[Len(ctl')] = f
    BY <1>1, <1>2, <1>4, AlikePush
<1>14. /\ One(ctl'[Len(ctl')].k \in TableKinds) = 1 /\ One(ctl'[Len(ctl')].k \in HeapKinds) = 0
       /\ ctl'[Len(ctl')].k # "call"
    BY <1>4, <1>13 DEF One, TableKinds, HeapKinds, Bodies
<1>15. /\ Len(symbols') = Len(symbols) + One(ctl'[Len(ctl')].k \in TableKinds)
       /\ Len(scope_allocations') = Len(scope_allocations) + One(ctl'[Len(ctl')].k \in HeapKinds)
    BY <1>1, <1>7, <1>9, <1>10, <1>14
<1>16. Good(ctl, symbols, scope_allocations, saved_symbol_stacks)
    BY DEF Bound
<1>17. Good(ctl', symbols', scope_allocations', saved_symbol_stacks)
    BY <1>1, <1>8, <1>12, <1>13, <1>14, <1>15, <1>16, GoodPush
<1> QED
    BY <1>2, <1>17 DEF Bound

LEMMA LeaveUnsafeBound ==
    ASSUME Inv, Inv', Bound, LeaveUnsafe
    PROVE  Bound'
<1>1. /\ ctl \in Seq(FrameType) /\ symbols \in Seq(ScopeType) /\ symbols' \in Seq(ScopeType)
      /\ scope_allocations \in Seq(SUBSET Nat) /\ saved_symbol_stacks \in Seq(Seq(ScopeType))
      /\ scope_allocations # << >> /\ symbols # << >> /\ ctl' \in Seq(FrameType)
      /\ Len(scope_allocations) \in Nat /\ Len(ctl) \in Nat /\ Len(ctl) <= Len(ctl)
    BY InvFacts, TypedAfter
<1>2. /\ ctl # << >> /\ Top.k = "unsafe" /\ ctl' = Front(ctl) /\ symbols' = Front(symbols)
      /\ UNCHANGED <<heapVars, saved_symbol_stacks>>
    BY DEF LeaveUnsafe, AtEnd, Running, Pop
<1>3. Top = ctl[Len(ctl)]
    BY <1>2, TopIsLast
<1>4. Len(ctl') = Len(ctl) - 1 /\ Len(symbols') = Len(symbols) - 1
    BY <1>1, <1>2, FrontAppend
<1>5. AlikeTo(ctl, ctl', Len(ctl))
    BY <1>1, <1>2, AlikeFront
<1>6. One(Top.k \in TableKinds) = 1 /\ One(Top.k \in HeapKinds) = 0
    BY <1>2 DEF One, TableKinds, HeapKinds, Bodies
<1>7. /\ 0 <= One(ctl[Len(ctl)].k \in HeapKinds) /\ ctl[Len(ctl)].k # "call" /\ 0 \in Nat /\ 1 \in Nat
      /\ One(ctl[Len(ctl)].k \in TableKinds) - 1 <= One(ctl[Len(ctl)].k \in HeapKinds) - 0
    BY <1>2, <1>3, <1>6
<1>8. Len(scope_allocations) = Len(scope_allocations) - 0
    BY <1>1
<1>9. Retains(scope_allocations, scope_allocations)
    BY <1>1 DEF Retains
<1>10. NewBlock(scope_allocations, scope_allocations, symbols', -1)
    BY <1>1, NoNewBlock
<1>11. Carries(symbols, symbols', Len(symbols'), Len(symbols'), 0, -1)
    BY <1>1, <1>2, <1>4, CarriesFront
<1>12. Good(ctl, symbols, scope_allocations, saved_symbol_stacks)
    BY DEF Bound
<1>13. Good(ctl', symbols', scope_allocations, saved_symbol_stacks)
    BY <1>1, <1>2, <1>4, <1>5, <1>7, <1>8, <1>9, <1>10, <1>11, <1>12, GoodPop
<1> QED
    BY <1>2, <1>13 DEF Bound, heapVars

LEMMA PointersBound ==
    ASSUME Inv, Inv', Bound, Pointers
    PROVE  Bound'
<1>1. ASSUME NEW v \in Vals, PtrNew(v)
      PROVE  Bound'
    BY <1>1, BindBound DEF PtrNew, scopeVars
<1>2. ASSUME NEW v \in Vals, NEW a \in PtrAddrs, PtrWrite(a, v)
      PROVE  Bound'
    BY <1>2, SameBound DEF PtrWrite, write, scopeVars
<1> QED
    BY <1>1, <1>2, EnterUnsafeBound, LeaveUnsafeBound DEF Pointers

-----------------------------------------------------------------------------
(* The theorems.                                                           *)

LEMMA InitBound == Init => Bound
<1> SUFFICES ASSUME Init PROVE Bound
    OBVIOUS
<1>1. /\ ctl = << >> /\ symbols = << << >> >> /\ scope_allocations = <<{}>>
      /\ saved_symbol_stacks = << >>
    BY DEF Init, HeapInit
<1>2. DOMAIN symbols = 1..1 /\ symbols[1] = << >> /\ DOMAIN << >> = {} /\ DOMAIN saved_symbol_stacks = {}
    BY <1>1
<1>3. \A i \in DOMAIN symbols : DOMAIN symbols[i] = {}
    BY <1>2
<1>4. Kept(symbols, ctl, scope_allocations, Len(ctl) + 1)
    BY <1>3 DEF Kept
<1>5. /\ << >> \in [DOMAIN saved_symbol_stacks -> DOMAIN ctl]
      /\ Places(<< >>, ctl, saved_symbol_stacks)
    BY <1>1, <1>2 DEF Places
<1>6. \E idx \in [DOMAIN saved_symbol_stacks -> DOMAIN ctl] :
          /\ Places(idx, ctl, saved_symbol_stacks)
          /\ \A k \in DOMAIN saved_symbol_stacks :
                Kept(saved_symbol_stacks[k], ctl, scope_allocations, idx[k])
    BY <1>2, <1>5
<1>7. Apart(saved_symbol_stacks, symbols)
    BY <1>2, <1>3 DEF Apart, Differ
<1> QED
    BY <1>4, <1>6, <1>7 DEF Bound, Good, Safe

LEMMA NextBound ==
    ASSUME Inv, Inv', Bound, [Next]_vars, "nestedStatic" \notin Features
    PROVE  Bound'
<1>1. CASE NextTopLevel
    BY <1>1, SameBound DEF NextTopLevel, heapVars
<1>2. CASE UNCHANGED vars
    BY <1>2, SameBound DEF vars, scopeVars, heapVars
<1> QED
    BY <1>1, <1>2, StatementBound, LoopsBound, CallsBound, BlocksBound, PointersBound DEF Next

LEMMA BoundLive == Inv /\ Bound => BindingsLive
<1> SUFFICES ASSUME Inv, Bound PROVE BindingsLive
    OBVIOUS
<1>1. Safe(ctl, symbols, scope_allocations, saved_symbol_stacks)
    BY DEF Bound, Good
<1>2. \A o \in DOMAIN scope_allocations : scope_allocations[o] \subseteq DOMAIN metadata
    BY InvFacts DEF HeapOK, OwnedOnce
<1>3. ASSUME NEW t \in Tables, NEW i \in DOMAIN t, NEW n \in DOMAIN t[i]
      PROVE  t[i][n].addr \in DOMAIN metadata
    <2>1. t = symbols \/ \E k \in DOMAIN saved_symbol_stacks : t = saved_symbol_stacks[k]
        BY <1>3 DEF Tables, Range
    <2>2. \E o \in DOMAIN scope_allocations : t[i][n].addr \in scope_allocations[o]
        BY <1>1, <1>3, <2>1, Owners
    <2> QED
        BY <1>2, <2>2
<1> QED
    BY <1>3 DEF BindingsLive, TableAddrs, AddrsOf

LEMMA BoundApart == Bound => NoAliasing
<1> SUFFICES ASSUME Bound PROVE NoAliasing
    OBVIOUS
<1>1. Apart(saved_symbol_stacks, symbols)
    BY DEF Bound, Good
<1>2. \A t \in Tables : t = symbols \/ \E k \in DOMAIN saved_symbol_stacks : t = saved_symbol_stacks[k]
    BY DEF Tables, Range
<1> SUFFICES ASSUME NEW s \in Tables, NEW t \in Tables, NEW i \in DOMAIN s, NEW j \in DOMAIN t,
                    NEW n \in DOMAIN s[i], NEW m \in DOMAIN t[j], s[i][n].addr = t[j][m].addr
             PROVE  n = m /\ i = j /\ (s = t \/ i = 1)
    BY DEF NoAliasing
<1>3. CASE s = symbols /\ t = symbols
    BY <1>1, <1>3 DEF Apart, Differ
<1>4. ASSUME NEW k \in DOMAIN saved_symbol_stacks, s = saved_symbol_stacks[k], t = symbols
      PROVE  n = m /\ i = j /\ i = 1
    BY <1>1, <1>4 DEF Apart, Differ
<1>5. ASSUME NEW k \in DOMAIN saved_symbol_stacks, s = symbols, t = saved_symbol_stacks[k]
      PROVE  n = m /\ i = j /\ i = 1
    BY <1>1, <1>5 DEF Apart, Differ
<1>6. ASSUME NEW k \in DOMAIN saved_symbol_stacks, NEW l \in DOMAIN saved_symbol_stacks,
             s = saved_symbol_stacks[k], t = saved_symbol_stacks[l]
      PROVE  n = m /\ i = j /\ (s = t \/ i = 1)
    <2>1. Differ(s, t, k = l)
        BY <1>1, <1>6 DEF Apart
    <2>2. k = l => s = t
        BY <1>6
    <2> QED
        BY <2>1, <2>2 DEF Differ
<1> QED
    BY <1>2, <1>3, <1>4, <1>5, <1>6

\* Both invariants hold throughout every behaviour of a program that defines
\* no `static` in a nested block.
THEOREM BoundInvariant ==
    ASSUME "nestedStatic" \notin Features
    PROVE  Spec => [](Inv /\ Bound)
<1>1. Init => Inv /\ Bound
    BY InitInv, InitBound
<1>2. Inv /\ Bound /\ [Next]_vars => Inv' /\ Bound'
    BY NextInv, NextBound
<1> QED
    BY <1>1, <1>2, PTL DEF Spec

\* No scope exit, collection, return or unwinding frees the block of a variable
\* that can still be named, by the function that is running or by one of its
\* callers, even after errors in the head of a C-style for or a method call
\* have left scopes behind: pop_scope, collect_garbage, call_function and the
\* `?` returns of the interpreter against its symbol tables.
THEOREM VariablesLive ==
    ASSUME "nestedStatic" \notin Features
    PROVE  Spec => []BindingsLive
BY BoundInvariant, BoundLive, PTL

\* Two variables never share a block, in one activation or in two, but for the
\* outermost scope that call_function copies.
THEOREM VariablesApart ==
    ASSUME "nestedStatic" \notin Features
    PROVE  Spec => []NoAliasing
BY BoundInvariant, BoundApart, PTL
=============================================================================
