---------------------------- MODULE BalanceProofs ----------------------------
(***************************************************************************)
(* Scopes, saved stacks and call depth are exactly as high as the          *)
(* constructs in progress say, for every program in which no error or      *)
(* signal arises in the head of a C-style for or among the arguments of a  *)
(* method.                                                                 *)
(*                                                                         *)
(* The equation alone is not inductive: a head that is left without a pop  *)
(* must never meet an error.  That it cannot arise there is assumed, but   *)
(* an error may come out long after it arose: a deferred expression or a   *)
(* finally block holds it back, and heads are entered meanwhile.  So the   *)
(* invariant also says where no such head can be, for the error being      *)
(* propagated and for each one held back.                                  *)
(***************************************************************************)
EXTENDS ScopesProofs

\* None of the constructs is a head that an error leaves without a pop.
Clear(c) == \A i \in 1..Len(c) : ~LeakyHead(c[i])

\* Below a construct that holds an error back there is none.
Held(c) == \A j \in 1..Len(c) : c[j].pend # "none" => \A i \in 1..(j - 1) : ~LeakyHead(c[i])

\* A C-style for whose body runs has an iteration on top of it; otherwise it
\* is in its head, where an error leaks, or about to be left.
HeadPhases == {"init", "cond", "update", "exit"}
Bodied(c) ==
    \A i \in 1..Len(c) :
        c[i].k = "cfor" => c[i].ph \in HeadPhases \/ (i + 1 \in 1..Len(c) /\ c[i + 1].k = "iter")

Calm(c, e) == (e # "none" => Clear(c)) /\ Held(c) /\ Bodied(c)

\* What there was before the first of the constructs: for the program one heap
\* scope; more for a program that is run in the middle of another one.
Floors == [heap : Nat, depth : Nat, saved : Nat]
Ground == [heap |-> 1, depth |-> 0, saved |-> 0]

\* H heap scopes, call depth d and n saved stacks are those of the constructs.
Exact(fl, c, H, d, n) ==
    /\ H = fl.heap + Cnt(c, HeapKinds)
    /\ d = fl.depth + Cnt(c, DepthKinds)
    /\ n = fl.saved + Cnt(c, {"call"})

\* What the invariant of ScopesProofs lacks.
Even(fl) ==
    /\ Exact(fl, ctl, Len(scope_allocations), call_depth, Len(saved_symbol_stacks))
    /\ Calm(ctl, err)

-----------------------------------------------------------------------------
(* Heads and errors when a construct begins, ends or changes.              *)

LEMMA ClearAppend ==
    ASSUME NEW c \in Seq(FrameType), NEW f \in FrameType
    PROVE  Clear(Append(c, f)) <=> Clear(c) /\ ~LeakyHead(f)
<1> DEFINE n == Len(c)
           d == Append(c, f)
<1>1. n \in Nat /\ Len(d) = n + 1 /\ d[n + 1] = f /\ \A i \in 1..n : d[i] = c[i]
    OBVIOUS
<1> HIDE DEF n, d
<1>2. /\ \A i \in 1..(n + 1) : i \in 1..n \/ i = n + 1
      /\ \A i \in 1..n : i \in 1..(n + 1)
      /\ n + 1 \in 1..(n + 1)
    BY <1>1
<1>3. Clear(d) <=> \A i \in 1..(n + 1) : ~LeakyHead(d[i])
    BY <1>1 DEF Clear
<1>4. Clear(c) <=> \A i \in 1..n : ~LeakyHead(c[i])
    BY DEF Clear, n
<1>5. Clear(d) <=> Clear(c) /\ ~LeakyHead(f)
    BY <1>1, <1>2, <1>3, <1>4
<1> QED
    BY <1>5 DEF d

LEMMA ClearFront ==
    ASSUME NEW c \in Seq(FrameType), c # << >>
    PROVE  Clear(c) <=> Clear(Front(c)) /\ ~LeakyHead(Last(c))
<1>1. Front(c) \in Seq(FrameType) /\ Last(c) \in FrameType
    BY FrontAppend
<1>2. c = Append(Front(c), Last(c))
    BY <1>1, AppendOfFront
<1>3. Clear(Append(Front(c), Last(c))) <=> Clear(Front(c)) /\ ~LeakyHead(Last(c))
    BY <1>1, ClearAppend
<1> QED
    BY <1>2, <1>3

LEMMA HeldAppend ==
    ASSUME NEW c \in Seq(FrameType), NEW f \in FrameType, Held(c),
           f.pend # "none" => Clear(c)
    PROVE  Held(Append(c, f))
<1> DEFINE n == Len(c)
           d == Append(c, f)
<1>1. n \in Nat /\ Len(d) = n + 1 /\ d[n + 1] = f /\ \A i \in 1..n : d[i] = c[i]
    OBVIOUS
<1> HIDE DEF n, d
<1>2. ASSUME NEW j \in 1..(n + 1), d[j].pend # "none", NEW i \in 1..(j - 1)
      PROVE  ~LeakyHead(d[i])
    <2>1. i \in 1..n /\ (j \in 1..n \/ j = n + 1)
        BY <1>1
    <2>2. d[i] = c[i]
        BY <1>1, <2>1
    <2>3. CASE j \in 1..n
        <3>1. c[j].pend # "none"
            BY <1>1, <1>2, <2>3
        <3> QED
            BY <3>1, <2>2, <2>3 DEF Held, n
    <2>4. CASE j = n + 1
        <3>1. Clear(c)
            BY <1>1, <1>2, <2>4
        <3> QED
            BY <3>1, <2>1, <2>2 DEF Clear, n
    <2> QED
        BY <2>1, <2>3, <2>4
<1>3. Held(d)
    BY <1>1, <1>2 DEF Held
<1> QED
    BY <1>3 DEF d

LEMMA HeldFront ==
    ASSUME NEW c \in Seq(FrameType), c # << >>, Held(c)
    PROVE  Held(Front(c)) /\ (Last(c).pend # "none" => Clear(Front(c)))
<1> DEFINE n == Len(c)
           d == Front(c)
<1>1. /\ n \in Nat /\ n >= 1 /\ n \in 1..n /\ Len(d) = n - 1 /\ Last(c) = c[n]
      /\ \A i \in 1..(n - 1) : d[i] = c[i] /\ i \in 1..n
    BY FrontAppend
<1> HIDE DEF n, d
<1>2. ASSUME NEW j \in 1..(n - 1), d[j].pend # "none", NEW i \in 1..(j - 1)
      PROVE  ~LeakyHead(d[i])
    <2>1. i \in 1..(n - 1)
        BY <1>1
    <2>2. d[i] = c[i] /\ c[j].pend # "none" /\ j \in 1..n
        BY <1>1, <1>2, <2>1
    <2> QED
        BY <2>2 DEF Held, n
<1>3. Held(d)
    BY <1>1, <1>2 DEF Held
<1>4. ASSUME Last(c).pend # "none" PROVE Clear(d)
    <2>1. \A i \in 1..(n - 1) : ~LeakyHead(c[i])
        BY <1>1, <1>4 DEF Held, n
    <2> QED
        BY <1>1, <2>1 DEF Clear
<1> QED
    BY <1>3, <1>4 DEF d

\* A new innermost construct: an iteration, or a C-style for only in its head.
LEMMA BodiedAppend ==
    ASSUME NEW c \in Seq(FrameType), NEW f \in FrameType, Bodied(c),
           f.k = "cfor" => f.ph \in HeadPhases
    PROVE  Bodied(Append(c, f))
<1> DEFINE n == Len(c)
           d == Append(c, f)
<1>1. n \in Nat /\ Len(d) = n + 1 /\ d[n + 1] = f /\ \A i \in 1..n : d[i] = c[i]
    OBVIOUS
<1> HIDE DEF n, d
<1>2. ASSUME NEW i \in 1..(n + 1), d[i].k = "cfor", d[i].ph \notin HeadPhases
      PROVE  i + 1 \in 1..(n + 1) /\ d[i + 1].k = "iter"
    <2>1. i # n + 1
        BY <1>1, <1>2
    <2>2. i \in 1..n
        BY <1>1, <2>1
    <2>3. c[i].k = "cfor" /\ c[i].ph \notin HeadPhases
        BY <1>1, <1>2, <2>2
    <2>4. i + 1 \in 1..n /\ c[i + 1].k = "iter"
        BY <2>2, <2>3 DEF Bodied, n
    <2>5. i + 1 \in 1..(n + 1)
        BY <1>1, <2>4
    <2> QED
        BY <1>1, <2>4, <2>5
<1>3. Bodied(d)
    BY <1>1, <1>2 DEF Bodied
<1> QED
    BY <1>3 DEF d

\* The innermost construct ends, or changes and remains an iteration if it is one.
LEMMA BodiedFront ==
    ASSUME NEW c \in Seq(FrameType), c # << >>, Bodied(c), Last(c).k # "iter"
    PROVE  Bodied(Front(c))
<1> DEFINE n == Len(c)
           d == Front(c)
<1>1. /\ n \in Nat /\ n >= 1 /\ Len(d) = n - 1 /\ Last(c) = c[n]
      /\ \A i \in 1..(n - 1) : d[i] = c[i] /\ i \in 1..n
    BY FrontAppend
<1> HIDE DEF n, d
<1>2. ASSUME NEW i \in 1..(n - 1), d[i].k = "cfor", d[i].ph \notin HeadPhases
      PROVE  i + 1 \in 1..(n - 1) /\ d[i + 1].k = "iter"
    <2>1. i \in 1..n /\ c[i].k = "cfor" /\ c[i].ph \notin HeadPhases
        BY <1>1, <1>2
    <2>2. i + 1 \in 1..n /\ c[i + 1].k = "iter"
        BY <2>1 DEF Bodied, n
    <2>3. i + 1 # n
        BY <1>1, <2>2
    <2>4. i + 1 \in 1..(n - 1)
        BY <1>1, <2>2, <2>3
    <2> QED
        BY <1>1, <2>2, <2>4
<1>3. Bodied(d)
    BY <1>1, <1>2 DEF Bodied
<1> QED
    BY <1>3 DEF d

LEMMA BodiedTouch ==
    ASSUME NEW c \in Seq(FrameType), c # << >>, Bodied(c), NEW f \in FrameType,
           f.k = "cfor" => f.ph \in HeadPhases, Last(c).k = "iter" => f.k = "iter"
    PROVE  Bodied(Append(Front(c), f))
<1> DEFINE n == Len(c)
           d == Append(Front(c), f)
<1>1. /\ n \in Nat /\ n >= 1 /\ n \in 1..n /\ Len(Front(c)) = n - 1 /\ Last(c) = c[n]
      /\ Front(c) \in Seq(FrameType)
      /\ \A i \in 1..(n - 1) : Front(c)[i] = c[i] /\ i \in 1..n
    BY FrontAppend
<1>2. Len(d) = n /\ d[n] = f /\ \A i \in 1..(n - 1) : d[i] = c[i]
    BY <1>1
<1> HIDE DEF n, d
<1>3. ASSUME NEW i \in 1..n, d[i].k = "cfor", d[i].ph \notin HeadPhases
      PROVE  i + 1 \in 1..n /\ d[i + 1].k = "iter"
    <2>1. i # n
        BY <1>2, <1>3
    <2>2. i \in 1..(n - 1)
        BY <1>1, <2>1
    <2>3. c[i].k = "cfor" /\ c[i].ph \notin HeadPhases
        BY <1>2, <1>3, <2>2
    <2>4. i + 1 \in 1..n /\ c[i + 1].k = "iter"
        BY <1>3, <2>3 DEF Bodied, n
    <2>5. CASE i + 1 = n
        BY <1>1, <1>2, <2>4, <2>5
    <2>6. CASE i + 1 # n
        <3>1. i + 1 \in 1..(n - 1)
            BY <1>1, <2>4, <2>6
        <3> QED
            BY <1>2, <2>4, <3>1
    <2> QED
        BY <2>5, <2>6
<1>4. Bodied(d)
    BY <1>2, <1>3 DEF Bodied
<1> QED
    BY <1>4 DEF d

\* A loop gets an iteration.
LEMMA BodiedIterate ==
    ASSUME NEW c \in Seq(FrameType), NEW f \in FrameType, NEW g \in FrameType,
           Bodied(c), g.k = "iter"
    PROVE  Bodied(Append(Append(c, f), g))
<1> DEFINE n == Len(c)
           d == Append(Append(c, f), g)
<1>1. n \in Nat /\ Append(c, f) \in Seq(FrameType) /\ Len(Append(c, f)) = n + 1
      /\ \A i \in 1..n : Append(c, f)[i] = c[i]
    OBVIOUS
<1>2. Len(d) = n + 2 /\ d[n + 2] = g
    BY <1>1
<1>3. \A i \in 1..n : d[i] = c[i]
    <2>1. \A i \in 1..n : i \in 1..(n + 1)
        BY <1>1
    <2> QED
        BY <1>1, <2>1
<1> HIDE DEF n, d
<1>4. ASSUME NEW i \in 1..(n + 2), d[i].k = "cfor", d[i].ph \notin HeadPhases
      PROVE  i + 1 \in 1..(n + 2) /\ d[i + 1].k = "iter"
    <2>1. i # n + 2
        BY <1>2, <1>4
    <2>2. CASE i = n + 1
        <3>1. i + 1 = n + 2 /\ i + 1 \in 1..(n + 2)
            BY <1>1, <2>2
        <3> QED
            BY <1>2, <3>1
    <2>3. CASE i # n + 1
        <3>1. i \in 1..n
            BY <1>1, <2>1, <2>3
        <3>2. c[i].k = "cfor" /\ c[i].ph \notin HeadPhases
            BY <1>3, <1>4, <3>1
        <3>3. i + 1 \in 1..n /\ c[i + 1].k = "iter"
            BY <3>1, <3>2 DEF Bodied, n
        <3>4. i + 1 \in 1..(n + 2)
            BY <1>1, <3>3
        <3> QED
            BY <1>3, <3>3, <3>4
    <2> QED
        BY <2>2, <2>3
<1>5. Bodied(d)
    BY <1>2, <1>4 DEF Bodied
<1> QED
    BY <1>5 DEF d

\* An iteration and its loop end together.
LEMMA BodiedFronts ==
    ASSUME NEW c \in Seq(FrameType), c # << >>, Bodied(c),
           Front(c) # << >>, Last(Front(c)).k # "iter"
    PROVE  Bodied(Front(Front(c)))
<1> DEFINE n == Len(c)
           b == Front(c)
           d == Front(b)
<1>1. /\ n \in Nat /\ n >= 1 /\ Len(b) = n - 1 /\ b \in Seq(FrameType)
      /\ \A i \in 1..(n - 1) : b[i] = c[i] /\ i \in 1..n
    BY FrontAppend
<1> HIDE DEF n, b
<1>2. /\ Len(b) >= 1 /\ Len(d) = Len(b) - 1 /\ Last(b) = b[Len(b)]
      /\ \A i \in 1..(Len(b) - 1) : d[i] = b[i] /\ i \in 1..Len(b)
    BY <1>1, FrontAppend DEF b
<1> HIDE DEF d
<1>3. n >= 2 /\ Len(d) = n - 2 /\ Last(b) = c[n - 1] /\ \A i \in 1..(n - 2) : d[i] = c[i]
    <2>1. n >= 2 /\ Len(b) - 1 = n - 2 /\ Len(d) = n - 2 /\ n - 1 \in 1..(n - 1)
        BY <1>1, <1>2
    <2>2. Last(b) = c[n - 1]
        BY <1>1, <1>2, <2>1
    <2>3. ASSUME NEW i \in 1..(n - 2) PROVE d[i] = c[i]
        <3>1. i \in 1..(n - 1) /\ i \in 1..(Len(b) - 1)
            BY <1>1, <2>1
        <3> QED
            BY <1>1, <1>2, <3>1
    <2> QED
        BY <2>1, <2>2, <2>3
<1>4. ASSUME NEW i \in 1..(n - 2), d[i].k = "cfor", d[i].ph \notin HeadPhases
      PROVE  i + 1 \in 1..(n - 2) /\ d[i + 1].k = "iter"
    <2>1. i \in 1..n /\ c[i].k = "cfor" /\ c[i].ph \notin HeadPhases
        BY <1>1, <1>3, <1>4
    <2>2. i + 1 \in 1..n /\ c[i + 1].k = "iter"
        BY <2>1 DEF Bodied, n
    <2>3. i + 1 # n - 1
        BY <1>3, <2>2 DEF b
    <2>4. i + 1 \in 1..(n - 2)
        BY <1>1, <1>3, <2>2, <2>3
    <2> QED
        BY <1>3, <2>2, <2>4
<1>5. Bodied(d)
    BY <1>3, <1>4 DEF Bodied
<1> QED
    BY <1>5 DEF d, b

-----------------------------------------------------------------------------
(* The moves of a stack of constructs.                                     *)

LEMMA OneNat == \A b : One(b) \in Nat
BY DEF One

\* x is b and k together; a count and what it stands for go up, or down, by the
\* same amount.
IsSum(x, b, k) == x = b + k

LEMMA BothUp ==
    ASSUME NEW b \in Nat, NEW k \in Nat, NEW o \in Nat, NEW x, NEW y, IsSum(x, b, k), IsSum(y, k, o)
    PROVE  IsSum(x + o, b, y)
BY DEF IsSum

LEMMA BothDown ==
    ASSUME NEW b \in Nat, NEW k \in Nat, NEW o \in Nat, NEW x, NEW y, IsSum(x, b, y), IsSum(y, k, o)
    PROVE  IsSum(x - o, b, k)
BY DEF IsSum

LEMMA ExactPush ==
    ASSUME NEW fl \in Floors, NEW c \in Seq(FrameType), NEW f \in FrameType, NEW H, NEW d, NEW n,
           Exact(fl, c, H, d, n)
    PROVE  Exact(fl, Append(c, f), H + One(f.k \in HeapKinds), d + One(f.k \in DepthKinds),
                 n + One(f.k \in {"call"}))
<1>1. Cnt(c, HeapKinds) \in Nat /\ Cnt(c, DepthKinds) \in Nat /\ Cnt(c, {"call"}) \in Nat
    BY CntFinite
<1>2. /\ Cnt(Append(c, f), HeapKinds) = Cnt(c, HeapKinds) + One(f.k \in HeapKinds)
      /\ Cnt(Append(c, f), DepthKinds) = Cnt(c, DepthKinds) + One(f.k \in DepthKinds)
      /\ Cnt(Append(c, f), {"call"}) = Cnt(c, {"call"}) + One(f.k \in {"call"})
    BY CntAppend
<1>3. \A b : One(b) \in Nat
    BY OneNat
<1>4. /\ One(f.k \in HeapKinds) \in Nat /\ One(f.k \in DepthKinds) \in Nat
      /\ One(f.k \in {"call"}) \in Nat
    BY <1>3
<1>5. fl.heap \in Nat /\ fl.depth \in Nat /\ fl.saved \in Nat
    BY DEF Floors
<1>6. H = fl.heap + Cnt(c, HeapKinds) /\ d = fl.depth + Cnt(c, DepthKinds) /\ n = fl.saved + Cnt(c, {"call"})
    BY DEF Exact
<1>7. H + One(f.k \in HeapKinds) = fl.heap + Cnt(Append(c, f), HeapKinds)
    <2>1. /\ IsSum(H, fl.heap, Cnt(c, HeapKinds))
          /\ IsSum(Cnt(Append(c, f), HeapKinds), Cnt(c, HeapKinds), One(f.k \in HeapKinds))
        BY <1>2, <1>6 DEF IsSum
    <2>2. IsSum(H + One(f.k \in HeapKinds), fl.heap, Cnt(Append(c, f), HeapKinds))
        BY <2>1, <1>1, <1>4, <1>5, BothUp
    <2> QED
        BY <2>2 DEF IsSum
<1>8. d + One(f.k \in DepthKinds) = fl.depth + Cnt(Append(c, f), DepthKinds)
    <2>1. /\ IsSum(d, fl.depth, Cnt(c, DepthKinds))
          /\ IsSum(Cnt(Append(c, f), DepthKinds), Cnt(c, DepthKinds), One(f.k \in DepthKinds))
        BY <1>2, <1>6 DEF IsSum
    <2>2. IsSum(d + One(f.k \in DepthKinds), fl.depth, Cnt(Append(c, f), DepthKinds))
        BY <2>1, <1>1, <1>4, <1>5, BothUp
    <2> QED
        BY <2>2 DEF IsSum
<1>9. n + One(f.k \in {"call"}) = fl.saved + Cnt(Append(c, f), {"call"})
    <2>1. /\ IsSum(n, fl.saved, Cnt(c, {"call"}))
          /\ IsSum(Cnt(Append(c, f), {"call"}), Cnt(c, {"call"}), One(f.k \in {"call"}))
        BY <1>2, <1>6 DEF IsSum
    <2>2. IsSum(n + One(f.k \in {"call"}), fl.saved, Cnt(Append(c, f), {"call"}))
        BY <2>1, <1>1, <1>4, <1>5, BothUp
    <2> QED
        BY <2>2 DEF IsSum
<1> QED
    BY <1>7, <1>8, <1>9 DEF Exact

LEMMA ExactPop ==
    ASSUME NEW fl \in Floors, NEW c \in Seq(FrameType), c # << >>, NEW H, NEW d, NEW n,
           Exact(fl, c, H, d, n)
    PROVE  Exact(fl, Front(c), H - One(Last(c).k \in HeapKinds), d - One(Last(c).k \in DepthKinds),
                 n - One(Last(c).k \in {"call"}))
<1>1. /\ Cnt(Front(c), HeapKinds) \in Nat /\ Cnt(Front(c), DepthKinds) \in Nat
      /\ Cnt(Front(c), {"call"}) \in Nat
      /\ Cnt(c, HeapKinds) = Cnt(Front(c), HeapKinds) + One(Last(c).k \in HeapKinds)
      /\ Cnt(c, DepthKinds) = Cnt(Front(c), DepthKinds) + One(Last(c).k \in DepthKinds)
      /\ Cnt(c, {"call"}) = Cnt(Front(c), {"call"}) + One(Last(c).k \in {"call"})
    BY CntFront
<1>2. \A b : One(b) \in Nat
    BY OneNat
<1>3. /\ One(Last(c).k \in HeapKinds) \in Nat /\ One(Last(c).k \in DepthKinds) \in Nat
      /\ One(Last(c).k \in {"call"}) \in Nat
    BY <1>2
<1>4. fl.heap \in Nat /\ fl.depth \in Nat /\ fl.saved \in Nat
    BY DEF Floors
<1>5. H = fl.heap + Cnt(c, HeapKinds) /\ d = fl.depth + Cnt(c, DepthKinds) /\ n = fl.saved + Cnt(c, {"call"})
    BY DEF Exact
<1>6. H - One(Last(c).k \in HeapKinds) = fl.heap + Cnt(Front(c), HeapKinds)
    <2>1. /\ IsSum(H, fl.heap, Cnt(c, HeapKinds))
          /\ IsSum(Cnt(c, HeapKinds), Cnt(Front(c), HeapKinds), One(Last(c).k \in HeapKinds))
        BY <1>1, <1>5 DEF IsSum
    <2>2. IsSum(H - One(Last(c).k \in HeapKinds), fl.heap, Cnt(Front(c), HeapKinds))
        BY <2>1, <1>1, <1>3, <1>4, BothDown
    <2> QED
        BY <2>2 DEF IsSum
<1>7. d - One(Last(c).k \in DepthKinds) = fl.depth + Cnt(Front(c), DepthKinds)
    <2>1. /\ IsSum(d, fl.depth, Cnt(c, DepthKinds))
          /\ IsSum(Cnt(c, DepthKinds), Cnt(Front(c), DepthKinds), One(Last(c).k \in DepthKinds))
        BY <1>1, <1>5 DEF IsSum
    <2>2. IsSum(d - One(Last(c).k \in DepthKinds), fl.depth, Cnt(Front(c), DepthKinds))
        BY <2>1, <1>1, <1>3, <1>4, BothDown
    <2> QED
        BY <2>2 DEF IsSum
<1>8. n - One(Last(c).k \in {"call"}) = fl.saved + Cnt(Front(c), {"call"})
    <2>1. /\ IsSum(n, fl.saved, Cnt(c, {"call"}))
          /\ IsSum(Cnt(c, {"call"}), Cnt(Front(c), {"call"}), One(Last(c).k \in {"call"}))
        BY <1>1, <1>5 DEF IsSum
    <2>2. IsSum(n - One(Last(c).k \in {"call"}), fl.saved, Cnt(Front(c), {"call"}))
        BY <2>1, <1>1, <1>3, <1>4, BothDown
    <2> QED
        BY <2>2 DEF IsSum
<1> QED
    BY <1>6, <1>7, <1>8 DEF Exact

LEMMA CalmPush ==
    ASSUME NEW c \in Seq(FrameType), NEW e, NEW f \in FrameType, NEW e2, Calm(c, e),
           f.k = "cfor" => f.ph \in HeadPhases,
           f.pend # "none" => Clear(c),
           e2 # "none" => Clear(c) /\ ~LeakyHead(f)
    PROVE  Calm(Append(c, f), e2)
BY ClearAppend, HeldAppend, BodiedAppend DEF Calm

LEMMA CalmPop ==
    ASSUME NEW c \in Seq(FrameType), c # << >>, NEW e, NEW e2, Calm(c, e),
           Last(c).k # "iter",
           e2 # "none" => e # "none" \/ Clear(Front(c))
    PROVE  Calm(Front(c), e2)
BY ClearFront, HeldFront, BodiedFront DEF Calm

LEMMA CalmTouch ==
    ASSUME NEW c \in Seq(FrameType), c # << >>, NEW e, NEW f \in FrameType, NEW e2, Calm(c, e),
           f.k = "cfor" => f.ph \in HeadPhases,
           Last(c).k = "iter" => f.k = "iter",
           f.pend \in {Last(c).pend, e, "none"},
           e2 # "none" => Clear(Front(c)) /\ ~LeakyHead(f)
    PROVE  Calm(Append(Front(c), f), e2)
<1>1. Front(c) \in Seq(FrameType)
    BY FrontAppend
<1>2. Held(Front(c)) /\ (Last(c).pend # "none" => Clear(Front(c)))
    BY HeldFront DEF Calm
<1>3. e # "none" => Clear(Front(c))
    BY ClearFront DEF Calm
<1>4. Held(Append(Front(c), f))
    BY <1>1, <1>2, <1>3, HeldAppend
<1>5. Bodied(Append(Front(c), f))
    BY BodiedTouch DEF Calm
<1>6. e2 # "none" => Clear(Append(Front(c), f))
    BY <1>1, ClearAppend
<1> QED
    BY <1>4, <1>5, <1>6 DEF Calm

-----------------------------------------------------------------------------
(* The moves in the states of the interpreter.                             *)

LEMMA ControlFacts ==
    ASSUME Inv
    PROVE  /\ ctl \in Seq(FrameType) /\ err \in Errs
           /\ Len(scope_allocations) \in Nat /\ call_depth \in Nat
           /\ saved_symbol_stacks \in Seq(Seq(ScopeType)) /\ Len(saved_symbol_stacks) \in Nat
           /\ ctl # << >> =>
                 /\ Top = Last(ctl) /\ Top \in FrameType
                 /\ \A f \in FrameType : [ctl EXCEPT ![Len(ctl)] = f] = Append(Front(ctl), f)
<1>1. /\ ctl \in Seq(FrameType) /\ err \in Errs
      /\ Len(scope_allocations) \in Nat /\ call_depth \in Nat
      /\ saved_symbol_stacks \in Seq(Seq(ScopeType))
    BY InvFacts
<1>2. Len(saved_symbol_stacks) \in Nat
    BY <1>1
<1>3. ctl # << >> => Top = Last(ctl) /\ Top \in FrameType
    BY <1>1, FrontAppend DEF Top
<1>4. ctl # << >> => \A f \in FrameType : [ctl EXCEPT ![Len(ctl)] = f] = Append(Front(ctl), f)
    BY <1>1, AppendOfFront
<1> QED
    BY <1>1, <1>2, <1>3, <1>4

\* No construct begins or ends.
LEMMA EvenStay ==
    ASSUME Inv, NEW fl \in Floors, Even(fl), UNCHANGED <<saved_symbol_stacks, call_depth, ctl>>,
           Len(scope_allocations') = Len(scope_allocations),
           err' # "none" => err # "none" \/ Clear(ctl)
    PROVE  Even(fl)'
BY DEF Even, Calm

\* A construct begins.
LEMMA EvenPush ==
    ASSUME Inv, NEW fl \in Floors, Even(fl), NEW k \in Bodies \cup Heads, NEW ph \in Phases,
           k = "cfor" => ph \in HeadPhases,
           ctl' = Append(ctl, Frame(k, ph)), err' = "none",
           Len(scope_allocations') = Len(scope_allocations) + One(k \in HeapKinds),
           call_depth' = call_depth + One(k \in DepthKinds),
           Len(saved_symbol_stacks') = Len(saved_symbol_stacks) + One(k \in {"call"})
    PROVE  Even(fl)'
<1> DEFINE f == Frame(k, ph)
<1>1. f \in FrameType /\ f.k = k
    BY FrameTyped
<1>2. f.ph = ph /\ f.pend = "none"
    BY DEF Frame
<1> HIDE DEF f
<1>3. ctl \in Seq(FrameType)
    BY ControlFacts
<1>4. Exact(fl, Append(ctl, f), Len(scope_allocations'), call_depth', Len(saved_symbol_stacks'))
    BY <1>1, <1>3, ExactPush DEF Even
<1>5. Calm(Append(ctl, f), "none")
    BY <1>1, <1>2, <1>3, CalmPush DEF Even
<1>6. ctl' = Append(ctl, f)
    BY DEF f
<1> QED
    BY <1>4, <1>5, <1>6 DEF Even

\* A construct, no iteration, ends.
LEMMA EvenPop ==
    ASSUME Inv, NEW fl \in Floors, Even(fl), ctl # << >>, Top.k # "iter", ctl' = Front(ctl),
           err' # "none" => err # "none" \/ Clear(Front(ctl)),
           Len(scope_allocations') = Len(scope_allocations) - One(Top.k \in HeapKinds),
           call_depth' = call_depth - One(Top.k \in DepthKinds),
           Len(saved_symbol_stacks') = Len(saved_symbol_stacks) - One(Top.k \in {"call"})
    PROVE  Even(fl)'
<1>1. ctl \in Seq(FrameType) /\ Top = Last(ctl)
    BY ControlFacts
<1>2. Exact(fl, Front(ctl), Len(scope_allocations'), call_depth', Len(saved_symbol_stacks'))
    BY <1>1, ExactPop DEF Even
<1>3. Calm(Front(ctl), err')
    BY <1>1, CalmPop DEF Even
<1> QED
    BY <1>2, <1>3 DEF Even

\* The innermost construct goes on as f.
LEMMA EvenBecomes ==
    ASSUME Inv, NEW fl \in Floors, Even(fl), ctl # << >>, NEW f \in FrameType, ctl' = [ctl EXCEPT ![Len(ctl)] = f],
           f.k = "cfor" => f.ph \in HeadPhases,
           Top.k = "iter" => f.k = "iter",
           f.pend \in {Top.pend, err, "none"},
           err' # "none" => Clear(Front(ctl)) /\ ~LeakyHead(f),
           Top.k # "call", f.k # "call",
           Len(scope_allocations') =
              (Len(scope_allocations) - One(Top.k \in HeapKinds)) + One(f.k \in HeapKinds),
           call_depth' = (call_depth - One(Top.k \in DepthKinds)) + One(f.k \in DepthKinds),
           UNCHANGED saved_symbol_stacks
    PROVE  Even(fl)'
<1>1. /\ ctl \in Seq(FrameType) /\ Top = Last(ctl) /\ Top \in FrameType
      /\ ctl' = Append(Front(ctl), f)
      /\ Len(saved_symbol_stacks) \in Nat
    BY ControlFacts
<1>2. Front(ctl) \in Seq(FrameType)
    BY <1>1, FrontAppend
<1>3. Exact(fl, Front(ctl), Len(scope_allocations) - One(Top.k \in HeapKinds),
            call_depth - One(Top.k \in DepthKinds),
            Len(saved_symbol_stacks) - One(Top.k \in {"call"}))
    BY <1>1, ExactPop DEF Even
<1>4. Exact(fl, Append(Front(ctl), f), Len(scope_allocations'), call_depth',
            (Len(saved_symbol_stacks) - One(Top.k \in {"call"})) + One(f.k \in {"call"}))
    BY <1>2, <1>3, ExactPush
<1>5. (Len(saved_symbol_stacks) - One(Top.k \in {"call"})) + One(f.k \in {"call"})
         = Len(saved_symbol_stacks')
    BY <1>1 DEF One
<1>6. Calm(Append(Front(ctl), f), err')
    BY <1>1, CalmTouch DEF Even
<1>7. Exact(fl, Append(Front(ctl), f), Len(scope_allocations'), call_depth', Len(saved_symbol_stacks'))
    BY <1>4, <1>5
<1> QED
    BY <1>1, <1>6, <1>7 DEF Even

\* The innermost construct, call or not, goes on as the same kind of construct.
LEMMA EvenTouch ==
    ASSUME Inv, NEW fl \in Floors, Even(fl), ctl # << >>, NEW f \in FrameType, ctl' = [ctl EXCEPT ![Len(ctl)] = f],
           f.k = Top.k, f.k = "cfor" => f.ph \in HeadPhases,
           f.pend = Top.pend,
           err' # "none" => Clear(Front(ctl)) /\ ~LeakyHead(f),
           Len(scope_allocations') = Len(scope_allocations),
           UNCHANGED <<saved_symbol_stacks, call_depth>>
    PROVE  Even(fl)'
<1>1. /\ ctl \in Seq(FrameType) /\ Top = Last(ctl) /\ Top \in FrameType
      /\ ctl' = Append(Front(ctl), f)
      /\ Len(saved_symbol_stacks) \in Nat /\ Len(scope_allocations) \in Nat /\ call_depth \in Nat
    BY ControlFacts
<1>2. Front(ctl) \in Seq(FrameType)
    BY <1>1, FrontAppend
<1>3. Exact(fl, Front(ctl), Len(scope_allocations) - One(Top.k \in HeapKinds),
            call_depth - One(Top.k \in DepthKinds),
            Len(saved_symbol_stacks) - One(Top.k \in {"call"}))
    BY <1>1, ExactPop DEF Even
<1>4. Exact(fl, Append(Front(ctl), f),
            (Len(scope_allocations) - One(Top.k \in HeapKinds)) + One(f.k \in HeapKinds),
            (call_depth - One(Top.k \in DepthKinds)) + One(f.k \in DepthKinds),
            (Len(saved_symbol_stacks) - One(Top.k \in {"call"})) + One(f.k \in {"call"}))
    BY <1>2, <1>3, ExactPush
<1>5. /\ One(Top.k \in HeapKinds) \in Nat /\ One(Top.k \in DepthKinds) \in Nat
      /\ One(Top.k \in {"call"}) \in Nat
    BY OneNat
<1>6. /\ (Len(scope_allocations) - One(Top.k \in HeapKinds)) + One(f.k \in HeapKinds)
            = Len(scope_allocations')
      /\ (call_depth - One(Top.k \in DepthKinds)) + One(f.k \in DepthKinds) = call_depth'
      /\ (Len(saved_symbol_stacks) - One(Top.k \in {"call"})) + One(f.k \in {"call"})
            = Len(saved_symbol_stacks')
    BY <1>1, <1>5
<1>7. Exact(fl, Append(Front(ctl), f), Len(scope_allocations'), call_depth', Len(saved_symbol_stacks'))
    BY <1>4, <1>6
<1>8. Calm(Append(Front(ctl), f), err')
    BY <1>1, CalmTouch DEF Even
<1> QED
    BY <1>1, <1>7, <1>8 DEF Even

-----------------------------------------------------------------------------
(* The actions of the interpreter.                                         *)

\* An error arises only where no head would leak, by assumption.
LEMMA RaiseClear ==
    ASSUME "headError" \notin Features, NEW c \in Seq(FrameType), NEW e, RaiseIn(c, e)
    PROVE  Clear(c) /\ err' = e
<1>1. DOMAIN c = 1..Len(c)
    OBVIOUS
<1> QED
    BY <1>1 DEF RaiseIn, Clear

LEMMA FailEven ==
    ASSUME "headError" \notin Features, Inv, NEW fl \in Floors, Even(fl), NEW e, Raise(e),
           UNCHANGED <<heapVars, saved_symbol_stacks, call_depth, ctl>>
    PROVE  Even(fl)'
<1>1. Clear(ctl)
    BY ControlFacts, RaiseClear DEF Raise
<1>2. scope_allocations' = scope_allocations
    BY DEF heapVars
<1> QED
    BY <1>1, <1>2, EvenStay

LEMMA AllocEven ==
    ASSUME Inv, NEW fl \in Floors, Even(fl), NEW v \in Vals, NEW a, alloc(v, a, scope_allocations),
           UNCHANGED <<saved_symbol_stacks, call_depth, ctl, err>>
    PROVE  Even(fl)'
<1>1. Len(scope_allocations') = Len(scope_allocations)
    BY InvFacts, AllocHere
<1> QED
    BY <1>1, EvenStay

LEMMA EnterEven ==
    ASSUME Inv, NEW fl \in Floors, Even(fl), NEW B \in Bindings, NEW m \in BOOLEAN, Enter(B, m),
           NEW k \in Bodies \cup Heads, NEW ph \in Phases, k \in HeapKinds, k # "call",
           k = "cfor" => ph \in HeadPhases,
           ctl' = Append(ctl, Frame(k, ph)), err = "none",
           call_depth' = call_depth + One(k \in DepthKinds),
           UNCHANGED <<saved_symbol_stacks, err>>
    PROVE  Even(fl)'
<1>1. Len(scope_allocations') = Len(scope_allocations) + 1
    BY EnterTyped
<1>2. One(k \in HeapKinds) = 1 /\ One(k \in {"call"}) = 0
    BY DEF One
<1>3. Len(saved_symbol_stacks) \in Nat
    BY ControlFacts
<1>4. Len(saved_symbol_stacks') = Len(saved_symbol_stacks) + One(k \in {"call"})
    BY <1>2, <1>3
<1>5. Len(scope_allocations') = Len(scope_allocations) + One(k \in HeapKinds)
    BY <1>1, <1>2
<1> QED
    BY <1>4, <1>5, EvenPush

LEMMA LeaveEven ==
    ASSUME Inv, NEW fl \in Floors, Even(fl), Leave, ctl # << >>, Top.k \in HeapKinds, Top.k \notin {"call", "iter"},
           ctl' = Front(ctl),
           call_depth' = call_depth - One(Top.k \in DepthKinds),
           err' # "none" => err # "none" \/ Clear(Front(ctl)),
           UNCHANGED saved_symbol_stacks
    PROVE  Even(fl)'
<1>1. Len(scope_allocations') = Len(scope_allocations) - 1
    BY LeaveTyped
<1>2. One(Top.k \in HeapKinds) = 1 /\ One(Top.k \in {"call"}) = 0
    BY DEF One
<1>3. Len(saved_symbol_stacks) \in Nat
    BY ControlFacts
<1>4. Len(saved_symbol_stacks') = Len(saved_symbol_stacks) - One(Top.k \in {"call"})
    BY <1>2, <1>3
<1>5. Len(scope_allocations') = Len(scope_allocations) - One(Top.k \in HeapKinds)
    BY <1>1, <1>2
<1> QED
    BY <1>4, <1>5, EvenPop

\* A construct that has pushed nothing ends.
LEMMA DropEven ==
    ASSUME Inv, NEW fl \in Floors, Even(fl), ctl # << >>, Top.k \notin HeapKinds, Top.k \notin DepthKinds,
           ctl' = Front(ctl),
           err' # "none" => err # "none" \/ Clear(Front(ctl)),
           UNCHANGED <<heapVars, saved_symbol_stacks, call_depth>>
    PROVE  Even(fl)'
<1>1. scope_allocations' = scope_allocations
    BY DEF heapVars
<1>2. Top.k # "iter" /\ Top.k # "call"
    BY DEF HeapKinds, Bodies
<1>3. One(Top.k \in HeapKinds) = 0 /\ One(Top.k \in DepthKinds) = 0 /\ One(Top.k \in {"call"}) = 0
    BY <1>2 DEF One
<1>4. Len(saved_symbol_stacks) \in Nat /\ Len(scope_allocations) \in Nat /\ call_depth \in Nat
    BY ControlFacts
<1>5. /\ Len(scope_allocations') = Len(scope_allocations) - One(Top.k \in HeapKinds)
      /\ call_depth' = call_depth - One(Top.k \in DepthKinds)
      /\ Len(saved_symbol_stacks') = Len(saved_symbol_stacks) - One(Top.k \in {"call"})
    BY <1>1, <1>3, <1>4
<1> QED
    BY <1>2, <1>5, EvenPop

LEMMA StatementEven ==
    ASSUME "headError" \notin Features, Inv, NEW fl \in Floors, Even(fl), Statement
    PROVE  Even(fl)'
<1>1. /\ HeapOK /\ scope_allocations # << >> /\ symbols \in Seq(ScopeType)
      /\ call_depth \in Nat
    BY InvFacts
<1>2. Len(scope_allocations) \in Nat /\ Len(saved_symbol_stacks) \in Nat
    BY ControlFacts
<1>3. ASSUME NEW n \in Names, NEW v \in Vals, Let(n, v)
      PROVE  Even(fl)'
    <2>1. UNCHANGED <<saved_symbol_stacks, call_depth, ctl>>
        BY <1>3 DEF Let
    <2>2. CASE Raise("error") /\ UNCHANGED <<heapVars, symbols>>
        BY <2>1, <2>2, FailEven
    <2>3. CASE \E a \in Candidates : alloc(v, a, scope_allocations) /\ UNCHANGED err
        BY <2>1, <2>3, AllocEven
    <2> QED
        BY <1>3, <2>2, <2>3 DEF Let
<1>4. ASSUME NEW n \in Names, NEW v \in Vals, ConstDef(n, v)
      PROVE  Even(fl)'
    BY <1>4, AllocEven DEF ConstDef
<1>5. ASSUME NEW n \in Names, NEW v \in Vals, StaticDef(n, v)
      PROVE  Even(fl)'
    BY <1>5, AllocEven DEF StaticDef
<1>6. ASSUME NEW n \in Names, NEW v \in Vals, Assignment(n, v)
      PROVE  Even(fl)'
    <2>1. UNCHANGED <<symbols, saved_symbol_stacks, call_depth, ctl>>
        BY <1>6 DEF Assignment
    <2>2. CASE Raise("error") /\ UNCHANGED heapVars
        BY <2>1, <2>2, FailEven
    <2>3. ASSUME NEW i \in DOMAIN symbols, write(symbols[i][n].addr, v), UNCHANGED err
          PROVE  Even(fl)'
        <3>1. scope_allocations' = scope_allocations
            BY <2>3 DEF write
        <3> QED
            BY <2>1, <2>3, <3>1, EvenStay
    <2> QED
        BY <1>6, <2>2, <2>3 DEF Assignment
<1>7. ASSUME NEW e \in Raised, Fail(e)
      PROVE  Even(fl)'
    BY <1>7, FailEven DEF Fail
<1>8. ASSUME Defer
      PROVE  Even(fl)'
    <2> DEFINE f == [Top EXCEPT !.dfr = @ + 1]
    <2>1. /\ ctl # << >> /\ ctl' = [ctl EXCEPT ![Len(ctl)] = f] /\ Top.k \in Bodies
          /\ err = "none" /\ UNCHANGED <<heapVars, saved_symbol_stacks, call_depth, err>>
        BY <1>8 DEF Defer, Running, SetTop, AtStatement
    <2>2. Top \in FrameType
        BY <2>1, ControlFacts
    <2>3. f \in FrameType /\ f.k = Top.k /\ f.pend = Top.pend
        BY <2>2 DEF FrameType
    <2>4. f.k # "cfor"
        BY <2>1, <2>3 DEF Bodies
    <2>5. scope_allocations' = scope_allocations
        BY <2>1 DEF heapVars
    <2> HIDE DEF f
    <2> QED
        BY <2>1, <2>3, <2>4, <2>5, EvenTouch
<1>9. ASSUME NEW k \in {"while", "for", "do"}, StartLoop(k)
      PROVE  Even(fl)'
    <2>1. /\ ctl' = Append(ctl, Frame(k, "cond")) /\ err' = "none"
          /\ UNCHANGED <<heapVars, saved_symbol_stacks, call_depth>>
        BY <1>9 DEF StartLoop, Push, AtStatement
    <2>2. k \in Bodies \cup Heads /\ "cond" \in Phases /\ k # "cfor"
        BY DEF Heads, Phases
    <2>3. One(k \in HeapKinds) = 0 /\ One(k \in DepthKinds) = 0 /\ One(k \in {"call"}) = 0
        BY DEF One, HeapKinds, DepthKinds, Bodies
    <2>4. scope_allocations' = scope_allocations
        BY <2>1 DEF heapVars
    <2>5. /\ Len(scope_allocations') = Len(scope_allocations) + One(k \in HeapKinds)
          /\ call_depth' = call_depth + One(k \in DepthKinds)
          /\ Len(saved_symbol_stacks') = Len(saved_symbol_stacks) + One(k \in {"call"})
        BY <2>1, <2>3, <2>4, <1>1, <1>2
    <2> QED
        BY <2>1, <2>2, <2>5, EvenPush
<1>10. ASSUME StartCStyleFor
       PROVE  Even(fl)'
    <2>1. /\ ctl' = Append(ctl, Frame("cfor", "init")) /\ Enter({}, FALSE) /\ err = "none"
          /\ UNCHANGED <<saved_symbol_stacks, call_depth, err>>
        BY <1>10 DEF StartCStyleFor, Push, AtStatement
    <2>2. /\ "cfor" \in Bodies \cup Heads /\ "init" \in Phases /\ "init" \in HeadPhases
          /\ "cfor" \in HeapKinds /\ One("cfor" \in DepthKinds) = 0
        BY DEF Heads, Phases, HeapKinds, DepthKinds, One, HeadPhases
    <2>3. call_depth' = call_depth + One("cfor" \in DepthKinds)
        BY <2>1, <2>2, <1>1
    <2> QED
        BY <2>1, <2>2, <2>3, NoBinding, EnterEven
<1> QED
    BY <1>3, <1>4, <1>5, <1>6, <1>7, <1>8, <1>9, <1>10 DEF Statement

-----------------------------------------------------------------------------
\* A loop begins an iteration and stops being a head.
LEMMA IterateEven ==
    ASSUME Inv, NEW fl \in Floors, Even(fl), NEW k \in LoopKinds, NEW B \in Bindings, Iterate(k, B)
    PROVE  Even(fl)'
<1> DEFINE f == [Top EXCEPT !.ph = "body"]
           r == Front(ctl)
           g == Frame("iter", "run")
           H == Len(scope_allocations)
           n == Len(saved_symbol_stacks)
<1>1. /\ ctl # << >> /\ Top.k = k /\ Enter(B, FALSE) /\ err' = "none"
      /\ UNCHANGED <<saved_symbol_stacks, call_depth>>
    BY DEF Iterate, Running
<1>2. /\ ctl \in Seq(FrameType) /\ Top = Last(ctl) /\ Top \in FrameType
      /\ \A x \in FrameType : [ctl EXCEPT ![Len(ctl)] = x] = Append(r, x)
      /\ n \in Nat /\ H \in Nat /\ call_depth \in Nat
    BY <1>1, ControlFacts
<1>3. r \in Seq(FrameType) /\ Top = ctl[Len(ctl)] /\ Len(ctl) \in DOMAIN ctl
    BY <1>1, <1>2, FrontAppend
<1>4. f \in FrameType /\ f.k = Top.k /\ f.pend = Top.pend
    BY <1>2 DEF FrameType, Phases
<1>5. g \in FrameType /\ g.k = "iter"
    BY FrameTyped DEF Bodies, Phases
<1>6. g.pend = "none"
    BY DEF Frame
<1>7. ctl' = Append(Append(r, f), g)
    <2>1. ctl' = Append([ctl EXCEPT ![Len(ctl)] = f], g)
        BY <1>3 DEF Iterate
    <2> QED
        BY <2>1, <1>2, <1>4
<1>8. Len(scope_allocations') = H + 1
    BY <1>1, EnterTyped
<1> HIDE DEF f, g, r, H, n
<1>9. Append(r, f) \in Seq(FrameType)
    BY <1>3, <1>4
<1>10. Exact(fl, r, H - One(Top.k \in HeapKinds), call_depth - One(Top.k \in DepthKinds),
             n - One(Top.k \in {"call"}))
    BY <1>1, <1>2, ExactPop DEF Even, r, H, n
<1>11. Exact(fl, Append(r, f), (H - One(Top.k \in HeapKinds)) + One(Top.k \in HeapKinds),
             (call_depth - One(Top.k \in DepthKinds)) + One(Top.k \in DepthKinds),
             (n - One(Top.k \in {"call"})) + One(Top.k \in {"call"}))
    BY <1>3, <1>4, <1>10, ExactPush
<1>12. Exact(fl, Append(r, f), H, call_depth, n)
    <2>1. /\ One(Top.k \in HeapKinds) \in Nat /\ One(Top.k \in DepthKinds) \in Nat
          /\ One(Top.k \in {"call"}) \in Nat
        BY OneNat
    <2>2. /\ (H - One(Top.k \in HeapKinds)) + One(Top.k \in HeapKinds) = H
          /\ (call_depth - One(Top.k \in DepthKinds)) + One(Top.k \in DepthKinds) = call_depth
          /\ (n - One(Top.k \in {"call"})) + One(Top.k \in {"call"}) = n
        BY <1>2, <2>1
    <2> QED
        BY <1>11, <2>2
<1>13. Exact(fl, Append(Append(r, f), g), H + 1, call_depth, n)
    <2>1. /\ One(g.k \in HeapKinds) = 1 /\ One(g.k \in DepthKinds) = 0
          /\ One(g.k \in {"call"}) = 0
        BY <1>5 DEF One, HeapKinds, DepthKinds, Bodies
    <2>2. call_depth + One(g.k \in DepthKinds) = call_depth /\ n + One(g.k \in {"call"}) = n
        BY <1>2, <2>1
    <2>3. Exact(fl, Append(Append(r, f), g), H + One(g.k \in HeapKinds),
                call_depth + One(g.k \in DepthKinds), n + One(g.k \in {"call"}))
        BY <1>5, <1>9, <1>12, ExactPush
    <2> QED
        BY <2>1, <2>2, <2>3
<1>14. Held(r) /\ (f.pend # "none" => Clear(r))
    BY <1>1, <1>2, <1>4, HeldFront DEF Even, Calm, r
<1>15. Held(Append(Append(r, f), g))
    BY <1>3, <1>4, <1>5, <1>6, <1>9, <1>14, HeldAppend
<1>16. Bodied(r)
    <2>1. Top.k # "iter"
        BY <1>1 DEF LoopKinds
    <2> QED
        BY <1>1, <1>2, <2>1, BodiedFront DEF Even, Calm, r
<1>17. Bodied(Append(Append(r, f), g))
    BY <1>3, <1>4, <1>5, <1>16, BodiedIterate
<1>18. Calm(Append(Append(r, f), g), "none")
    BY <1>15, <1>17 DEF Calm
<1> QED
    BY <1>1, <1>7, <1>8, <1>13, <1>18 DEF Even, n

\* An iteration ends: a C-style for goes on in its head only without an error.
LEMMA LeaveIterationEven ==
    ASSUME Inv, NEW fl \in Floors, Even(fl), LeaveIteration
    PROVE  Even(fl)'
<1> DEFINE b == Front(ctl)
           r == Front(b)
           H == Len(scope_allocations)
           n == Len(saved_symbol_stacks)
           loop == ctl[Len(ctl) - 1]
<1>1. /\ ctl # << >> /\ Top.k = "iter" /\ Leave
      /\ UNCHANGED <<saved_symbol_stacks, call_depth>>
    BY DEF LeaveIteration, AtEnd, Running
<1>2. /\ ctl \in Seq(FrameType) /\ Top = Last(ctl) /\ Top \in FrameType
      /\ n \in Nat /\ H \in Nat /\ call_depth \in Nat
    BY <1>1, ControlFacts
<1>3. Len(scope_allocations') = H - 1
    BY <1>1, LeaveTyped
<1>4. IterOK(ctl)
    BY InvFacts DEF StackOK
<1>5. b # << >> /\ Last(b).k \in LoopKinds
    BY <1>1, <1>2, <1>4, IterFront
<1>6. b \in Seq(FrameType) /\ Len(b) = Len(ctl) - 1 /\ loop = Last(b) /\ loop \in FrameType
    <2>1. /\ b \in Seq(FrameType) /\ Len(b) = Len(ctl) - 1
          /\ \A i \in 1..(Len(ctl) - 1) : b[i] = ctl[i]
        BY <1>1, <1>2, FrontAppend
    <2>2. Last(b) = b[Len(b)] /\ Last(b) \in FrameType /\ Len(b) \in 1..Len(b)
        BY <2>1, <1>5, FrontAppend
    <2> QED
        BY <2>1, <2>2
<1>7. r \in Seq(FrameType)
    BY <1>5, <1>6, FrontAppend
<1>8. \A x \in FrameType : [b EXCEPT ![Len(b)] = x] = Append(r, x)
    BY <1>5, <1>6, AppendOfFront
<1> HIDE DEF H, n, loop, b, r
<1>9. Exact(fl, b, H - 1, call_depth, n)
    <2>1. /\ One(Top.k \in HeapKinds) = 1 /\ One(Top.k \in DepthKinds) = 0
          /\ One(Top.k \in {"call"}) = 0
        BY <1>1 DEF One, HeapKinds, DepthKinds, Bodies
    <2>2. call_depth - One(Top.k \in DepthKinds) = call_depth /\ n - One(Top.k \in {"call"}) = n
        BY <1>2, <2>1
    <2>3. Exact(fl, b, H - One(Top.k \in HeapKinds), call_depth - One(Top.k \in DepthKinds),
                n - One(Top.k \in {"call"}))
        BY <1>1, <1>2, ExactPop DEF Even, b, H, n
    <2> QED
        BY <2>1, <2>2, <2>3
<1>10. Exact(fl, r, (H - 1) - One(loop.k \in HeapKinds), call_depth - One(loop.k \in DepthKinds),
             n - One(loop.k \in {"call"}))
    BY <1>5, <1>6, <1>9, ExactPop DEF r
<1>11. loop.k \in LoopKinds
    BY <1>5, <1>6
<1>12. loop.k \notin DepthKinds /\ loop.k # "call" /\ loop.k # "iter" /\ loop.k # "margs"
    BY <1>11 DEF LoopKinds, DepthKinds
<1>13. One(loop.k \in DepthKinds) = 0 /\ One(loop.k \in {"call"}) = 0
    BY <1>12 DEF One
<1>14. Exact(fl, r, (H - 1) - One(loop.k \in HeapKinds), call_depth, n)
    <2>1. call_depth - One(loop.k \in DepthKinds) = call_depth /\ n - One(loop.k \in {"call"}) = n
        BY <1>2, <1>13
    <2> QED
        BY <1>10, <2>1
<1>15. /\ Held(r) /\ (loop.pend # "none" => Clear(r))
       /\ err # "none" => Clear(r)
    <2>1. Held(b) /\ (err # "none" => Clear(b))
        BY <1>1, <1>2, HeldFront, ClearFront DEF Even, Calm, b
    <2> QED
        BY <2>1, <1>5, <1>6, HeldFront, ClearFront DEF r
<1>16. Bodied(r)
    <2>1. Last(b).k # "iter"
        BY <1>6, <1>12
    <2> QED
        BY <2>1, <1>1, <1>2, <1>5, BodiedFronts DEF Even, Calm, b, r
\* The loop goes on, or a C-style for is about to be left.
<1>17. ASSUME NEW p \in Phases, ctl' = [b EXCEPT ![Len(ctl) - 1] = [loop EXCEPT !.ph = p]],
              loop.k = "cfor" => p \in HeadPhases,
              err' # "none" => err # "none" /\ p = "exit"
       PROVE  Even(fl)'
    <2> DEFINE f == [loop EXCEPT !.ph = p]
    <2>1. f \in FrameType /\ f.k = loop.k /\ f.ph = p /\ f.pend = loop.pend
        BY <1>6 DEF FrameType
    <2>2. ctl' = Append(r, f)
        BY <1>6, <1>8, <1>17, <2>1
    <2> HIDE DEF f
    <2>3. Exact(fl, Append(r, f), ((H - 1) - One(loop.k \in HeapKinds)) + One(loop.k \in HeapKinds),
                call_depth + One(loop.k \in DepthKinds), n + One(loop.k \in {"call"}))
        BY <1>7, <1>14, <2>1, ExactPush
    <2>4. One(loop.k \in HeapKinds) \in Nat
        BY OneNat
    <2>5. /\ ((H - 1) - One(loop.k \in HeapKinds)) + One(loop.k \in HeapKinds) = H - 1
          /\ call_depth + One(loop.k \in DepthKinds) = call_depth
          /\ n + One(loop.k \in {"call"}) = n
        BY <1>2, <1>13, <2>4
    <2>6. Exact(fl, Append(r, f), H - 1, call_depth, n)
        BY <2>3, <2>5
    <2>7. Held(Append(r, f)) /\ Bodied(Append(r, f))
        BY <1>7, <1>15, <1>16, <1>17, <2>1, HeldAppend, BodiedAppend
    <2>8. err' # "none" => ~LeakyHead(f)
        BY <1>12, <1>17, <2>1 DEF LeakyHead
    <2>9. err' # "none" => Clear(Append(r, f))
        BY <1>7, <1>15, <1>17, <2>1, <2>8, ClearAppend
    <2>10. Calm(Append(r, f), err')
        BY <2>7, <2>9 DEF Calm
    <2> QED
        BY <1>1, <1>3, <2>2, <2>6, <2>10 DEF Even, n
\* The loop ends with its iteration.
<1>18. ASSUME loop.k # "cfor", ctl' = r, err' # "none" => err # "none"
       PROVE  Even(fl)'
    <2>1. One(loop.k \in HeapKinds) = 0
        BY <1>11, <1>18 DEF LoopKinds, HeapKinds, Bodies, One
    <2>2. (H - 1) - One(loop.k \in HeapKinds) = H - 1
        BY <1>2, <2>1
    <2>3. Exact(fl, r, H - 1, call_depth, n)
        BY <1>14, <2>2
    <2>4. Calm(r, err')
        BY <1>15, <1>16, <1>18 DEF Calm
    <2> QED
        BY <1>1, <1>3, <1>18, <2>3, <2>4 DEF Even, n
<1>19. /\ \A e : PhaseAfter(loop.k, e) \in Phases
       /\ loop.k = "cfor" => \A e : PhaseAfter(loop.k, e) \in HeadPhases
       /\ "exit" \in Phases /\ "exit" \in HeadPhases
    BY DEF Phases, PhaseAfter, HeadPhases
<1>20. \/ /\ err' = "none"
          /\ ctl' = [b EXCEPT ![Len(ctl) - 1] = [loop EXCEPT !.ph = PhaseAfter(loop.k, err)]]
       \/ /\ err' # "none" => err # "none"
          /\ ctl' = [b EXCEPT ![Len(ctl) - 1] = [loop EXCEPT !.ph = "exit"]]
       \/ loop.k # "cfor" /\ ctl' = r /\ (err' # "none" => err # "none")
    BY DEF LeaveIteration, loop, b, r
<1>21. CASE /\ err' = "none"
            /\ ctl' = [b EXCEPT ![Len(ctl) - 1] = [loop EXCEPT !.ph = PhaseAfter(loop.k, err)]]
    BY <1>17, <1>19, <1>21
<1>22. CASE /\ err' # "none" => err # "none"
            /\ ctl' = [b EXCEPT ![Len(ctl) - 1] = [loop EXCEPT !.ph = "exit"]]
    BY <1>17, <1>19, <1>22
<1> QED
    BY <1>18, <1>20, <1>21, <1>22

\* A loop changes its phase.
LEMMA PhaseEven ==
    ASSUME Inv, NEW fl \in Floors, Even(fl), NEW p \in Phases, ctl # << >>, SetPhase(p),
           Top.k \in LoopKinds, p \in HeadPhases,
           err' # "none" => Clear(Front(ctl)) /\ p = "exit",
           UNCHANGED <<saved_symbol_stacks, call_depth>>,
           Len(scope_allocations') = Len(scope_allocations)
    PROVE  Even(fl)'
<1> DEFINE f == [Top EXCEPT !.ph = p]
<1>1. Top \in FrameType
    BY ControlFacts
<1>2. f \in FrameType /\ f.k = Top.k /\ f.pend = Top.pend /\ f.ph = p
    BY <1>1 DEF FrameType
<1>3. ctl' = [ctl EXCEPT ![Len(ctl)] = f]
    BY DEF SetPhase, SetTop
<1> HIDE DEF f
<1>4. p = "exit" => ~LeakyHead(f)
    BY <1>2 DEF LeakyHead, LoopKinds
<1> QED
    BY <1>2, <1>3, <1>4, EvenTouch

\* A head that an error leaves without a pop has pushed nothing: Calm excludes
\* the ones that have.
LEMMA HeadEven ==
    ASSUME Inv, NEW fl \in Floors, Even(fl), HeadFails
    PROVE  Even(fl)'
<1>1. /\ ctl # << >> /\ Top.k \in {"while", "do", "cfor", "margs"} /\ Top.ph # "exit"
      /\ err # "none" /\ ctl' = Front(ctl)
      /\ UNCHANGED <<heapVars, saved_symbol_stacks, call_depth, err>>
    BY DEF HeadFails, Running, Pop
<1>2. ctl \in Seq(FrameType) /\ Top = Last(ctl)
    BY <1>1, ControlFacts
<1>3. ~LeakyHead(Top)
    BY <1>1, <1>2, ClearFront DEF Even, Calm
<1>4. Top.k # "margs"
    BY <1>3 DEF LeakyHead
<1>5. Top.k # "cfor"
    <2> SUFFICES ASSUME Top.k = "cfor" PROVE FALSE
        OBVIOUS
    <2>1. Len(ctl) \in Nat /\ Len(ctl) \in 1..Len(ctl) /\ Top = ctl[Len(ctl)]
        BY <1>1, <1>2, FrontAppend
    <2>2. Len(ctl) + 1 \notin 1..Len(ctl)
        BY <2>1
    <2>3. Top.ph \in HeadPhases
        BY <2>1, <2>2 DEF Even, Calm, Bodied
    <2> QED
        BY <1>1, <1>3, <2>3 DEF LeakyHead, HeadPhases
<1>6. Top.k \notin HeapKinds /\ Top.k \notin DepthKinds
    BY <1>1, <1>4, <1>5 DEF HeapKinds, DepthKinds, Bodies
<1> QED
    BY <1>1, <1>6, DropEven

LEMMA LoopsEven ==
    ASSUME "headError" \notin Features, Inv, NEW fl \in Floors, Even(fl), Loops
    PROVE  Even(fl)'
<1>1. HeapOK /\ call_depth \in Nat
    BY InvFacts
<1>2. /\ "cond" \in Phases /\ "exit" \in Phases
      /\ "cond" \in HeadPhases /\ "exit" \in HeadPhases
    BY DEF Phases, HeadPhases
<1>3. ASSUME NEW B \in Bindings, ForLoop(B)
      PROVE  Even(fl)'
    BY <1>3, IterateEven DEF ForLoop, LoopKinds
<1>4. ASSUME WhileLoop \/ DoWhileLoop \/ CStyleFor
      PROVE  Even(fl)'
    BY <1>4, IterateEven, NoBinding DEF WhileLoop, DoWhileLoop, CStyleFor, LoopKinds
<1>5. ASSUME MaybeGc
      PROVE  Even(fl)'
    <2>1. /\ ctl # << >> /\ SetPhase("cond") /\ Top.k \in LoopKinds /\ err' = "none"
          /\ UNCHANGED <<saved_symbol_stacks, call_depth>>
          /\ collect_garbage(Roots) \/ UNCHANGED heapVars
        BY <1>5 DEF MaybeGc, Running, LoopKinds
    <2>2. Len(scope_allocations') = Len(scope_allocations)
        BY <2>1, <1>1, CollectHeap, HeapSame
    <2> QED
        BY <2>1, <2>2, <1>2, PhaseEven
<1>6. ASSUME EndLoop
      PROVE  Even(fl)'
    <2>1. /\ ctl # << >> /\ Top.k \in {"while", "for", "do"} /\ ctl' = Front(ctl)
          /\ UNCHANGED <<heapVars, saved_symbol_stacks, call_depth, err>>
        BY <1>6 DEF EndLoop, Running, Pop
    <2>2. Top.k \notin HeapKinds /\ Top.k \notin DepthKinds
        BY <2>1 DEF HeapKinds, DepthKinds, Bodies
    <2> QED
        BY <2>1, <2>2, DropEven
<1>7. ASSUME LoopLimit
      PROVE  Even(fl)'
    <2>1. /\ ctl # << >> /\ Top.k \in LoopKinds /\ RaiseIn(Front(ctl), "error")
          /\ UNCHANGED <<heapVars, saved_symbol_stacks, call_depth>>
          /\ IF Top.k = "cfor" THEN SetPhase("exit") ELSE ctl' = Front(ctl)
        BY <1>7 DEF LoopLimit, Running, Pop, LoopKinds
    <2>2. Front(ctl) \in Seq(FrameType)
        BY <2>1, ControlFacts, FrontAppend
    <2>3. Clear(Front(ctl))
        BY <2>1, <2>2, RaiseClear
    <2>4. scope_allocations' = scope_allocations
        BY <2>1 DEF heapVars
    <2>5. CASE Top.k = "cfor"
        BY <2>1, <2>3, <2>4, <2>5, <1>2, PhaseEven
    <2>6. CASE Top.k # "cfor"
        <3>1. Top.k \notin HeapKinds /\ Top.k \notin DepthKinds
            BY <2>1, <2>6 DEF LoopKinds, HeapKinds, DepthKinds, Bodies
        <3> QED
            BY <2>1, <2>3, <2>6, <3>1, DropEven
    <2> QED
        BY <2>5, <2>6
<1>8. ASSUME EndCStyleFor
      PROVE  Even(fl)'
    <2>1. /\ ctl # << >> /\ Top.k = "cfor" /\ Leave /\ ctl' = Front(ctl)
          /\ UNCHANGED <<saved_symbol_stacks, call_depth, err>>
        BY <1>8 DEF EndCStyleFor, Running, Pop
    <2>2. Top.k \in HeapKinds /\ One(Top.k \in DepthKinds) = 0
        BY <2>1 DEF HeapKinds, DepthKinds, One
    <2>3. call_depth' = call_depth - One(Top.k \in DepthKinds)
        BY <2>1, <2>2, <1>1
    <2> QED
        BY <2>1, <2>2, <2>3, LeaveEven
<1> QED
    BY <1>3, <1>4, <1>5, <1>6, <1>7, <1>8, LeaveIterationEven, HeadEven DEF Loops

-----------------------------------------------------------------------------
LEMMA CallsEven ==
    ASSUME "headError" \notin Features, Inv, NEW fl \in Floors, Even(fl), Calls
    PROVE  Even(fl)'
<1>1. /\ HeapOK /\ symbols \in Seq(ScopeType) /\ symbols # << >> /\ scope_allocations # << >>
    BY InvFacts
<1>2. /\ saved_symbol_stacks \in Seq(Seq(ScopeType)) /\ Len(saved_symbol_stacks) \in Nat
      /\ call_depth \in Nat /\ Len(scope_allocations) \in Nat
    BY ControlFacts
<1>3. "run" \in Phases /\ "call" \in Bodies \cup Heads /\ "margs" \in Bodies \cup Heads
    BY DEF Phases, Bodies, Heads
<1>4. /\ One("call" \in HeapKinds) = 1 /\ One("call" \in DepthKinds) = 1
      /\ One("call" \in {"call"}) = 1
    BY DEF One, HeapKinds, DepthKinds, Bodies
<1>5. ASSUME NEW B \in Bindings, call_function(B)
      PROVE  Even(fl)'
    <2>1. CASE Raise("error") /\ UNCHANGED <<heapVars, symbols, saved_symbol_stacks, call_depth, ctl>>
        BY <2>1, FailEven
    <2>2. CASE /\ Open(<<Head(symbols), << >> >>, B, FALSE)
               /\ saved_symbol_stacks' = Append(saved_symbol_stacks, symbols)
               /\ call_depth' = call_depth + 1
               /\ Push(Frame("call", "run"))
               /\ UNCHANGED err
        <3> DEFINE base == <<Head(symbols), << >> >>
        <3>1. base \in Seq(ScopeType) /\ base # << >>
            <4>1. Head(symbols) \in ScopeType
                BY <1>1
            <4> QED
                BY <4>1, EmptyScope
        <3>2. Open(base, B, FALSE)
            BY <2>2
        <3> HIDE DEF base
        <3>3. Len(scope_allocations') = Len(scope_allocations) + One("call" \in HeapKinds)
            BY <3>1, <3>2, <1>1, <1>4, OpenTyped
        <3>4. ctl' = Append(ctl, Frame("call", "run")) /\ err' = "none"
            <4>1. err = "none"
                BY <1>5 DEF call_function, AtExpression, AtStatement
            <4> QED
                BY <2>2, <4>1 DEF Push
        <3>5. /\ call_depth' = call_depth + One("call" \in DepthKinds)
              /\ Len(saved_symbol_stacks') = Len(saved_symbol_stacks) + One("call" \in {"call"})
            <4>1. Len(saved_symbol_stacks') = Len(saved_symbol_stacks) + 1
                BY <2>2, <1>1, <1>2
            <4> QED
                BY <2>2, <4>1, <1>4
        <3> QED
            BY <3>3, <3>4, <3>5, <1>3, EvenPush
    <2> QED
        BY <1>5, <2>1, <2>2 DEF call_function
<1>6. ASSUME LeaveCall
      PROVE  Even(fl)'
    <2>1. /\ ctl # << >> /\ Top.k = "call" /\ ctl' = Front(ctl) /\ pop_scope
          /\ saved_symbol_stacks' = Front(saved_symbol_stacks)
          /\ call_depth' = call_depth - 1
        BY <1>6 DEF LeaveCall, AtEnd, Running, Pop
    <2>2. err' # "none" => err # "none"
        BY <1>6 DEF LeaveCall
    <2>3. Len(scope_allocations') = Len(scope_allocations) - One(Top.k \in HeapKinds)
        BY <2>1, <1>1, <1>4, PopHeap
    <2>4. saved_symbol_stacks # << >>
        BY <2>1, InvFacts, StackReturn DEF Top
    <2>5. Len(saved_symbol_stacks') = Len(saved_symbol_stacks) - One(Top.k \in {"call"})
        BY <2>1, <2>4, <1>2, <1>4, FrontAppend
    <2>6. call_depth' = call_depth - One(Top.k \in DepthKinds)
        BY <2>1, <1>4
    <2> QED
        BY <2>1, <2>2, <2>3, <2>5, <2>6, EvenPop
<1>7. ASSUME NEW B \in Bindings, EnterMethod(B)
      PROVE  Even(fl)'
    <2>1. UNCHANGED saved_symbol_stacks /\ err = "none"
        BY <1>7 DEF EnterMethod, AtExpression, AtStatement
    <2>2. CASE Raise("error") /\ UNCHANGED <<heapVars, symbols, call_depth, ctl>>
        BY <2>1, <2>2, FailEven
    <2>3. CASE /\ Enter(B, TRUE) /\ call_depth' = call_depth + 1
               /\ Push(Frame("margs", "run")) /\ UNCHANGED err
        <3>1. ctl' = Append(ctl, Frame("margs", "run"))
            BY <2>3 DEF Push
        <3>2. "margs" \in HeapKinds /\ One("margs" \in DepthKinds) = 1
            BY DEF HeapKinds, DepthKinds, One
        <3>3. call_depth' = call_depth + One("margs" \in DepthKinds)
            BY <2>3, <3>2
        <3> QED
            BY <2>1, <2>3, <3>1, <3>2, <3>3, <1>3, EnterEven
    <2> QED
        BY <1>7, <2>2, <2>3 DEF EnterMethod
<1>8. ASSUME RunMethod
      PROVE  Even(fl)'
    <2> DEFINE f == [Top EXCEPT !.k = "method"]
    <2>1. /\ ctl # << >> /\ Top.k = "margs" /\ ctl' = [ctl EXCEPT ![Len(ctl)] = f]
          /\ err' = "none" /\ UNCHANGED <<heapVars, saved_symbol_stacks, call_depth>>
        BY <1>8 DEF RunMethod, Running, SetTop
    <2>2. Top \in FrameType
        BY <2>1, ControlFacts
    <2>3. f \in FrameType /\ f.k = "method" /\ f.pend = Top.pend
        BY <2>2 DEF FrameType, Bodies
    <2> HIDE DEF f
    <2>4. scope_allocations' = scope_allocations
        BY <2>1 DEF heapVars
    <2>5. /\ One(Top.k \in HeapKinds) = 1 /\ One(f.k \in HeapKinds) = 1
          /\ One(Top.k \in DepthKinds) = 1 /\ One(f.k \in DepthKinds) = 1
        BY <2>1, <2>3 DEF One, HeapKinds, DepthKinds, Bodies
    <2>6. /\ Len(scope_allocations') =
                (Len(scope_allocations) - One(Top.k \in HeapKinds)) + One(f.k \in HeapKinds)
          /\ call_depth' = (call_depth - One(Top.k \in DepthKinds)) + One(f.k \in DepthKinds)
        BY <2>1, <2>4, <2>5, <1>2
    <2> QED
        BY <2>1, <2>3, <2>6, EvenBecomes
<1>9. ASSUME LeaveMethod
      PROVE  Even(fl)'
    <2>1. /\ ctl # << >> /\ Top.k = "method" /\ ctl' = Front(ctl) /\ Leave
          /\ call_depth' = call_depth - 1 /\ UNCHANGED saved_symbol_stacks
        BY <1>9 DEF LeaveMethod, AtEnd, Running, Pop
    <2>2. err' # "none" => err # "none"
        BY <1>9 DEF LeaveMethod
    <2>3. Top.k \in HeapKinds /\ One(Top.k \in DepthKinds) = 1
        BY <2>1 DEF HeapKinds, DepthKinds, One, Bodies
    <2>4. call_depth' = call_depth - One(Top.k \in DepthKinds)
        BY <2>1, <2>3
    <2> QED
        BY <2>1, <2>2, <2>3, <2>4, LeaveEven
<1> QED
    BY <1>5, <1>6, <1>7, <1>8, <1>9 DEF Calls

-----------------------------------------------------------------------------
\* A deferred expression holds back the error with which its block is left.
LEMMA RunDeferredEven ==
    ASSUME Inv, NEW fl \in Floors, Even(fl), RunDeferred
    PROVE  Even(fl)'
<1> DEFINE f == OneDeferredLess(Top)
           r == Front(ctl)
           g == [Frame("defer", "run") EXCEPT !.pend = err]
           H == Len(scope_allocations)
           n == Len(saved_symbol_stacks)
<1>1. /\ ctl # << >> /\ Top.k \in Bodies /\ Top.dfr > 0 /\ err' = "none"
      /\ UNCHANGED <<heapVars, saved_symbol_stacks, call_depth>>
    BY DEF RunDeferred, Running
<1>2. /\ ctl \in Seq(FrameType) /\ Top = Last(ctl) /\ Top \in FrameType
      /\ \A x \in FrameType : [ctl EXCEPT ![Len(ctl)] = x] = Append(r, x)
      /\ n \in Nat /\ H \in Nat /\ call_depth \in Nat /\ err \in Errs
    BY <1>1, ControlFacts
<1>3. Len(symbols) \in Nat
    BY InvFacts
<1>4. r \in Seq(FrameType)
    BY <1>1, <1>2, FrontAppend
<1>5. f \in FrameType /\ f.k = Top.k /\ f.pend = Top.pend
    <2> DEFINE m == Top.dfr - 1
    <2>1. m \in Nat /\ "leaving" \in Phases
        BY <1>1, <1>2 DEF FrameType, Phases
    <2>2. f = [Top EXCEPT !.dfr = m, !.ph = "leaving"]
        BY DEF OneDeferredLess
    <2> HIDE DEF m, f
    <2> QED
        BY <2>1, <2>2, <1>2 DEF FrameType
<1>6. g \in FrameType /\ g.k = "defer" /\ g.pend = err
    BY <1>2, <1>3 DEF Frame, FrameType, Heads, Phases
<1>7. ctl' = Append(Append(r, f), g)
    <2>1. ctl' = Append([ctl EXCEPT ![Len(ctl)] = f], g)
        BY DEF RunDeferred
    <2> QED
        BY <2>1, <1>2, <1>5
<1>8. scope_allocations' = scope_allocations
    BY <1>1 DEF heapVars
<1> HIDE DEF f, g, r, H, n
<1>9. Append(r, f) \in Seq(FrameType)
    BY <1>4, <1>5
<1>10. Exact(fl, r, H - One(Top.k \in HeapKinds), call_depth - One(Top.k \in DepthKinds),
             n - One(Top.k \in {"call"}))
    BY <1>1, <1>2, ExactPop DEF Even, r, H, n
<1>11. Exact(fl, Append(r, f), (H - One(Top.k \in HeapKinds)) + One(Top.k \in HeapKinds),
             (call_depth - One(Top.k \in DepthKinds)) + One(Top.k \in DepthKinds),
             (n - One(Top.k \in {"call"})) + One(Top.k \in {"call"}))
    BY <1>4, <1>5, <1>10, ExactPush
<1>12. Exact(fl, Append(r, f), H, call_depth, n)
    <2>1. /\ One(Top.k \in HeapKinds) \in Nat /\ One(Top.k \in DepthKinds) \in Nat
          /\ One(Top.k \in {"call"}) \in Nat
        BY OneNat
    <2>2. /\ (H - One(Top.k \in HeapKinds)) + One(Top.k \in HeapKinds) = H
          /\ (call_depth - One(Top.k \in DepthKinds)) + One(Top.k \in DepthKinds) = call_depth
          /\ (n - One(Top.k \in {"call"})) + One(Top.k \in {"call"}) = n
        BY <1>2, <2>1
    <2> QED
        BY <1>11, <2>2
<1>13. Exact(fl, Append(Append(r, f), g), H, call_depth, n)
    <2>1. /\ One(g.k \in HeapKinds) = 0 /\ One(g.k \in DepthKinds) = 0
          /\ One(g.k \in {"call"}) = 0
        BY <1>6 DEF One, HeapKinds, DepthKinds, Bodies
    <2>2. /\ H + One(g.k \in HeapKinds) = H /\ call_depth + One(g.k \in DepthKinds) = call_depth
          /\ n + One(g.k \in {"call"}) = n
        BY <1>2, <2>1
    <2>3. Exact(fl, Append(Append(r, f), g), H + One(g.k \in HeapKinds),
                call_depth + One(g.k \in DepthKinds), n + One(g.k \in {"call"}))
        BY <1>6, <1>9, <1>12, ExactPush
    <2> QED
        BY <2>2, <2>3
<1>14. f.k # "cfor" /\ ~LeakyHead(f)
    BY <1>1, <1>5 DEF LeakyHead, Bodies
<1>15. Calm(Append(r, f), err)
    <2>1. err # "none" => Clear(r)
        BY <1>1, <1>2, ClearFront DEF Even, Calm, r
    <2> QED
        BY <2>1, <1>1, <1>2, <1>5, <1>14, CalmTouch DEF Even, r
<1>16. Calm(Append(Append(r, f), g), "none")
    <2>1. g.pend # "none" => Clear(Append(r, f))
        BY <1>6, <1>15 DEF Calm
    <2> QED
        BY <2>1, <1>6, <1>9, <1>15, CalmPush
<1> QED
    BY <1>1, <1>7, <1>8, <1>13, <1>16 DEF Even, H, n

\* try or catch ends and what follows it remains.
LEMMA LeaveToEven ==
    ASSUME Inv, NEW fl \in Floors, Even(fl), Leave, ctl # << >>, Top.k \in {"try", "catch"}, err' = "none",
           UNCHANGED <<saved_symbol_stacks, call_depth>>,
           NEW f \in FrameType, f.k \in {"caught", "finish"}, f.pend \in {Top.pend, err},
           ctl' = [ctl EXCEPT ![Len(ctl)] = f]
    PROVE  Even(fl)'
<1>1. Len(scope_allocations') = Len(scope_allocations) - 1
    BY LeaveTyped
<1>2. Len(scope_allocations) \in Nat /\ call_depth \in Nat
    BY ControlFacts
<1>3. /\ One(Top.k \in HeapKinds) = 1 /\ One(f.k \in HeapKinds) = 0
      /\ One(Top.k \in DepthKinds) = 0 /\ One(f.k \in DepthKinds) = 0
    BY DEF One, HeapKinds, DepthKinds, Bodies
<1>4. /\ Len(scope_allocations') =
            (Len(scope_allocations) - One(Top.k \in HeapKinds)) + One(f.k \in HeapKinds)
      /\ call_depth' = (call_depth - One(Top.k \in DepthKinds)) + One(f.k \in DepthKinds)
    BY <1>1, <1>2, <1>3
<1> QED
    BY <1>4, EvenBecomes

\* The catch or finally block of a try begins.
LEMMA EnterToEven ==
    ASSUME Inv, NEW fl \in Floors, Even(fl), NEW B \in Bindings, NEW m \in BOOLEAN, Enter(B, m),
           ctl # << >>, Top.k \in {"caught", "finish"},
           UNCHANGED <<saved_symbol_stacks, call_depth, err>>,
           NEW f \in FrameType, f.k \in {"catch", "finally"}, f.pend = Top.pend,
           ctl' = [ctl EXCEPT ![Len(ctl)] = f]
    PROVE  Even(fl)'
<1>1. Len(scope_allocations') = Len(scope_allocations) + 1
    BY EnterTyped
<1>2. /\ Len(scope_allocations) \in Nat /\ call_depth \in Nat
      /\ ctl \in Seq(FrameType) /\ Top = Last(ctl)
    BY ControlFacts
<1>3. /\ One(Top.k \in HeapKinds) = 0 /\ One(f.k \in HeapKinds) = 1
      /\ One(Top.k \in DepthKinds) = 0 /\ One(f.k \in DepthKinds) = 0
    BY DEF One, HeapKinds, DepthKinds, Bodies
<1>4. /\ Len(scope_allocations') =
            (Len(scope_allocations) - One(Top.k \in HeapKinds)) + One(f.k \in HeapKinds)
      /\ call_depth' = (call_depth - One(Top.k \in DepthKinds)) + One(f.k \in DepthKinds)
    BY <1>1, <1>2, <1>3
<1>5. ~LeakyHead(f)
    BY DEF LeakyHead
<1>6. err' # "none" => Clear(Front(ctl))
    BY <1>2, ClearFront DEF Even, Calm
<1> QED
    BY <1>4, <1>5, <1>6, EvenBecomes

LEMMA BlocksEven ==
    ASSUME Inv, NEW fl \in Floors, Even(fl), Blocks
    PROVE  Even(fl)'
<1>1. call_depth \in Nat /\ ctl \in Seq(FrameType) /\ err \in Errs
    BY ControlFacts
<1>2. "run" \in Phases
    BY DEF Phases
\* The bodies that own a scope and no call depth.
<1>3. ASSUME NEW k \in {"block", "try", "catch", "finally"}
      PROVE  /\ k \in Bodies \cup Heads /\ k \in HeapKinds /\ k \notin {"iter", "call"}
             /\ k # "cfor" /\ One(k \in DepthKinds) = 0
    BY DEF Bodies, HeapKinds, DepthKinds, One
<1>4. call_depth = call_depth - 0 /\ call_depth = call_depth + 0
    BY <1>1
<1>5. ASSUME NEW B \in Bindings, NEW k \in {"block", "try"}, Enter(B, FALSE), AtExpression,
             ctl' = Append(ctl, Frame(k, "run")),
             UNCHANGED <<saved_symbol_stacks, call_depth, err>>
      PROVE  Even(fl)'
    <2>1. err = "none"
        BY <1>5 DEF AtExpression, AtStatement
    <2>2. k \in {"block", "try", "catch", "finally"}
        OBVIOUS
    <2>3. /\ k \in Bodies \cup Heads /\ k \in HeapKinds /\ k # "call" /\ k # "cfor"
          /\ call_depth' = call_depth + One(k \in DepthKinds)
        BY <2>2, <1>3, <1>4, <1>5
    <2> QED
        BY <2>1, <2>3, <1>2, <1>5, EnterEven
<1>6. ASSUME NEW B \in Bindings, EnterBlock(B)
      PROVE  Even(fl)'
    BY <1>5, <1>6 DEF EnterBlock, Push
<1>7. ASSUME EnterTry
      PROVE  Even(fl)'
    BY <1>5, <1>7, NoBinding DEF EnterTry, Push
<1>8. ASSUME ctl # << >>, Top.k \in {"block", "try", "catch", "finally"}, Leave,
             ctl' = Front(ctl), UNCHANGED <<saved_symbol_stacks, call_depth>>,
             err' # "none" => err # "none" \/ Clear(Front(ctl))
      PROVE  Even(fl)'
    <2>1. /\ Top.k \in HeapKinds /\ Top.k \notin {"call", "iter"}
          /\ call_depth' = call_depth - One(Top.k \in DepthKinds)
        BY <1>3, <1>4, <1>8
    <2> QED
        BY <2>1, <1>8, LeaveEven
<1>9. ASSUME LeaveBlock
      PROVE  Even(fl)'
    BY <1>9, <1>8 DEF LeaveBlock, AtEnd, Running, Pop
\* No head below a construct that holds an error back would leak.
<1>10. ASSUME ctl # << >>, Top.pend # "none"
       PROVE  Clear(Front(ctl))
    <2>1. Top = Last(ctl)
        BY <1>10, ControlFacts
    <2> QED
        BY <2>1, <1>1, <1>10, HeldFront DEF Even, Calm
<1>11. ASSUME LeaveFinally
       PROVE  Even(fl)'
    <2>1. ctl # << >> /\ Top.k = "finally" /\ Leave /\ ctl' = Front(ctl)
          /\ UNCHANGED <<saved_symbol_stacks, call_depth>>
          /\ err' = IF err = "none" THEN Top.pend ELSE err
        BY <1>11 DEF LeaveFinally, AtEnd, Running, Pop
    <2>2. err' # "none" => err # "none" \/ Clear(Front(ctl))
        BY <2>1, <1>10
    <2> QED
        BY <2>1, <2>2, <1>8
<1>12. ASSUME EndDeferred
       PROVE  Even(fl)'
    <2>1. /\ ctl # << >> /\ Top.k = "defer" /\ ctl' = Front(ctl) /\ err' = Top.pend
          /\ UNCHANGED <<heapVars, saved_symbol_stacks, call_depth>>
        BY <1>12 DEF EndDeferred, Running, Pop
    <2>2. Top.k \notin HeapKinds /\ Top.k \notin DepthKinds
        BY <2>1 DEF HeapKinds, DepthKinds, Bodies
    <2>3. err' # "none" => Clear(Front(ctl))
        BY <2>1, <1>10
    <2> QED
        BY <2>1, <2>2, <2>3, DropEven
\* The end of try or catch.
<1>13. ASSUME ctl # << >>, Top.k \in {"try", "catch"}, Leave, Conclude,
              UNCHANGED <<saved_symbol_stacks, call_depth>>
       PROVE  Even(fl)'
    <2> DEFINE f == [Top EXCEPT !.k = "finish", !.ph = "run", !.pend = err]
    <2>1. CASE ctl' = Front(ctl) /\ UNCHANGED err
        BY <2>1, <1>8, <1>13
    <2>2. CASE ctl' = [ctl EXCEPT ![Len(ctl)] = f] /\ err' = "none"
        <3>1. Top \in FrameType
            BY <1>13, ControlFacts
        <3>2. f \in FrameType /\ f.k = "finish" /\ f.pend = err
            BY <3>1, <1>1, <1>2 DEF FrameType, Heads
        <3> HIDE DEF f
        <3> QED
            BY <2>2, <3>2, <1>13, LeaveToEven
    <2> QED
        BY <2>1, <2>2, <1>13 DEF Conclude, Pop, SetTop
<1>14. ASSUME LeaveTry
       PROVE  Even(fl)'
    <2> DEFINE f == [Top EXCEPT !.k = "caught", !.ph = "run"]
    <2>1. ctl # << >> /\ Top.k = "try" /\ Leave /\ UNCHANGED <<saved_symbol_stacks, call_depth>>
        BY <1>14 DEF LeaveTry, AtEnd, Running
    <2>2. CASE ctl' = [ctl EXCEPT ![Len(ctl)] = f] /\ err' = "none"
        <3>1. Top \in FrameType
            BY <2>1, ControlFacts
        <3>2. f \in FrameType /\ f.k = "caught" /\ f.pend = Top.pend
            BY <3>1, <1>2 DEF FrameType, Heads
        <3> HIDE DEF f
        <3> QED
            BY <2>1, <2>2, <3>2, LeaveToEven
    <2> QED
        BY <2>1, <2>2, <1>13, <1>14 DEF LeaveTry, SetTop
<1>15. ASSUME LeaveCatch
       PROVE  Even(fl)'
    BY <1>13, <1>15 DEF LeaveCatch, AtEnd, Running
<1>16. ASSUME NEW B \in Bindings, NEW k \in {"catch", "finally"}, Enter(B, FALSE),
              ctl # << >>, Top.k \in {"caught", "finish"}, SetTop([Top EXCEPT !.k = k]),
              UNCHANGED <<saved_symbol_stacks, call_depth, err>>
       PROVE  Even(fl)'
    <2> DEFINE f == [Top EXCEPT !.k = k]
    <2>1. Top \in FrameType
        BY <1>16, ControlFacts
    <2>2. f \in FrameType /\ f.k = k /\ f.pend = Top.pend
        BY <2>1 DEF FrameType, Bodies
    <2>3. ctl' = [ctl EXCEPT ![Len(ctl)] = f]
        BY <1>16 DEF SetTop
    <2> HIDE DEF f
    <2> QED
        BY <2>2, <2>3, <1>16, EnterToEven
<1>17. ASSUME NEW B \in Bindings, EnterCatch(B)
       PROVE  Even(fl)'
    BY <1>16, <1>17 DEF EnterCatch, Running
<1>18. ASSUME EnterFinally
       PROVE  Even(fl)'
    BY <1>16, <1>18, NoBinding DEF EnterFinally, Running
<1> QED
    BY <1>6, <1>7, <1>9, <1>11, <1>12, <1>14, <1>15, <1>17, <1>18, RunDeferredEven DEF Blocks

LEMMA PointersEven ==
    ASSUME Inv, NEW fl \in Floors, Even(fl), Pointers
    PROVE  Even(fl)'
<1>1. HeapOK /\ scope_allocations # << >>
    BY InvFacts
<1>2. Len(scope_allocations) \in Nat /\ call_depth \in Nat /\ Len(saved_symbol_stacks) \in Nat
    BY ControlFacts
<1>3. ASSUME EnterUnsafe
      PROVE  Even(fl)'
    <2>1. /\ ctl' = Append(ctl, Frame("unsafe", "run")) /\ err' = "none"
          /\ UNCHANGED <<saved_symbol_stacks, call_depth>>
        BY <1>3 DEF EnterUnsafe, Push, AtExpression, AtStatement
    <2>2. PICK a \in Candidates : alloc(True, a, scope_allocations)
        BY <1>3 DEF EnterUnsafe
    <2>3. Len(scope_allocations') = Len(scope_allocations)
        BY <2>2, <1>1, AllocHere, ScopesAssumption
    <2>4. /\ "unsafe" \in Bodies \cup Heads /\ "run" \in Phases
          /\ One("unsafe" \in HeapKinds) = 0 /\ One("unsafe" \in DepthKinds) = 0
          /\ One("unsafe" \in {"call"}) = 0
        BY DEF Bodies, Phases, One, HeapKinds, DepthKinds
    <2>5. /\ Len(scope_allocations') = Len(scope_allocations) + One("unsafe" \in HeapKinds)
          /\ call_depth' = call_depth + One("unsafe" \in DepthKinds)
          /\ Len(saved_symbol_stacks') = Len(saved_symbol_stacks) + One("unsafe" \in {"call"})
        BY <2>1, <2>3, <2>4, <1>2
    <2> QED
        BY <2>1, <2>4, <2>5, EvenPush
<1>4. ASSUME LeaveUnsafe
      PROVE  Even(fl)'
    <2>1. /\ ctl # << >> /\ Top.k = "unsafe" /\ ctl' = Front(ctl)
          /\ err' = IF err = "return" THEN "none" ELSE err
          /\ UNCHANGED <<heapVars, saved_symbol_stacks, call_depth>>
        BY <1>4 DEF LeaveUnsafe, AtEnd, Running, Pop
    <2>2. Top.k \notin HeapKinds /\ Top.k \notin DepthKinds
        BY <2>1 DEF HeapKinds, DepthKinds, Bodies
    <2> QED
        BY <2>1, <2>2, DropEven
<1>5. ASSUME NEW v \in Vals, PtrNew(v)
      PROVE  Even(fl)'
    BY <1>5, AllocEven DEF PtrNew, scopeVars
<1>6. ASSUME NEW v \in Vals, NEW a \in PtrAddrs, PtrWrite(a, v)
      PROVE  Even(fl)'
    <2>1. scope_allocations' = scope_allocations /\ UNCHANGED scopeVars
        BY <1>6 DEF PtrWrite, write
    <2> QED
        BY <2>1, EvenStay DEF scopeVars
<1> QED
    BY <1>3, <1>4, <1>5, <1>6 DEF Pointers

-----------------------------------------------------------------------------
(* The theorem.                                                            *)

LEMMA InitEven == Init => Even(Ground)
<1> SUFFICES ASSUME Init PROVE Even(Ground)
    OBVIOUS
<1>1. ctl = << >> /\ err = "none" /\ call_depth = 0 /\ saved_symbol_stacks = << >>
    BY DEF Init
<1>2. Len(scope_allocations) = 1
    BY DEF Init, HeapInit
<1>3. \A ks : Cnt(ctl, ks) = 0
    BY <1>1, FS_EmptySet DEF Cnt
<1>4. Exact(Ground, ctl, Len(scope_allocations), call_depth, Len(saved_symbol_stacks))
    BY <1>1, <1>2, <1>3 DEF Exact, Ground
<1>5. Calm(ctl, err)
    BY <1>1 DEF Calm, Clear, Held, Bodied
<1> QED
    BY <1>4, <1>5 DEF Even

LEMMA NextEven ==
    ASSUME "headError" \notin Features, Inv, NEW fl \in Floors, Even(fl), [Next]_vars
    PROVE  Even(fl)'
<1>1. CASE Next
    <2>1. CASE NextTopLevel
        <3>1. err' = "none" /\ UNCHANGED <<heapVars, saved_symbol_stacks, call_depth, ctl>>
            BY <2>1 DEF NextTopLevel
        <3>2. scope_allocations' = scope_allocations
            BY <3>1 DEF heapVars
        <3> QED
            BY <3>1, <3>2, EvenStay
    <2> QED
        BY <1>1, <2>1, StatementEven, LoopsEven, CallsEven, BlocksEven, PointersEven DEF Next
<1>2. CASE UNCHANGED vars
    <2>1. UNCHANGED <<saved_symbol_stacks, call_depth, ctl, err, scope_allocations>>
        BY <1>2 DEF vars, scopeVars, heapVars
    <2> QED
        BY <2>1, EvenStay
<1> QED
    BY <1>1, <1>2

LEMMA EvenBalance == Inv /\ Even(Ground) => ScopeBalance
<1>1. \A ks : Count(ks) = Cnt(ctl, ks)
    BY DEF Count, Cnt
<1> SUFFICES ASSUME Inv, Even(Ground)
             PROVE  ScopeBalance
    OBVIOUS
<1>2. /\ Len(scope_allocations) = 1 + Cnt(ctl, HeapKinds)
      /\ Len(saved_symbol_stacks) = 0 + Cnt(ctl, {"call"})
      /\ call_depth = 0 + Cnt(ctl, DepthKinds)
    BY DEF Even, Exact, Ground
<1>3. ctl \in Seq(FrameType)
    BY InvFacts
<1>4. \A ks : Cnt(ctl, ks) \in Nat
    BY <1>3, CntFinite
<1>5. 0 + Cnt(ctl, {"call"}) = Cnt(ctl, {"call"}) /\ 0 + Cnt(ctl, DepthKinds) = Cnt(ctl, DepthKinds)
    BY <1>4
<1> QED
    BY <1>1, <1>2, <1>5 DEF ScopeBalance, HeapKinds, DepthKinds

\* Whatever construct is left, by a value, an error, return, break or continue,
\* through blocks, loops, calls, methods, unsafe blocks, try, catch, finally and
\* deferred expressions, the heap scopes, the saved stacks and call_depth are
\* afterwards as many as the constructs still in progress have pushed
\* (ScopeBalance), for every program that raises no error in a leaking head.
THEOREM ScopesBalance ==
    ASSUME "headError" \notin Features
    PROVE  Spec => []ScopeBalance
<1>1. Init => Inv /\ Even(Ground)
    BY InitInv, InitEven
<1>2. Inv /\ Even(Ground) /\ [Next]_vars => Inv' /\ Even(Ground)'
    BY NextInv, NextEven DEF Ground, Floors
<1>3. Inv /\ Even(Ground) => ScopeBalance
    BY EvenBalance
<1> QED
    BY <1>1, <1>2, <1>3, PTL DEF Spec
=============================================================================
