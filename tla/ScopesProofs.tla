---------------------------- MODULE ScopesProofs ----------------------------
(***************************************************************************)
(* The interpreter's specification, for every program, every set of values *)
(* and every threshold: it is type correct, it never frees a block twice   *)
(* or hands out an address that is in use, and every block has one owner.  *)
(*                                                                         *)
(* Neither is inductive alone.  A pop is harmless only if the construct    *)
(* being left has pushed, so the invariant says how high each of the       *)
(* stacks is at least, construct by construct; "at least", because an      *)
(* error in the head of a construct leaves its scopes behind.              *)
(***************************************************************************)
EXTENDS Scopes, FiniteSetTheorems, TLAPS

(***************************************************************************)
(* The heap: what each of its methods preserves, for any set of values and *)
(* any thresholds: the types, and that an address is handed out once.      *)
(***************************************************************************)

\* The inductive part of the heap: its types, the uniqueness of addresses, and
\* that an allocated address has a value.
HeapInv ==
    /\ HeapTypeOK
    /\ NoDoubleFree
    /\ DOMAIN metadata \subseteq DOMAIN values

\* OwnedOnce for a stack of scopes s and allocated addresses D.
Owned(s, D) ==
    /\ \A a \in D : \E i \in DOMAIN s : a \in s[i]
    /\ \A i, j \in DOMAIN s : i # j => s[i] \cap s[j] = {}
    /\ \A i \in DOMAIN s : s[i] \subseteq D

BlockType == [addr : Nat, size : Int]

\* Distinct positions of a free list hold distinct addresses.
DistinctAddrs(f) == \A i, j \in DOMAIN f : f[i].addr = f[j].addr => i = j

\* What NoDoubleFree says of a free list f beside the allocated addresses D
\* and a bump pointer n.
FreeListOK(f, D, n) ==
    /\ DistinctAddrs(f)
    /\ FreeAddrs(f) \cap D = {}
    /\ \A a \in FreeAddrs(f) \cup D : a < n

-----------------------------------------------------------------------------
\* Values have a size of at least one allocation unit (size_of and the `max`
\* of its callers).
LEMMA SizeOfPositive ==
    ASSUME NEW v \in Vals
    PROVE  size_of(v) \in Nat /\ size_of(v) >= 8
<1>1. v.kind \in Kinds /\ v.len \in Nat
    BY HeapAssumption
<1>2. RawSize(v) \in Nat
    BY <1>1 DEF RawSize, Kinds
<1>3. ((RawSize(v) + ALIGNMENT - 1) \div ALIGNMENT) * ALIGNMENT \in Nat
    BY <1>2 DEF ALIGNMENT
<1> QED
    BY <1>3 DEF size_of, ALIGNMENT

\* A function over a finite set has a finite range.
LEMMA FiniteRange ==
    ASSUME NEW f, IsFiniteSet(DOMAIN f)
    PROVE  IsFiniteSet(Range(f))
<1> DEFINE g == [x \in DOMAIN f |-> f[x]]
<1>1. g \in Surjection(DOMAIN f, Range(f))
    BY DEF Surjection, Range
<1> QED
    BY <1>1, FS_Surjection

LEMMA FreeAddrsNat ==
    ASSUME NEW f \in Seq(BlockType)
    PROVE  FreeAddrs(f) \subseteq Nat
<1>1. \A i \in DOMAIN f : f[i] \in BlockType
    OBVIOUS
<1> QED
    BY <1>1 DEF FreeAddrs, BlockType

-----------------------------------------------------------------------------
(* Coalescing.                                                             *)

\* A run has one last block: two blocks that end the run of the same first
\* block have the same address.
LEMMA RunEndsOnce ==
    ASSUME NEW B \in SUBSET BlockType, NEW b \in B, NEW l \in B, NEW m \in B,
           EndsRun(B, b, l), EndsRun(B, b, m)
    PROVE  l.addr = m.addr
<1>1. ASSUME NEW x \in B, NEW y \in B, EndsRun(B, b, x), EndsRun(B, b, y), x.addr < y.addr
      PROVE  FALSE
    <2>1. PICK s \in B : StartsRun(B, s) /\ x.addr < s.addr /\ s.addr <= y.addr
        BY <1>1 DEF EndsRun
    <2>2. b.addr < s.addr
        BY <1>1, <2>1 DEF EndsRun, BlockType
    <2> QED
        BY <1>1, <2>1, <2>2 DEF EndsRun
<1> QED
    BY <1>1 DEF BlockType

\* The merged blocks begin where some block began, and no two of them begin
\* at the same address.
LEMMA CoalescedAddrs ==
    ASSUME NEW B \in SUBSET BlockType,
           \A p, q \in B : p.addr = q.addr => p = q
    PROVE  /\ Coalesced(B) \subseteq BlockType
           /\ \A c \in Coalesced(B) : \E b \in B : c.addr = b.addr
           /\ \A c, d \in Coalesced(B) : c.addr = d.addr => c = d
<1>1. ASSUME NEW c \in Coalesced(B)
      PROVE  \E p \in B, l \in B : /\ EndsRun(B, p, l)
                                   /\ c = Block(p.addr, l.addr + l.size - p.addr)
    BY DEF Coalesced
<1>2. Coalesced(B) \subseteq BlockType
    BY <1>1 DEF Block, BlockType
<1>3. \A c \in Coalesced(B) : \E b \in B : c.addr = b.addr
    BY <1>1 DEF Block
<1>4. ASSUME NEW c \in Coalesced(B), NEW d \in Coalesced(B), c.addr = d.addr
      PROVE  c = d
    <2>1. PICK p \in B, l \in B : EndsRun(B, p, l) /\ c = Block(p.addr, l.addr + l.size - p.addr)
        BY <1>1
    <2>2. PICK q \in B, m \in B : EndsRun(B, q, m) /\ d = Block(q.addr, m.addr + m.size - q.addr)
        BY <1>1
    <2>3. p = q
        BY <1>4, <2>1, <2>2 DEF Block
    <2>4. l.addr = m.addr
        BY <2>1, <2>2, <2>3, RunEndsOnce
    <2>5. l = m
        BY <2>4
    <2> QED
        BY <2>1, <2>2, <2>3, <2>5
<1> QED
    BY <1>2, <1>3, <1>4

LEMMA CoalescedFinite ==
    ASSUME NEW B, IsFiniteSet(B)
    PROVE  IsFiniteSet(Coalesced(B))
<1> DEFINE P == {p \in B \X B : StartsRun(B, p[1]) /\ EndsRun(B, p[1], p[2])}
           g == [r \in P |-> Block(r[1].addr, r[2].addr + r[2].size - r[1].addr)]
<1>1. IsFiniteSet(B \X B)
    BY FS_Product
<1>2. IsFiniteSet(P)
    BY <1>1, FS_Subset
<1>3. g \in Surjection(P, Coalesced(B))
    BY DEF Surjection, Coalesced
<1> QED
    BY <1>2, <1>3, FS_Surjection

\* compact_free_list keeps a free list sound: every address it lists was
\* listed before, and once.
LEMMA CompactKeepsAddrs ==
    ASSUME NEW f \in Seq(BlockType), DistinctAddrs(f), NEW g \in compact_free_list(f)
    PROVE  /\ g \in Seq(BlockType)
           /\ DistinctAddrs(g)
           /\ FreeAddrs(g) \subseteq FreeAddrs(f)
<1>1. CASE Len(f) <= 1
    BY <1>1 DEF compact_free_list
<1>2. CASE ~(Len(f) <= 1)
    <2> DEFINE B == Range(f)
               C == Coalesced(B)
               n == Cardinality(C)
    <2>1. B \in SUBSET BlockType
        BY DEF Range
    <2>2. \A p, q \in B : p.addr = q.addr => p = q
        BY DEF DistinctAddrs, Range
    <2>3. IsFiniteSet(B)
        <3>1. DOMAIN f = 1..Len(f) /\ Len(f) \in Nat
            OBVIOUS
        <3>2. IsFiniteSet(DOMAIN f)
            BY <3>1, FS_Interval
        <3> QED
            BY <3>2, FiniteRange
    <2>4. n \in Nat
        BY <2>3, CoalescedFinite, FS_CardinalityType
    <2>5. /\ C \subseteq BlockType
          /\ \A c \in C : \E b \in B : c.addr = b.addr
          /\ \A c, d \in C : c.addr = d.addr => c = d
        BY <2>1, <2>2, CoalescedAddrs
    <2>6. g \in SortedByAddr(C)
        BY <1>2 DEF compact_free_list
    <2>7. /\ g \in [1..n -> C]
          /\ \A i, j \in 1..n : i < j => g[i] # g[j]
        BY <2>6 DEF SortedByAddr
    <2> HIDE DEF C, n
    <2>8. g \in Seq(BlockType) /\ DOMAIN g = 1..n
        BY <2>4, <2>5, <2>7
    <2>9. DistinctAddrs(g)
        <3>1. SUFFICES ASSUME NEW i \in 1..n, NEW j \in 1..n, g[i].addr = g[j].addr
                       PROVE  i = j
            BY <2>8 DEF DistinctAddrs
        <3>2. g[i] = g[j]
            BY <3>1, <2>5, <2>7
        <3> QED
            BY <3>2, <2>4, <2>7
    <2>10. FreeAddrs(g) \subseteq FreeAddrs(f)
        BY <2>5, <2>7, <2>8 DEF FreeAddrs, Range
    <2> QED
        BY <2>8, <2>9, <2>10
<1> QED
    BY <1>1, <1>2

-----------------------------------------------------------------------------
(* Building blocks of the methods.                                         *)

\* Taking the block at position i out of a free list.
LEMMA RemoveAtAddrs ==
    ASSUME NEW f \in Seq(BlockType), DistinctAddrs(f), NEW i \in DOMAIN f
    PROVE  /\ RemoveAt(f, i) \in Seq(BlockType)
           /\ DistinctAddrs(RemoveAt(f, i))
           /\ FreeAddrs(RemoveAt(f, i)) = FreeAddrs(f) \ {f[i].addr}
<1> DEFINE g == RemoveAt(f, i)
           n == Len(f)
<1>1. n \in Nat /\ DOMAIN f = 1..n /\ i \in 1..n
    OBVIOUS
<1>2. /\ g \in Seq(BlockType)
      /\ Len(g) = n - 1
      /\ DOMAIN g = 1..(n - 1)
      /\ \A k \in 1..(n - 1) : g[k] = f[IF k < i THEN k ELSE k + 1]
    <2> DEFINE before == SubSeq(f, 1, i - 1)
               after == SubSeq(f, i + 1, n)
    <2>1. /\ before \in Seq(BlockType) /\ Len(before) = i - 1
          /\ \A k \in 1..(i - 1) : before[k] = f[k]
        BY <1>1
    <2>2. /\ after \in Seq(BlockType) /\ Len(after) = n - i
          /\ \A k \in 1..(n - i) : after[k] = f[i + k]
        BY <1>1
    <2>3. g = before \o after
        BY DEF RemoveAt
    <2> HIDE DEF before, after, g, n
    <2>4. /\ g \in Seq(BlockType) /\ Len(g) = (i - 1) + (n - i)
          /\ DOMAIN g = 1..Len(g)
          /\ \A k \in 1..(n - 1) : g[k] = IF k <= i - 1 THEN before[k] ELSE after[k - (i - 1)]
        BY <1>1, <2>1, <2>2, <2>3
    <2>5. Len(g) = n - 1
        BY <2>4, <1>1
    <2>6. ASSUME NEW k \in 1..(n - 1)
          PROVE  g[k] = f[IF k < i THEN k ELSE k + 1]
        <3>1. CASE k < i
            <4>1. k <= i - 1 /\ k \in 1..(i - 1)
                BY <3>1, <1>1
            <4> QED
                BY <3>1, <4>1, <2>1, <2>4
        <3>2. CASE ~(k < i)
            <4>1. ~(k <= i - 1) /\ k - (i - 1) \in 1..(n - i) /\ i + (k - (i - 1)) = k + 1
                BY <3>2, <1>1
            <4>2. g[k] = after[k - (i - 1)]
                BY <4>1, <2>4
            <4>3. after[k - (i - 1)] = f[i + (k - (i - 1))]
                BY <4>1, <2>2
            <4> QED
                BY <3>2, <4>1, <4>2, <4>3
        <3> QED
            BY <3>1, <3>2
    <2> QED
        BY <2>4, <2>5, <2>6
<1> DEFINE pos(k) == IF k < i THEN k ELSE k + 1
<1> HIDE DEF g, n
<1>9. ASSUME NEW k \in 1..(n - 1)
      PROVE  pos(k) \in 1..n /\ pos(k) # i /\ g[k] = f[pos(k)]
    <2>1. pos(k) \in 1..n /\ pos(k) # i
        BY <1>1
    <2>2. g[k] = f[pos(k)]
        BY <1>2
    <2> QED
        BY <2>1, <2>2
<1>3. DistinctAddrs(g)
    <2>1. SUFFICES ASSUME NEW j \in 1..(n - 1), NEW k \in 1..(n - 1), g[j].addr = g[k].addr
                   PROVE  j = k
        BY <1>2 DEF DistinctAddrs
    <2> HIDE DEF pos
    <2>2. pos(j) = pos(k)
        BY <1>9, <1>1, <2>1 DEF DistinctAddrs
    <2> QED
        BY <2>2, <1>1 DEF pos
<1>4. ASSUME NEW a \in FreeAddrs(g)
      PROVE  a \in FreeAddrs(f) /\ a # f[i].addr
    <2> HIDE DEF pos
    <2>1. PICK k \in 1..(n - 1) : a = g[k].addr
        BY <1>2 DEF FreeAddrs
    <2>2. a = f[pos(k)].addr /\ pos(k) \in 1..n /\ pos(k) # i
        BY <2>1, <1>9
    <2> QED
        BY <2>2, <1>1 DEF FreeAddrs, DistinctAddrs
<1>5. ASSUME NEW a \in FreeAddrs(f), a # f[i].addr
      PROVE  a \in FreeAddrs(g)
    <2>1. PICK k \in 1..n : a = f[k].addr
        BY <1>1 DEF FreeAddrs
    <2>2. CASE k < i
        BY <2>1, <2>2, <1>1, <1>2 DEF FreeAddrs
    <2>3. CASE k > i
        <3>1. k - 1 \in 1..(n - 1) /\ ~(k - 1 < i) /\ (k - 1) + 1 = k
            BY <2>3, <1>1
        <3>2. g[k - 1] = f[k]
            BY <3>1, <1>2
        <3> QED
            BY <3>1, <3>2, <2>1, <1>2 DEF FreeAddrs
    <2> QED
        BY <2>1, <2>2, <2>3, <1>5, <1>1
<1> QED
    BY <1>2, <1>3, <1>4, <1>5 DEF g

\* Any order of the blocks of a set of allocated addresses is a free list of
\* distinct addresses of that set.
LEMMA OrdersAddrs ==
    ASSUME HeapTypeOK, NEW S \in SUBSET DOMAIN metadata, NEW o \in Orders(S)
    PROVE  /\ o \in Seq(BlockType)
           /\ DistinctAddrs(o)
           /\ FreeAddrs(o) \subseteq S
<1>1. IsFiniteSet(S)
    BY FS_Subset DEF HeapTypeOK
<1>2. Cardinality(S) \in Nat
    BY <1>1, FS_CardinalityType
<1>3. PICK p \in Injection(1..Cardinality(S), S) :
            o = [i \in DOMAIN p |-> Block(p[i], metadata[p[i]])]
    BY DEF Orders
<1> DEFINE n == Cardinality(S)
<1>4. n \in Nat
    BY <1>2
<1>5. p \in [1..n -> S] /\ \A i, j \in 1..n : p[i] = p[j] => i = j
    BY <1>3 DEF Injection, IsInjective
<1> HIDE DEF n
<1>6. \A i \in 1..n : Block(p[i], metadata[p[i]]) \in BlockType
    BY <1>5 DEF HeapTypeOK, Block, BlockType
<1>7. o \in [1..n -> BlockType]
    BY <1>3, <1>5, <1>6
<1>8. o \in Seq(BlockType) /\ DOMAIN o = 1..n
    BY <1>4, <1>7
<1>9. \A i \in 1..n : o[i].addr = p[i]
    BY <1>3, <1>5 DEF Block
<1> QED
    BY <1>5, <1>8, <1>9 DEF DistinctAddrs, FreeAddrs

\* Appending blocks at other addresses.
LEMMA ConcatAddrs ==
    ASSUME NEW f \in Seq(BlockType), NEW o \in Seq(BlockType),
           DistinctAddrs(f), DistinctAddrs(o), FreeAddrs(f) \cap FreeAddrs(o) = {}
    PROVE  /\ f \o o \in Seq(BlockType)
           /\ DistinctAddrs(f \o o)
           /\ FreeAddrs(f \o o) = FreeAddrs(f) \cup FreeAddrs(o)
<1> DEFINE g == f \o o
<1>1. /\ g \in Seq(BlockType)
      /\ Len(f) \in Nat /\ Len(o) \in Nat
      /\ DOMAIN f = 1..Len(f) /\ DOMAIN o = 1..Len(o)
      /\ DOMAIN g = 1..(Len(f) + Len(o))
      /\ \A i \in 1..Len(f) : g[i] = f[i]
      /\ \A i \in 1..Len(o) : g[Len(f) + i] = o[i]
    OBVIOUS
<1> HIDE DEF g
<1>2. \A i \in DOMAIN g : i \in 1..Len(f) \/ \E k \in 1..Len(o) : i = Len(f) + k
    <2>1. \A i \in DOMAIN g : i > Len(f) => i - Len(f) \in 1..Len(o) /\ i = Len(f) + (i - Len(f))
        BY <1>1
    <2> QED
        BY <1>1, <2>1
<1>3. FreeAddrs(g) = FreeAddrs(f) \cup FreeAddrs(o)
    <2>1. ASSUME NEW a \in FreeAddrs(g)
          PROVE  a \in FreeAddrs(f) \cup FreeAddrs(o)
        <3>1. PICK i \in DOMAIN g : a = g[i].addr
            BY DEF FreeAddrs
        <3>2. CASE i \in 1..Len(f)
            BY <3>1, <3>2, <1>1 DEF FreeAddrs
        <3>3. ASSUME NEW k \in 1..Len(o), i = Len(f) + k
              PROVE  a \in FreeAddrs(o)
            <4>1. a = o[k].addr
                BY <3>1, <3>3, <1>1
            <4> QED
                BY <4>1, <1>1 DEF FreeAddrs
        <3> QED
            BY <3>2, <3>3, <1>2
    <2>2. FreeAddrs(f) \subseteq FreeAddrs(g)
        BY <1>1 DEF FreeAddrs
    <2>3. ASSUME NEW k \in 1..Len(o)
          PROVE  o[k].addr \in FreeAddrs(g)
        <3>1. Len(f) + k \in DOMAIN g /\ g[Len(f) + k] = o[k]
            BY <1>1
        <3> QED
            BY <3>1 DEF FreeAddrs
    <2>4. FreeAddrs(o) \subseteq FreeAddrs(g)
        BY <2>3 DEF FreeAddrs
    <2> QED
        BY <2>1, <2>2, <2>4
<1>4. DistinctAddrs(g)
    <2>1. SUFFICES ASSUME NEW i \in DOMAIN g, NEW j \in DOMAIN g, g[i].addr = g[j].addr
                   PROVE  i = j
        BY DEF DistinctAddrs
    <2>2. CASE i \in 1..Len(f) /\ j \in 1..Len(f)
        BY <2>1, <2>2, <1>1 DEF DistinctAddrs
    <2>3. ASSUME NEW k \in 1..Len(o), NEW m \in 1..Len(o), i = Len(f) + k, j = Len(f) + m
          PROVE  i = j
        <3>1. g[i] = o[k] /\ g[j] = o[m]
            BY <2>3, <1>1
        <3>2. k = m
            BY <3>1, <2>1, <1>1 DEF DistinctAddrs
        <3> QED
            BY <3>2, <2>3
    <2>4. ASSUME NEW k \in 1..Len(f), NEW m \in 1..Len(o)
          PROVE  g[k].addr # g[Len(f) + m].addr
        <3>1. g[k].addr \in FreeAddrs(f) /\ g[Len(f) + m].addr \in FreeAddrs(o)
            BY <1>1 DEF FreeAddrs
        <3> QED
            BY <3>1
    <2> QED
        BY <2>1, <2>2, <2>3, <2>4, <1>2
<1> QED
    BY <1>1, <1>3, <1>4 DEF g
-----------------------------------------------------------------------------
(* The methods.                                                            *)

\* alloc hands out an address that was neither allocated nor left in the free
\* list, and gives it to the last of the scopes it is called with.
LEMMA AllocInv ==
    ASSUME HeapInv, NEW v \in Vals, NEW a, NEW scopes \in Seq(SUBSET Nat), alloc(v, a, scopes)
    PROVE  /\ HeapInv'
           /\ a \in Nat \ DOMAIN metadata
           /\ DOMAIN metadata' = DOMAIN metadata \cup {a}
           /\ scope_allocations' = [scopes EXCEPT ![Len(scopes)] = @ \cup {a}]
<1>1. size_of(v) \in Nat /\ size_of(v) >= 8
    BY SizeOfPositive
<1>2. HeapTypeOK /\ NoDoubleFree
    BY DEF HeapInv
<1>3. free_list \in Seq(BlockType) /\ DistinctAddrs(free_list)
    BY <1>2 DEF HeapTypeOK, NoDoubleFree, BlockType, DistinctAddrs
<1>4. /\ a \in Nat \ DOMAIN metadata
      /\ next_addr' \in Nat
      /\ free_list' \in Seq(BlockType)
      /\ FreeListOK(free_list', DOMAIN metadata \cup {a}, next_addr')
    <2>1. CASE \E i \in DOMAIN free_list :
                  /\ FirstFit(i, size_of(v))
                  /\ a = free_list[i].addr
                  /\ free_list' = RemoveAt(free_list, i)
                  /\ next_addr' = next_addr
        <3>1. PICK i \in DOMAIN free_list :
                  /\ a = free_list[i].addr
                  /\ free_list' = RemoveAt(free_list, i)
                  /\ next_addr' = next_addr
            BY <2>1
        <3>2. /\ free_list' \in Seq(BlockType)
              /\ DistinctAddrs(free_list')
              /\ FreeAddrs(free_list') = FreeAddrs(free_list) \ {a}
            BY <3>1, <1>3, RemoveAtAddrs
        <3>3. a \in FreeAddrs(free_list) /\ a \in Nat
            BY <3>1, <1>3, FreeAddrsNat DEF FreeAddrs
        <3>4. a \notin DOMAIN metadata
            BY <3>3, <1>2 DEF NoDoubleFree
        <3>5. /\ FreeAddrs(free_list') \cap (DOMAIN metadata \cup {a}) = {}
              /\ \A b \in FreeAddrs(free_list') \cup (DOMAIN metadata \cup {a}) : b < next_addr
            BY <3>2, <3>3, <1>2 DEF NoDoubleFree
        <3>6. next_addr' = next_addr /\ next_addr \in Nat
            BY <3>1, <1>2 DEF HeapTypeOK
        <3> QED
            BY <3>2, <3>3, <3>4, <3>5, <3>6 DEF FreeListOK
    <2>2. CASE /\ a = next_addr
               /\ next_addr' = next_addr + size_of(v)
               /\ free_list' = free_list
        <3>1. next_addr \in Nat /\ next_addr' \in Nat /\ next_addr < next_addr'
            BY <2>2, <1>1, <1>2 DEF HeapTypeOK
        <3>2. \A b \in FreeAddrs(free_list) \cup DOMAIN metadata : b \in Nat /\ b < next_addr
            BY <1>2, <1>3, FreeAddrsNat DEF NoDoubleFree, HeapTypeOK
        <3>3. a \notin FreeAddrs(free_list) \cup DOMAIN metadata
            BY <2>2, <3>1, <3>2
        <3>4. \A b \in FreeAddrs(free_list) \cup (DOMAIN metadata \cup {a}) : b < next_addr'
            BY <2>2, <3>1, <3>2
        <3> QED
            BY <2>2, <3>1, <3>3, <3>4, <1>2, <1>3 DEF NoDoubleFree, FreeListOK
    <2> QED
        BY <2>1, <2>2 DEF alloc
<1>5. /\ DOMAIN metadata' = DOMAIN metadata \cup {a}
      /\ metadata' \in [DOMAIN metadata' -> Nat]
    <2>1. metadata' = [x \in DOMAIN metadata \cup {a} |->
                          IF x = a THEN size_of(v) ELSE metadata[x]]
        BY DEF alloc
    <2>2. metadata \in [DOMAIN metadata -> Nat]
        BY <1>2 DEF HeapTypeOK
    <2> QED
        BY <2>1, <2>2, <1>1
<1>6. /\ DOMAIN values' = DOMAIN values \cup {a}
      /\ values' \in [DOMAIN values' -> Vals]
    <2>1. values' = [x \in DOMAIN values \cup {a} |-> IF x = a THEN v ELSE values[x]]
        BY DEF alloc
    <2>2. values \in [DOMAIN values -> Vals]
        BY <1>2 DEF HeapTypeOK
    <2> QED
        BY <2>1, <2>2
<1>7. IsFiniteSet(DOMAIN metadata')
    <2>1. IsFiniteSet(DOMAIN metadata)
        BY <1>2 DEF HeapTypeOK
    <2>2. IsFiniteSet(DOMAIN metadata \cup {a})
        BY <2>1, FS_AddElement
    <2> QED
        BY <2>2, <1>5
<1>8. scope_allocations' = [scopes EXCEPT ![Len(scopes)] = @ \cup {a}]
    BY DEF alloc
<1>9. scope_allocations' \in Seq(SUBSET Nat)
    <2> DEFINE n == Len(scopes)
    <2>1. n \in Nat /\ scopes \in [1..n -> SUBSET Nat]
        OBVIOUS
    <2>2. \A k \in 1..n : k = n => scopes[n] \cup {a} \in SUBSET Nat
        BY <2>1, <1>4
    <2> HIDE DEF n
    <2>3. [scopes EXCEPT ![n] = @ \cup {a}] \in [1..n -> SUBSET Nat]
        BY <2>1, <2>2
    <2>4. [scopes EXCEPT ![n] = @ \cup {a}] \in Seq(SUBSET Nat)
        BY <2>1, <2>3
    <2> QED
        BY <1>8, <2>4 DEF n
<1>10. allocs_since_gc' \in Nat
    BY <1>2, HeapAssumption DEF alloc, HeapTypeOK
<1>11. HeapTypeOK'
    BY <1>2, <1>4, <1>5, <1>6, <1>7, <1>9, <1>10 DEF HeapTypeOK, BlockType
<1>12. NoDoubleFree'
    BY <1>4, <1>5 DEF NoDoubleFree, FreeListOK, DistinctAddrs
<1>13. DOMAIN metadata' \subseteq DOMAIN values'
    BY <1>5, <1>6 DEF HeapInv
<1> QED
    BY <1>4, <1>5, <1>8, <1>11, <1>12, <1>13 DEF HeapInv

\* write never changes which addresses are allocated, at whatever address the
\* program writes.
LEMMA WriteInv ==
    ASSUME HeapInv, NEW a \in Nat, NEW v \in Vals, write(a, v)
    PROVE  HeapInv' /\ DOMAIN metadata' = DOMAIN metadata
<1>1. size_of(v) \in Nat
    BY SizeOfPositive
<1>2. DOMAIN metadata' = DOMAIN metadata /\ metadata' \in [DOMAIN metadata -> Nat]
    BY <1>1 DEF write, HeapInv, HeapTypeOK
<1>3. DOMAIN values' = DOMAIN values \cup {a} /\ values' \in [DOMAIN values' -> Vals]
    BY DEF write, HeapInv, HeapTypeOK
<1>4. UNCHANGED <<next_addr, free_list, scope_allocations, allocs_since_gc>>
    BY DEF write
<1>5. HeapTypeOK'
    BY <1>2, <1>3, <1>4 DEF HeapInv, HeapTypeOK
<1>6. NoDoubleFree'
    BY <1>2, <1>4 DEF HeapInv, NoDoubleFree
<1> QED
    BY <1>2, <1>3, <1>5, <1>6 DEF HeapInv

LEMMA PushScopeInv ==
    ASSUME HeapInv, push_scope
    PROVE  HeapInv'
<1>1. /\ scope_allocations' = Append(scope_allocations, {})
      /\ UNCHANGED <<values, metadata, next_addr, free_list, allocs_since_gc>>
    BY DEF push_scope
<1>2. scope_allocations' \in Seq(SUBSET Nat)
    BY <1>1 DEF HeapInv, HeapTypeOK
<1> QED
    BY <1>1, <1>2 DEF HeapInv, HeapTypeOK, NoDoubleFree

\* Freeing: blocks of the allocated addresses S join the free list, in any
\* order, as the addresses leave `metadata`.
LEMMA FreeKeepsSound ==
    ASSUME HeapInv, NEW S \in SUBSET DOMAIN metadata, NEW o \in Orders(S)
    PROVE  /\ free_list \o o \in Seq(BlockType)
           /\ FreeListOK(free_list \o o, DOMAIN metadata \ S, next_addr)
<1>1. HeapTypeOK /\ NoDoubleFree
    BY DEF HeapInv
<1>2. free_list \in Seq(BlockType) /\ DistinctAddrs(free_list)
    BY <1>1 DEF HeapTypeOK, NoDoubleFree, BlockType, DistinctAddrs
<1>3. o \in Seq(BlockType) /\ DistinctAddrs(o) /\ FreeAddrs(o) \subseteq S
    BY <1>1, OrdersAddrs
<1>4. FreeAddrs(free_list) \cap DOMAIN metadata = {}
    BY <1>1 DEF NoDoubleFree
<1>5. /\ free_list \o o \in Seq(BlockType)
      /\ DistinctAddrs(free_list \o o)
      /\ FreeAddrs(free_list \o o) = FreeAddrs(free_list) \cup FreeAddrs(o)
    BY <1>2, <1>3, <1>4, ConcatAddrs
<1> QED
    BY <1>1, <1>3, <1>4, <1>5 DEF FreeListOK, NoDoubleFree
\* pop_scope: the scope's addresses are freed and, past the threshold, the
\* free list is compacted.
LEMMA PopScopeInv ==
    ASSUME HeapInv, pop_scope
    PROVE  /\ HeapInv'
           /\ DOMAIN metadata' = DOMAIN metadata \ Last(scope_allocations)
<1> DEFINE freed == Last(scope_allocations) \cap DOMAIN metadata
<1>1. /\ scope_allocations' = Front(scope_allocations)
      /\ values' = Restrict(values, DOMAIN values \ freed)
      /\ metadata' = Restrict(metadata, DOMAIN metadata \ freed)
      /\ UNCHANGED <<next_addr, allocs_since_gc>>
    BY DEF pop_scope
<1>2. PICK o \in Orders(freed) :
          IF Len(free_list \o o) > FREE_LIST_COMPACT_THRESHOLD
          THEN free_list' \in compact_free_list(free_list \o o)
          ELSE free_list' = free_list \o o
    BY DEF pop_scope
<1>3. freed \in SUBSET DOMAIN metadata
    OBVIOUS
<1> HIDE DEF freed
<1>4. HeapTypeOK
    BY DEF HeapInv
<1>5. /\ free_list \o o \in Seq(BlockType)
      /\ FreeListOK(free_list \o o, DOMAIN metadata \ freed, next_addr)
    BY <1>3, FreeKeepsSound
<1>6. free_list' \in Seq(BlockType) /\ FreeListOK(free_list', DOMAIN metadata \ freed, next_addr)
    <2> DEFINE f == free_list \o o
    <2>1. CASE free_list' = f
        BY <2>1, <1>5
    <2>2. CASE free_list' \in compact_free_list(f)
        <3> HIDE DEF f
        <3>1. f \in Seq(BlockType) /\ FreeListOK(f, DOMAIN metadata \ freed, next_addr)
            BY <1>5 DEF f
        <3>2. /\ free_list' \in Seq(BlockType)
              /\ DistinctAddrs(free_list')
              /\ FreeAddrs(free_list') \subseteq FreeAddrs(f)
            BY <3>1, <2>2, CompactKeepsAddrs DEF FreeListOK
        <3> QED
            BY <3>1, <3>2 DEF FreeListOK
    <2> QED
        BY <1>2, <2>1, <2>2
<1>7. /\ DOMAIN metadata' = DOMAIN metadata \ freed
      /\ metadata' \in [DOMAIN metadata' -> Nat]
    BY <1>1, <1>4 DEF Restrict, HeapTypeOK
<1>8. /\ DOMAIN values' = DOMAIN values \ freed
      /\ values' \in [DOMAIN values' -> Vals]
    BY <1>1, <1>4 DEF Restrict, HeapTypeOK
<1>9. IsFiniteSet(DOMAIN metadata \ freed)
    BY <1>4, FS_Difference DEF HeapTypeOK
<1>10. scope_allocations' \in Seq(SUBSET Nat)
    BY <1>1, <1>4 DEF Front, HeapTypeOK
<1>11. HeapTypeOK'
    BY <1>1, <1>4, <1>6, <1>7, <1>8, <1>9, <1>10 DEF HeapTypeOK, BlockType
<1>12. NoDoubleFree'
    BY <1>1, <1>6, <1>7 DEF NoDoubleFree, FreeListOK, DistinctAddrs
<1>13. DOMAIN metadata' \subseteq DOMAIN values'
    BY <1>7, <1>8 DEF HeapInv
<1>14. DOMAIN metadata' = DOMAIN metadata \ Last(scope_allocations)
    BY <1>7 DEF freed
<1> QED
    BY <1>11, <1>12, <1>13, <1>14 DEF HeapInv

\* collect_garbage: whatever the roots, the swept addresses join the free list
\* once.
LEMMA CollectInv ==
    ASSUME HeapInv, NEW roots, collect_garbage(roots)
    PROVE  /\ HeapInv'
           /\ DOMAIN metadata' = DOMAIN metadata \cap roots
<1> DEFINE swept == DOMAIN values \ roots
           freed == swept \cap DOMAIN metadata
<1>1. /\ values' = Restrict(values, DOMAIN values \ swept)
      /\ metadata' = Restrict(metadata, DOMAIN metadata \ swept)
      /\ scope_allocations' =
            [i \in DOMAIN scope_allocations |-> scope_allocations[i] \cap roots]
      /\ allocs_since_gc' = 0
      /\ next_addr' = next_addr
    BY DEF collect_garbage
<1>2. PICK o \in Orders(freed) : free_list' = free_list \o o
    BY DEF collect_garbage
<1>3. HeapTypeOK
    BY DEF HeapInv
<1>4. freed \in SUBSET DOMAIN metadata /\ DOMAIN metadata \ swept = DOMAIN metadata \ freed
    OBVIOUS
<1>5. DOMAIN metadata \ swept = DOMAIN metadata \cap roots
    BY DEF HeapInv
<1> HIDE DEF freed, swept
<1>6. /\ free_list' \in Seq(BlockType)
      /\ FreeListOK(free_list', DOMAIN metadata \ freed, next_addr)
    BY <1>2, <1>4, FreeKeepsSound
<1>7. /\ DOMAIN metadata' = DOMAIN metadata \ swept
      /\ metadata' \in [DOMAIN metadata' -> Nat]
    BY <1>1, <1>3 DEF Restrict, HeapTypeOK
<1>8. /\ DOMAIN values' = DOMAIN values \ swept
      /\ values' \in [DOMAIN values' -> Vals]
    BY <1>1, <1>3 DEF Restrict, HeapTypeOK
<1>9. IsFiniteSet(DOMAIN metadata \ swept)
    BY <1>3, FS_Difference DEF HeapTypeOK
<1>10. scope_allocations' \in Seq(SUBSET Nat)
    <2>1. \A i \in DOMAIN scope_allocations : scope_allocations[i] \cap roots \in SUBSET Nat
        BY <1>3 DEF HeapTypeOK
    <2>2. DOMAIN scope_allocations = 1..Len(scope_allocations) /\ Len(scope_allocations) \in Nat
        BY <1>3 DEF HeapTypeOK
    <2> QED
        BY <1>1, <2>1, <2>2
<1>11. HeapTypeOK'
    BY <1>1, <1>3, <1>6, <1>7, <1>8, <1>9, <1>10 DEF HeapTypeOK, BlockType
<1>12. NoDoubleFree'
    BY <1>1, <1>4, <1>6, <1>7 DEF NoDoubleFree, FreeListOK, DistinctAddrs
<1>13. DOMAIN metadata' \subseteq DOMAIN values'
    BY <1>7, <1>8 DEF HeapInv
<1> QED
    BY <1>5, <1>7, <1>11, <1>12, <1>13 DEF HeapInv

-----------------------------------------------------------------------------
(* Ownership, for stacks of scopes that are not empty.                     *)

LEMMA AllocOwned ==
    ASSUME NEW s \in Seq(SUBSET Nat), s # << >>, NEW D, Owned(s, D), NEW a \in Nat \ D
    PROVE  Owned([s EXCEPT ![Len(s)] = @ \cup {a}], D \cup {a})
<1> DEFINE n == Len(s)
           t == [s EXCEPT ![n] = @ \cup {a}]
<1>1. n \in Nat /\ n \in 1..n /\ DOMAIN s = 1..n /\ DOMAIN t = 1..n
    OBVIOUS
<1> HIDE DEF n
<1>2. \A i \in 1..n : t[i] = IF i = n THEN s[i] \cup {a} ELSE s[i]
    BY <1>1
<1> HIDE DEF t
<1>3. \A i \in 1..n : a \notin s[i]
    BY <1>1 DEF Owned
<1>4. \A b \in D \cup {a} : \E i \in 1..n : b \in t[i]
    BY <1>1, <1>2 DEF Owned
<1>5. \A i, j \in 1..n : i # j => t[i] \cap t[j] = {}
    BY <1>1, <1>2, <1>3 DEF Owned
<1>6. \A i \in 1..n : t[i] \subseteq D \cup {a}
    BY <1>1, <1>2 DEF Owned
<1>7. Owned(t, D \cup {a})
    BY <1>1, <1>4, <1>5, <1>6 DEF Owned
<1> QED
    BY <1>7 DEF t, n

LEMMA PushOwned ==
    ASSUME NEW s \in Seq(SUBSET Nat), NEW D, Owned(s, D)
    PROVE  /\ Append(s, {}) \in Seq(SUBSET Nat)
           /\ Append(s, {}) # << >>
           /\ Owned(Append(s, {}), D)
<1> DEFINE n == Len(s)
           t == Append(s, {})
<1>1. /\ n \in Nat /\ DOMAIN s = 1..n
      /\ t \in Seq(SUBSET Nat) /\ t # << >>
      /\ DOMAIN t = 1..(n + 1)
      /\ \A i \in 1..n : t[i] = s[i]
      /\ t[n + 1] = {}
    OBVIOUS
<1>2. \A i \in 1..(n + 1) : i \in 1..n \/ i = n + 1
    BY <1>1
<1> HIDE DEF t, n
<1>3. Owned(t, D)
    BY <1>1, <1>2 DEF Owned
<1> QED
    BY <1>1, <1>3 DEF t

LEMMA PopOwned ==
    ASSUME NEW s \in Seq(SUBSET Nat), s # << >>, NEW D, Owned(s, D)
    PROVE  Owned(Front(s), D \ Last(s))
<1> DEFINE n == Len(s)
           t == Front(s)
<1>1. /\ n \in Nat /\ n \in 1..n /\ DOMAIN s = 1..n
      /\ DOMAIN t = 1..(n - 1)
      /\ \A i \in 1..(n - 1) : t[i] = s[i] /\ i \in 1..n /\ i # n
      /\ Last(s) = s[n]
    BY DEF Front, Last
<1> HIDE DEF t, n
<1>2. \A i \in 1..n : i \in 1..(n - 1) \/ i = n
    BY <1>1
<1>3. Owned(t, D \ Last(s))
    BY <1>1, <1>2 DEF Owned
<1> QED
    BY <1>3 DEF t

LEMMA CollectOwned ==
    ASSUME NEW s, NEW D, NEW roots, Owned(s, D)
    PROVE  Owned([i \in DOMAIN s |-> s[i] \cap roots], D \cap roots)
    BY DEF Owned

-----------------------------------------------------------------------------
(***************************************************************************)
(* The stacks of the interpreter.                                          *)
(***************************************************************************)

EntryType == [addr : Nat, mutable : BOOLEAN]
ScopeType == UNION {[D -> EntryType] : D \in SUBSET (Names \cup {UnsafeContext})}

\* Constructs that have pushed a heap scope, a symbol table (onto the stack of
\* their own activation), and a unit of call depth.
HeapKinds == (Bodies \ {"unsafe"}) \cup {"cfor", "margs"}
TableKinds == (Bodies \ {"call"}) \cup {"cfor", "margs"}
DepthKinds == {"call", "method", "margs"}
LoopKinds == {"while", "for", "do", "cfor"}

One(b) == IF b THEN 1 ELSE 0
Cnt(c, ks) == Cardinality({i \in DOMAIN c : c[i].k \in ks})

\* The height the symbol stack has at least while f is the innermost
\* construct.  A call starts a stack of its own with two tables.
Low(f) == IF f.k = "call" THEN 2 ELSE f.base + One(f.k \in TableKinds)

\* With h tables now: the height when the construct after the i-th began.
Height(c, h, i) == IF i = Len(c) THEN h ELSE c[i + 1].base

Chained(c, h) ==
    \A i \in 0..Len(c) :
        Height(c, h, i) >= 1 /\ (i > 0 => Height(c, h, i) >= Low(c[i]))

\* The last of the saved stacks are those of the calls in progress, in order, as
\* high as they were when the calls began.  Below them (index 0) may be others, of
\* a program in the middle of which this one is run.
Links(idx, c, sv) ==
    /\ \A i, j \in DOMAIN sv : i < j => idx[i] < idx[j] \/ idx[i] = 0
    /\ \A p \in DOMAIN c : c[p].k = "call" <=> \E i \in DOMAIN sv : idx[i] = p
    /\ \A i \in DOMAIN sv : idx[i] # 0 => Len(sv[i]) = c[idx[i]].base
    /\ \A i \in DOMAIN sv : idx[i] = 0 => Len(sv[i]) >= 1
Linked(c, sv) == \E idx \in [DOMAIN sv -> DOMAIN c \cup {0}] : Links(idx, c, sv)

\* An iteration belongs to the loop just outside it.
IterOK(c) == \A i \in DOMAIN c : c[i].k = "iter" => i > 1 /\ c[i - 1].k \in LoopKinds

\* The constructs c with h symbol tables, H heap scopes, call depth d and
\* saved stacks sv.
StackOK(c, h, H, d, sv) ==
    /\ c \in Seq(FrameType)
    /\ Chained(c, h)
    /\ Linked(c, sv)
    /\ IterOK(c)
    /\ H >= 1 + Cnt(c, HeapKinds)
    /\ d >= Cnt(c, DepthKinds)

HeapOK == HeapInv /\ OwnedOnce

\* The inductive invariant.
Inv ==
    /\ HeapOK
    /\ symbols \in Seq(ScopeType)
    /\ saved_symbol_stacks \in Seq(Seq(ScopeType))
    /\ call_depth \in Nat
    /\ err \in Errs
    /\ StackOK(ctl, Len(symbols), Len(scope_allocations), call_depth, saved_symbol_stacks)
-----------------------------------------------------------------------------
(* Sequences of frames.                                                    *)

LEMMA FrontAppend ==
    ASSUME NEW S, NEW c \in Seq(S), c # << >>
    PROVE  /\ Front(c) \in Seq(S)
           /\ Len(Front(c)) = Len(c) - 1
           /\ DOMAIN Front(c) = 1..(Len(c) - 1)
           /\ \A i \in 1..(Len(c) - 1) :
                 Front(c)[i] = c[i] /\ i \in 1..Len(c) /\ i < Len(c)
           /\ Last(c) \in S /\ Last(c) = c[Len(c)]
           /\ Len(c) \in Nat /\ Len(c) >= 1 /\ Len(c) \in 1..Len(c)
           /\ DOMAIN c = 1..Len(c)
<1>1. Len(c) \in Nat /\ Len(c) >= 1 /\ Len(c) \in DOMAIN c
    OBVIOUS
<1>2. Last(c) \in S /\ Last(c) = c[Len(c)]
    BY <1>1 DEF Last
<1> DEFINE n == Len(c) - 1
           t == SubSeq(c, 1, n)
<1>3. t \in Seq(S) /\ Len(t) = Len(c) - 1 /\ \A i \in 1..(Len(c) - 1) : t[i] = c[i]
    <2>1. n \in Nat /\ n <= Len(c)
        BY <1>1
    <2>2. t \in Seq(S)
        BY <2>1
    <2>3. Len(t) = n
        <3> HIDE DEF n
        <3>1. CASE n = 0
            BY <3>1
        <3>2. CASE n > 0
            BY <3>2, <2>1
        <3> QED
            BY <3>1, <3>2, <2>1
    <2>4. \A i \in 1..n : t[i] = c[i]
        BY <2>1
    <2> QED
        BY <2>2, <2>3, <2>4
<1>4. DOMAIN t = 1..(Len(c) - 1)
    BY <1>3
<1>5. \A i \in 1..(Len(c) - 1) : i \in 1..Len(c) /\ i < Len(c)
    BY <1>1
<1>6. DOMAIN c = 1..Len(c)
    OBVIOUS
<1> QED
    BY <1>1, <1>2, <1>3, <1>4, <1>5, <1>6 DEF Front

LEMMA CntFinite ==
    ASSUME NEW c \in Seq(FrameType), NEW ks
    PROVE  IsFiniteSet({i \in DOMAIN c : c[i].k \in ks}) /\ Cnt(c, ks) \in Nat
<1>1. DOMAIN c = 1..Len(c) /\ Len(c) \in Nat
    OBVIOUS
<1>2. IsFiniteSet(1..Len(c))
    BY <1>1, FS_Interval
<1>3. IsFiniteSet({i \in DOMAIN c : c[i].k \in ks})
    BY <1>1, <1>2, FS_Subset
<1> QED
    BY <1>3, FS_CardinalityType DEF Cnt

\* One more frame counts one more if it is of a counted kind.
LEMMA CntAppend ==
    ASSUME NEW c \in Seq(FrameType), NEW f \in FrameType, NEW ks
    PROVE  Cnt(Append(c, f), ks) = Cnt(c, ks) + One(f.k \in ks)
<1> DEFINE n == Len(c)
           d == Append(c, f)
           S == {i \in DOMAIN c : c[i].k \in ks}
           T == {i \in DOMAIN d : d[i].k \in ks}
<1>1. /\ n \in Nat /\ DOMAIN c = 1..n /\ DOMAIN d = 1..(n + 1)
      /\ \A i \in 1..n : d[i] = c[i]
      /\ d[n + 1] = f
    OBVIOUS
<1>2. IsFiniteSet(S) /\ Cardinality(S) \in Nat
    BY CntFinite DEF Cnt
<1> HIDE DEF n, d
<1>3. \A i \in 1..(n + 1) : i \in 1..n \/ i = n + 1
    BY <1>1
<1>4. n + 1 \notin S
    BY <1>1
<1>5. CASE f.k \in ks
    <2>1. T = S \cup {n + 1}
        BY <1>1, <1>3, <1>5
    <2>2. Cardinality(T) = Cardinality(S) + 1
        BY <2>1, <1>2, <1>4, FS_AddElement
    <2> QED
        BY <2>2, <1>5 DEF Cnt, One, d
<1>6. CASE f.k \notin ks
    <2>1. T = S
        BY <1>1, <1>3, <1>6
    <2> QED
        <3>1. Cnt(d, ks) = Cardinality(T) /\ Cnt(c, ks) = Cardinality(S)
            BY DEF Cnt
        <3>2. Cardinality(T) = Cardinality(S)
            BY <2>1
        <3>3. Cnt(d, ks) = Cnt(c, ks) + 0
            BY <3>1, <3>2, <1>2
        <3> QED
            BY <3>3, <1>6 DEF One, d
<1> QED
    BY <1>5, <1>6

LEMMA AppendOfFront ==
    ASSUME NEW S, NEW c \in Seq(S), c # << >>, NEW f \in S
    PROVE  /\ c = Append(Front(c), Last(c))
           /\ [c EXCEPT ![Len(c)] = f] = Append(Front(c), f)
<1> DEFINE n == Len(c)
           g == Append(Front(c), f)
           b == Append(Front(c), Last(c))
           e == [c EXCEPT ![n] = f]
<1>1. /\ n \in Nat /\ n >= 1 /\ DOMAIN c = 1..n
      /\ g \in Seq(S) /\ Len(g) = n /\ b \in Seq(S) /\ Len(b) = n
      /\ DOMAIN g = 1..n /\ DOMAIN b = 1..n
      /\ \A i \in 1..(n - 1) : g[i] = c[i] /\ b[i] = c[i]
      /\ g[n] = f /\ b[n] = c[n]
    BY FrontAppend
<1> HIDE DEF n, g, b
<1>2. \A i \in 1..n : i \in 1..(n - 1) \/ i = n
    BY <1>1
<1>3. e \in Seq(S) /\ Len(e) = n /\ \A i \in 1..n : e[i] = IF i = n THEN f ELSE c[i]
    BY <1>1 DEF n
<1>4. \A i \in 1..n : e[i] = g[i]
    BY <1>1, <1>2, <1>3
<1>5. \A i \in 1..n : c[i] = b[i]
    BY <1>1, <1>2
<1>6. c = b
    BY <1>1, <1>5 DEF n
<1> HIDE DEF e
<1>7. e = g
    BY <1>1, <1>3, <1>4
<1> QED
    BY <1>6, <1>7 DEF b, e, g, n

LEMMA CntFront ==
    ASSUME NEW c \in Seq(FrameType), c # << >>, NEW ks
    PROVE  /\ Cnt(Front(c), ks) \in Nat
           /\ Cnt(c, ks) = Cnt(Front(c), ks) + One(Last(c).k \in ks)
<1>1. Front(c) \in Seq(FrameType) /\ Last(c) \in FrameType
    BY FrontAppend
<1>2. c = Append(Front(c), Last(c))
    BY <1>1, AppendOfFront
<1>3. Cnt(Append(Front(c), Last(c)), ks) = Cnt(Front(c), ks) + One(Last(c).k \in ks)
    BY <1>1, CntAppend
<1> QED
    BY <1>1, <1>2, <1>3, CntFinite
-----------------------------------------------------------------------------
(* How the heights follow the frames.                                      *)

LEMMA ChainedAppend ==
    ASSUME NEW c \in Seq(FrameType), NEW f \in FrameType, Chained(c, f.base),
           NEW h \in Nat, h >= 1, h >= Low(f)
    PROVE  Chained(Append(c, f), h)
<1> DEFINE n == Len(c)
           d == Append(c, f)
<1>1. /\ n \in Nat /\ Len(d) = n + 1
      /\ \A i \in 1..n : d[i] = c[i]
      /\ d[n + 1] = f
    OBVIOUS
<1> HIDE DEF n, d
<1>2. ASSUME NEW i \in 0..n
      PROVE  Height(d, h, i) = Height(c, f.base, i)
    <2>1. CASE i = n
        BY <2>1, <1>1 DEF Height, n
    <2>2. CASE i < n
        <3>1. i + 1 \in 1..n /\ i # n + 1 /\ i # n
            BY <2>2, <1>1
        <3>2. d[i + 1] = c[i + 1]
            BY <3>1, <1>1
        <3> QED
            BY <3>1, <3>2, <1>1 DEF Height, n
    <2> QED
        BY <2>1, <2>2, <1>1
<1>3. ASSUME NEW i \in 0..n
      PROVE  Height(d, h, i) >= 1 /\ (i > 0 => Height(d, h, i) >= Low(d[i]))
    <2>1. i > 0 => d[i] = c[i]
        BY <1>1
    <2> QED
        BY <1>2, <2>1 DEF Chained, n
<1>4. Height(d, h, n + 1) = h /\ d[n + 1] = f
    BY <1>1 DEF Height
<1>5. \A i \in 0..(n + 1) : i \in 0..n \/ i = n + 1
    BY <1>1
<1> QED
    BY <1>1, <1>3, <1>4, <1>5 DEF Chained, d

LEMMA ChainedFront ==
    ASSUME NEW c \in Seq(FrameType), c # << >>, NEW h, Chained(c, h)
    PROVE  /\ Chained(Front(c), Last(c).base)
           /\ h >= 1 /\ h >= Low(Last(c)) /\ Last(c).base >= 1
<1> DEFINE n == Len(c)
           d == Front(c)
           f == Last(c)
<1>1. /\ n \in Nat /\ n >= 1 /\ Len(d) = n - 1
      /\ \A i \in 1..(n - 1) : d[i] = c[i]
      /\ f = c[n] /\ f \in FrameType
    BY FrontAppend
<1> HIDE DEF n, d, f
<1>2. ASSUME NEW i \in 0..(n - 1)
      PROVE  Height(d, f.base, i) = Height(c, h, i)
    <2>1. i # n /\ i + 1 \in 1..n /\ (i # n - 1 => i + 1 \in 1..(n - 1))
        BY <1>1
    <2>2. Height(c, h, i) = c[i + 1].base
        BY <2>1 DEF Height, n
    <2>3. CASE i = n - 1
        <3>1. i + 1 = n
            BY <2>3, <1>1
        <3> QED
            BY <2>2, <2>3, <3>1, <1>1 DEF Height
    <2>4. CASE i # n - 1
        <3>1. d[i + 1] = c[i + 1]
            BY <2>1, <2>4, <1>1
        <3> QED
            BY <2>2, <2>4, <3>1, <1>1 DEF Height
    <2> QED
        BY <2>3, <2>4
<1>3. ASSUME NEW i \in 0..(n - 1)
      PROVE  Height(d, f.base, i) >= 1 /\ (i > 0 => Height(d, f.base, i) >= Low(d[i]))
    <2>1. i > 0 => d[i] = c[i]
        BY <1>1
    <2>2. i \in 0..n
        BY <1>1
    <2> QED
        BY <1>2, <2>1, <2>2 DEF Chained, n
<1>4. Chained(d, f.base)
    BY <1>1, <1>3 DEF Chained
<1>5. h >= 1 /\ h >= Low(f)
    <2>1. n \in 0..n /\ n > 0 /\ Height(c, h, n) = h
        BY <1>1 DEF Height, n
    <2> QED
        BY <2>1, <1>1 DEF Chained, n
<1>6. f.base >= 1
    <2>1. n - 1 \in 0..(n - 1) /\ Height(d, f.base, n - 1) = f.base
        BY <1>1 DEF Height
    <2> QED
        BY <2>1, <1>3
<1> QED
    BY <1>4, <1>5, <1>6 DEF d, f

LEMMA ChainedHigher ==
    ASSUME NEW c \in Seq(FrameType), NEW h \in Nat, NEW g \in Nat, Chained(c, h), g >= h
    PROVE  Chained(c, g)
<1> DEFINE n == Len(c)
<1>1. n \in Nat /\ \A i \in 1..n : c[i] \in FrameType
    OBVIOUS
<1> HIDE DEF n
<1>2. ASSUME NEW i \in 0..n
      PROVE  Height(c, g, i) >= 1 /\ (i > 0 => Height(c, g, i) >= Low(c[i]))
    <2>1. Height(c, h, i) >= 1 /\ (i > 0 => Height(c, h, i) >= Low(c[i]))
        BY DEF Chained, n
    <2>2. CASE i = n
        <3>1. Height(c, g, i) = g /\ Height(c, h, i) = h
            BY <2>2 DEF Height, n
        <3>2. i > 0 => Low(c[i]) \in Nat
            BY <1>1 DEF Low, One, FrameType
        <3> QED
            BY <2>1, <3>1, <3>2
    <2>3. CASE i # n
        BY <2>1, <2>3 DEF Height, n
    <2> QED
        BY <2>2, <2>3
<1> QED
    BY <1>2 DEF Chained, n

-----------------------------------------------------------------------------
(* How the saved stacks follow the frames.                                 *)

LEMMA LinkedAppend ==
    ASSUME NEW c \in Seq(FrameType), NEW f \in FrameType, f.k # "call",
           NEW sv \in Seq(Seq(ScopeType)), Linked(c, sv)
    PROVE  Linked(Append(c, f), sv)
<1> DEFINE n == Len(c)
           d == Append(c, f)
<1>1. /\ n \in Nat /\ DOMAIN c = 1..n /\ DOMAIN d = 1..(n + 1)
      /\ \A i \in 1..n : d[i] = c[i]
      /\ d[n + 1] = f
    OBVIOUS
<1> HIDE DEF n, d
<1>2. PICK idx \in [DOMAIN sv -> 1..n \cup {0}] : Links(idx, c, sv)
    BY <1>1 DEF Linked
<1>3. idx \in [DOMAIN sv -> 1..(n + 1) \cup {0}]
    BY <1>1, <1>2
<1>4. \A p \in 1..(n + 1) : p \in 1..n \/ p = n + 1
    BY <1>1
<1>5. \A i \in DOMAIN sv : (idx[i] = 0 \/ idx[i] \in 1..n) /\ idx[i] # n + 1
    BY <1>1, <1>2
<1>6. Links(idx, d, sv)
    BY <1>1, <1>2, <1>4, <1>5 DEF Links
<1> QED
    BY <1>1, <1>3, <1>6 DEF Linked, d

LEMMA LinkedFront ==
    ASSUME NEW c \in Seq(FrameType), c # << >>, Last(c).k # "call",
           NEW sv \in Seq(Seq(ScopeType)), Linked(c, sv)
    PROVE  Linked(Front(c), sv)
<1> DEFINE n == Len(c)
           d == Front(c)
<1>1. /\ n \in Nat /\ n >= 1 /\ DOMAIN c = 1..n /\ DOMAIN d = 1..(n - 1)
      /\ \A i \in 1..(n - 1) : d[i] = c[i]
      /\ Last(c) = c[n]
    BY FrontAppend
<1> HIDE DEF n, d
<1>2. PICK idx \in [DOMAIN sv -> 1..n \cup {0}] : Links(idx, c, sv)
    BY <1>1 DEF Linked
<1>3. \A i \in DOMAIN sv : idx[i] # n
    <2>1. n \in DOMAIN c /\ c[n].k # "call"
        BY <1>1
    <2> QED
        BY <2>1, <1>2 DEF Links
<1>4. \A p \in 1..n : p # n => p \in 1..(n - 1)
    BY <1>1
<1>5. idx \in [DOMAIN sv -> 1..(n - 1) \cup {0}]
    BY <1>2, <1>3, <1>4
<1>6. \A p \in 1..(n - 1) : p \in 1..n
    BY <1>1
<1>7. Links(idx, d, sv)
    BY <1>1, <1>2, <1>5, <1>6 DEF Links
<1> QED
    BY <1>1, <1>5, <1>7 DEF Linked, d

LEMMA LinkedCall ==
    ASSUME NEW c \in Seq(FrameType), NEW f \in FrameType, f.k = "call",
           NEW sv \in Seq(Seq(ScopeType)), Linked(c, sv),
           NEW s \in Seq(ScopeType), Len(s) = f.base
    PROVE  Linked(Append(c, f), Append(sv, s))
<1> DEFINE n == Len(c)
           m == Len(sv)
           d == Append(c, f)
           w == Append(sv, s)
<1>1. /\ n \in Nat /\ DOMAIN c = 1..n /\ DOMAIN d = 1..(n + 1)
      /\ \A i \in 1..n : d[i] = c[i]
      /\ d[n + 1] = f
    OBVIOUS
<1>2. /\ m \in Nat /\ DOMAIN sv = 1..m /\ DOMAIN w = 1..(m + 1)
      /\ \A i \in 1..m : w[i] = sv[i]
      /\ w[m + 1] = s
    OBVIOUS
<1> HIDE DEF n, d, m, w
<1>3. PICK idx \in [1..m -> 1..n \cup {0}] : Links(idx, c, sv)
    BY <1>1, <1>2 DEF Linked
<1> DEFINE jdx == [i \in 1..(m + 1) |-> IF i = m + 1 THEN n + 1 ELSE idx[i]]
<1>4. \A i \in 1..(m + 1) : i \in 1..m \/ i = m + 1
    BY <1>2
<1>5. \A p \in 1..(n + 1) : p \in 1..n \/ p = n + 1
    BY <1>1
<1>6. /\ \A i \in 1..m : i # m + 1 /\ i \in 1..(m + 1) /\ i < m + 1 /\ jdx[i] = idx[i]
                        /\ (idx[i] = 0 \/ idx[i] \in 1..n) /\ idx[i] < n + 1 /\ idx[i] # n + 1
      /\ m + 1 \in 1..(m + 1) /\ jdx[m + 1] = n + 1 /\ n + 1 \in 1..(n + 1) /\ n + 1 # 0
    BY <1>1, <1>2, <1>3
<1>7. jdx \in [1..(m + 1) -> 1..(n + 1) \cup {0}]
    BY <1>1, <1>3, <1>4
<1> HIDE DEF jdx
<1>8. \A i, j \in 1..(m + 1) : i < j => jdx[i] < jdx[j] \/ jdx[i] = 0
    <2>1. SUFFICES ASSUME NEW i \in 1..(m + 1), NEW j \in 1..(m + 1), i < j
                   PROVE  jdx[i] < jdx[j] \/ jdx[i] = 0
        OBVIOUS
    <2>2. i \in 1..m
        BY <2>1, <1>2
    <2>3. CASE j \in 1..m
        BY <2>1, <2>2, <2>3, <1>2, <1>3, <1>6 DEF Links
    <2>4. CASE j = m + 1
        BY <2>2, <2>4, <1>6
    <2> QED
        BY <2>3, <2>4, <1>4
<1>9. \A p \in 1..(n + 1) : d[p].k = "call" <=> \E i \in 1..(m + 1) : jdx[i] = p
    <2>1. ASSUME NEW p \in 1..n
          PROVE  d[p].k = "call" <=> \E i \in 1..(m + 1) : jdx[i] = p
        <3>1. d[p].k = "call" <=> \E i \in 1..m : idx[i] = p
            BY <1>1, <1>2, <1>3 DEF Links
        <3>2. p # n + 1
            BY <1>1
        <3> QED
            BY <3>1, <3>2, <1>4, <1>6
    <2> QED
        BY <2>1, <1>1, <1>5, <1>6
<1>10. \A i \in 1..(m + 1) : (jdx[i] # 0 => Len(w[i]) = d[jdx[i]].base) /\ (jdx[i] = 0 => Len(w[i]) >= 1)
    <2>1. \A i \in 1..m : (jdx[i] # 0 => Len(w[i]) = d[jdx[i]].base) /\ (jdx[i] = 0 => Len(w[i]) >= 1)
        <3>1. \A i \in 1..m : (idx[i] # 0 => Len(sv[i]) = c[idx[i]].base) /\ (idx[i] = 0 => Len(sv[i]) >= 1)
            BY <1>2, <1>3 DEF Links
        <3>2. \A i \in 1..m : w[i] = sv[i] /\ jdx[i] = idx[i] /\ (idx[i] # 0 => d[idx[i]] = c[idx[i]])
            BY <1>1, <1>2, <1>6
        <3> QED
            BY <3>1, <3>2
    <2> QED
        BY <2>1, <1>1, <1>2, <1>4, <1>6
<1>11. Links(jdx, d, w)
    BY <1>1, <1>2, <1>8, <1>9, <1>10 DEF Links
<1> QED
    BY <1>1, <1>2, <1>7, <1>11 DEF Linked, d, w

\* The innermost call has the last saved stack.
LEMMA LinkedReturn ==
    ASSUME NEW c \in Seq(FrameType), c # << >>, Last(c).k = "call",
           NEW sv \in Seq(Seq(ScopeType)), Linked(c, sv)
    PROVE  /\ sv # << >>
           /\ Len(Last(sv)) = Last(c).base
           /\ Linked(Front(c), Front(sv))
<1> DEFINE n == Len(c)
           m == Len(sv)
           d == Front(c)
           w == Front(sv)
<1>1. /\ n \in Nat /\ n >= 1 /\ n \in 1..n /\ DOMAIN c = 1..n /\ DOMAIN d = 1..(n - 1)
      /\ \A i \in 1..(n - 1) : d[i] = c[i]
      /\ Last(c) = c[n]
    BY FrontAppend
<1>2. m \in Nat /\ DOMAIN sv = 1..m /\ (m >= 1 => sv # << >>)
    OBVIOUS
<1> HIDE DEF n, m, d, w
<1>3. PICK idx \in [1..m -> 1..n \cup {0}] : Links(idx, c, sv)
    BY <1>1, <1>2 DEF Linked
<1>4. PICK z \in 1..m : idx[z] = n
    BY <1>1, <1>2, <1>3 DEF Links
<1>5. sv # << >> /\ m >= 1 /\ m \in 1..m
    BY <1>2, <1>4
<1>6. z = m
    <2>1. z < m => n < idx[m]
        <3>1. idx[z] # 0
            BY <1>1, <1>4
        <3>2. z < m => idx[z] < idx[m]
            BY <3>1, <1>2, <1>3, <1>5 DEF Links
        <3> QED
            BY <3>2, <1>4
    <2>2. ~(n < idx[m])
        BY <1>1, <1>3, <1>5
    <2> QED
        BY <2>1, <2>2, <1>2, <1>4
<1>7. /\ w \in Seq(Seq(ScopeType)) /\ DOMAIN w = 1..(m - 1)
      /\ \A i \in 1..(m - 1) : w[i] = sv[i] /\ i \in 1..m /\ i < m
      /\ Last(sv) = sv[m]
    BY <1>5, FrontAppend DEF m, w
<1>8. Len(Last(sv)) = Last(c).base
    <2>1. idx[m] # 0 /\ idx[m] = n
        BY <1>1, <1>4, <1>6
    <2>2. Len(sv[m]) = c[idx[m]].base
        BY <2>1, <1>2, <1>3, <1>5 DEF Links
    <2> QED
        BY <2>1, <2>2, <1>1, <1>7
<1> DEFINE jdx == [i \in 1..(m - 1) |-> idx[i]]
<1>9. ASSUME NEW i \in 1..(m - 1)
      PROVE  jdx[i] = idx[i] /\ (idx[i] = 0 \/ idx[i] \in 1..(n - 1))
    <2>1. i \in 1..m /\ i < m
        BY <1>7
    <2>2. (idx[i] < idx[m] \/ idx[i] = 0) /\ idx[m] = n
        BY <2>1, <1>2, <1>3, <1>4, <1>5, <1>6 DEF Links
    <2> QED
        BY <2>1, <2>2, <1>1, <1>3
<1>10. jdx \in [1..(m - 1) -> 1..(n - 1) \cup {0}]
    BY <1>9
<1> HIDE DEF jdx
<1>11. \A i, j \in 1..(m - 1) : i < j => jdx[i] < jdx[j] \/ jdx[i] = 0
    BY <1>2, <1>3, <1>7, <1>9 DEF Links
<1>12. ASSUME NEW p \in 1..(n - 1)
       PROVE  d[p].k = "call" <=> \E i \in 1..(m - 1) : jdx[i] = p
    <2>1. p \in 1..n /\ p # n
        BY <1>1
    <2>2. d[p].k = "call" <=> \E i \in 1..m : idx[i] = p
        BY <2>1, <1>1, <1>2, <1>3 DEF Links
    <2>3. \A i \in 1..m : idx[i] = p => i \in 1..(m - 1)
        BY <2>1, <1>2, <1>4, <1>6
    <2> QED
        BY <2>2, <2>3, <1>7, <1>9
<1>13. \A i \in 1..(m - 1) : (jdx[i] # 0 => Len(w[i]) = d[jdx[i]].base) /\ (jdx[i] = 0 => Len(w[i]) >= 1)
    <2>1. ASSUME NEW i \in 1..(m - 1)
          PROVE  (jdx[i] # 0 => Len(w[i]) = d[jdx[i]].base) /\ (jdx[i] = 0 => Len(w[i]) >= 1)
        <3>1. w[i] = sv[i] /\ i \in DOMAIN sv
            BY <1>2, <1>7
        <3>2. jdx[i] = idx[i] /\ (idx[i] # 0 => d[idx[i]] = c[idx[i]])
            BY <1>1, <1>9
        <3>3. (idx[i] # 0 => Len(sv[i]) = c[idx[i]].base) /\ (idx[i] = 0 => Len(sv[i]) >= 1)
            BY <3>1, <1>3 DEF Links
        <3> QED
            BY <3>1, <3>2, <3>3
    <2> QED
        BY <2>1
<1>14. Links(jdx, d, w)
    BY <1>1, <1>7, <1>11, <1>12, <1>13 DEF Links
<1> QED
    BY <1>1, <1>5, <1>7, <1>8, <1>10, <1>14 DEF Linked, d, w
-----------------------------------------------------------------------------
LEMMA IterAppend ==
    ASSUME NEW c \in Seq(FrameType), NEW f \in FrameType, IterOK(c),
           f.k = "iter" => c # << >> /\ Last(c).k \in LoopKinds
    PROVE  IterOK(Append(c, f))
<1> DEFINE n == Len(c)
           d == Append(c, f)
<1>1. /\ n \in Nat /\ DOMAIN c = 1..n /\ DOMAIN d = 1..(n + 1)
      /\ \A i \in 1..n : d[i] = c[i]
      /\ d[n + 1] = f
      /\ (c # << >> => n >= 1)
    OBVIOUS
<1>2. Last(c) = c[n]
    BY DEF Last
<1> HIDE DEF n, d
<1>3. ASSUME NEW i \in 1..(n + 1), d[i].k = "iter"
      PROVE  i > 1 /\ d[i - 1].k \in LoopKinds
    <2>1. CASE i \in 1..n
        <3>1. i > 1 /\ c[i - 1].k \in LoopKinds
            BY <1>1, <1>3, <2>1 DEF IterOK
        <3>2. i - 1 \in 1..n
            BY <3>1, <2>1, <1>1
        <3> QED
            BY <3>1, <3>2, <1>1
    <2>2. CASE i = n + 1
        <3>1. n >= 1 /\ c[n].k \in LoopKinds
            BY <1>1, <1>2, <1>3, <2>2
        <3>2. n \in 1..n /\ i - 1 = n /\ i > 1
            BY <3>1, <2>2, <1>1
        <3> QED
            BY <3>1, <3>2, <1>1
    <2> QED
        BY <2>1, <2>2, <1>1
<1> QED
    BY <1>1, <1>3 DEF IterOK, d

LEMMA IterFront ==
    ASSUME NEW c \in Seq(FrameType), c # << >>, IterOK(c)
    PROVE  /\ IterOK(Front(c))
           /\ Last(c).k = "iter" => Front(c) # << >> /\ Last(Front(c)).k \in LoopKinds
<1> DEFINE n == Len(c)
           d == Front(c)
<1>1. /\ n \in Nat /\ n >= 1 /\ n \in 1..n /\ DOMAIN c = 1..n
      /\ d \in Seq(FrameType) /\ Len(d) = n - 1 /\ DOMAIN d = 1..(n - 1)
      /\ \A i \in 1..(n - 1) : d[i] = c[i] /\ i \in 1..n
      /\ Last(c) = c[n]
    BY FrontAppend
<1>2. Last(d) = d[Len(d)]
    BY DEF Last
<1> HIDE DEF n, d
<1>3. ASSUME NEW i \in 1..(n - 1), d[i].k = "iter"
      PROVE  i > 1 /\ d[i - 1].k \in LoopKinds
    <2>1. i > 1 /\ c[i - 1].k \in LoopKinds
        BY <1>1, <1>3 DEF IterOK
    <2>2. i - 1 \in 1..(n - 1)
        BY <2>1, <1>1
    <2> QED
        BY <2>1, <2>2, <1>1
<1>4. ASSUME Last(c).k = "iter"
      PROVE  d # << >> /\ Last(d).k \in LoopKinds
    <2>1. n > 1 /\ c[n - 1].k \in LoopKinds
        BY <1>1, <1>4 DEF IterOK
    <2>2. n - 1 \in 1..(n - 1) /\ Len(d) = n - 1 /\ Len(d) # 0
        BY <2>1, <1>1
    <2>3. d[n - 1] = c[n - 1]
        BY <2>2, <1>1
    <2>4. d # << >>
        BY <2>2
    <2> QED
        BY <2>1, <2>2, <2>3, <2>4, <1>2
<1> QED
    BY <1>1, <1>3, <1>4 DEF IterOK, d

-----------------------------------------------------------------------------
(* The moves of the construct stack.  H, d and h are lower bounds, so that *)
(* a move may leave more behind than it has to.                            *)

\* A construct other than a call begins.
LEMMA StackPush ==
    ASSUME NEW c, NEW h \in Nat, NEW H \in Nat, NEW d \in Nat, NEW sv \in Seq(Seq(ScopeType)),
           StackOK(c, h, H, d, sv),
           NEW f \in FrameType, f.base = h, f.k # "call",
           f.k = "iter" => c # << >> /\ Last(c).k \in LoopKinds,
           NEW h2 \in Nat, h2 >= 1, h2 >= Low(f),
           NEW H2 \in Nat, H2 >= H + One(f.k \in HeapKinds),
           NEW d2 \in Nat, d2 >= d + One(f.k \in DepthKinds)
    PROVE  StackOK(Append(c, f), h2, H2, d2, sv)
<1>1. /\ c \in Seq(FrameType) /\ Chained(c, h) /\ Linked(c, sv) /\ IterOK(c)
      /\ H >= 1 + Cnt(c, HeapKinds) /\ d >= Cnt(c, DepthKinds)
    BY DEF StackOK
<1>2. Append(c, f) \in Seq(FrameType)
    BY <1>1
<1>3. Chained(Append(c, f), h2)
    BY <1>1, ChainedAppend
<1>4. Linked(Append(c, f), sv)
    BY <1>1, LinkedAppend
<1>5. IterOK(Append(c, f))
    BY <1>1, IterAppend
<1>6. /\ Cnt(c, HeapKinds) \in Nat /\ Cnt(c, DepthKinds) \in Nat
      /\ Cnt(Append(c, f), HeapKinds) = Cnt(c, HeapKinds) + One(f.k \in HeapKinds)
      /\ Cnt(Append(c, f), DepthKinds) = Cnt(c, DepthKinds) + One(f.k \in DepthKinds)
    BY <1>1, CntAppend, CntFinite
<1>7. One(f.k \in HeapKinds) \in Nat /\ One(f.k \in DepthKinds) \in Nat
    BY DEF One
<1>8. H2 >= 1 + Cnt(Append(c, f), HeapKinds) /\ d2 >= Cnt(Append(c, f), DepthKinds)
    BY <1>1, <1>6, <1>7, SMTT(30)
<1> QED
    BY <1>2, <1>3, <1>4, <1>5, <1>8 DEF StackOK

\* A call begins: a stack of its own, with the caller's stack saved.
LEMMA StackCall ==
    ASSUME NEW c, NEW s \in Seq(ScopeType), NEW H \in Nat, NEW d \in Nat,
           NEW sv \in Seq(Seq(ScopeType)), StackOK(c, Len(s), H, d, sv),
           NEW f \in FrameType, f.base = Len(s), f.k = "call"
    PROVE  StackOK(Append(c, f), 2, H + 1, d + 1, Append(sv, s))
<1>1. /\ c \in Seq(FrameType) /\ Chained(c, f.base) /\ Linked(c, sv) /\ IterOK(c)
      /\ H >= 1 + Cnt(c, HeapKinds) /\ d >= Cnt(c, DepthKinds)
    BY DEF StackOK
<1>2. Append(c, f) \in Seq(FrameType)
    BY <1>1
<1>3. Chained(Append(c, f), 2)
    <2>1. Low(f) = 2
        BY DEF Low
    <2>2. 2 \in Nat /\ 2 >= Low(f) /\ 2 >= 1
        BY <2>1
    <2> QED
        BY <1>1, <2>2, ChainedAppend
<1>4. Linked(Append(c, f), Append(sv, s))
    BY <1>1, LinkedCall
<1>5. IterOK(Append(c, f))
    BY <1>1, IterAppend
<1>6. /\ Cnt(c, HeapKinds) \in Nat /\ Cnt(c, DepthKinds) \in Nat
      /\ Cnt(Append(c, f), HeapKinds) = Cnt(c, HeapKinds) + One(f.k \in HeapKinds)
      /\ Cnt(Append(c, f), DepthKinds) = Cnt(c, DepthKinds) + One(f.k \in DepthKinds)
    BY <1>1, CntAppend, CntFinite
<1>7. One(f.k \in HeapKinds) <= 1 /\ One(f.k \in DepthKinds) <= 1
      /\ One(f.k \in HeapKinds) \in Nat /\ One(f.k \in DepthKinds) \in Nat
    BY DEF One
<1>8. H + 1 >= 1 + Cnt(Append(c, f), HeapKinds) /\ d + 1 >= Cnt(Append(c, f), DepthKinds)
    BY <1>1, <1>6, <1>7
<1> QED
    BY <1>2, <1>3, <1>4, <1>5, <1>8 DEF StackOK

\* A construct other than a call ends.
LEMMA StackPop ==
    ASSUME NEW c, NEW h \in Nat, NEW H \in Nat, NEW d \in Nat, NEW sv \in Seq(Seq(ScopeType)),
           StackOK(c, h, H, d, sv), c # << >>, Last(c).k # "call",
           NEW h2 \in Nat, h2 >= Last(c).base,
           NEW H2 \in Nat, H2 >= H - One(Last(c).k \in HeapKinds),
           NEW d2 \in Nat, d2 >= d - One(Last(c).k \in DepthKinds)
    PROVE  StackOK(Front(c), h2, H2, d2, sv)
<1>1. /\ c \in Seq(FrameType) /\ Chained(c, h) /\ Linked(c, sv) /\ IterOK(c)
      /\ H >= 1 + Cnt(c, HeapKinds) /\ d >= Cnt(c, DepthKinds)
    BY DEF StackOK
<1>2. Front(c) \in Seq(FrameType) /\ Last(c) \in FrameType
    BY <1>1, FrontAppend
<1>3. Last(c).base \in Nat
    BY <1>2 DEF FrameType
<1>4. Chained(Front(c), h2)
    BY <1>1, <1>2, <1>3, ChainedFront, ChainedHigher
<1>5. Linked(Front(c), sv)
    BY <1>1, LinkedFront
<1>6. IterOK(Front(c))
    BY <1>1, IterFront
<1>7. /\ Cnt(Front(c), HeapKinds) \in Nat /\ Cnt(Front(c), DepthKinds) \in Nat
      /\ Cnt(c, HeapKinds) = Cnt(Front(c), HeapKinds) + One(Last(c).k \in HeapKinds)
      /\ Cnt(c, DepthKinds) = Cnt(Front(c), DepthKinds) + One(Last(c).k \in DepthKinds)
    BY <1>1, CntFront
<1>8. One(Last(c).k \in HeapKinds) \in Nat /\ One(Last(c).k \in DepthKinds) \in Nat
    BY DEF One
<1>9. H2 >= 1 + Cnt(Front(c), HeapKinds) /\ d2 >= Cnt(Front(c), DepthKinds)
    BY <1>1, <1>7, <1>8, SMTT(30)
<1> QED
    BY <1>2, <1>4, <1>5, <1>6, <1>9 DEF StackOK

\* A call ends: the caller's stack is the last one saved.
LEMMA StackReturn ==
    ASSUME NEW c, NEW h \in Nat, NEW H \in Nat, NEW d \in Nat, NEW sv \in Seq(Seq(ScopeType)),
           StackOK(c, h, H, d, sv), c # << >>, Last(c).k = "call"
    PROVE  /\ sv # << >> /\ H >= 2 /\ d >= 1
           /\ Last(sv) \in Seq(ScopeType) /\ Front(sv) \in Seq(Seq(ScopeType))
           /\ StackOK(Front(c), Len(Last(sv)), H - 1, d - 1, Front(sv))
<1>1. /\ c \in Seq(FrameType) /\ Chained(c, h) /\ Linked(c, sv) /\ IterOK(c)
      /\ H >= 1 + Cnt(c, HeapKinds) /\ d >= Cnt(c, DepthKinds)
    BY DEF StackOK
<1>2. Front(c) \in Seq(FrameType) /\ Last(c) \in FrameType
    BY <1>1, FrontAppend
<1>3. sv # << >> /\ Len(Last(sv)) = Last(c).base /\ Linked(Front(c), Front(sv))
    BY <1>1, LinkedReturn
<1>4. Last(sv) \in Seq(ScopeType) /\ Front(sv) \in Seq(Seq(ScopeType))
    BY <1>3, FrontAppend
<1>5. Chained(Front(c), Len(Last(sv)))
    BY <1>1, <1>3, ChainedFront
<1>6. IterOK(Front(c))
    BY <1>1, IterFront
<1>7. /\ Cnt(Front(c), HeapKinds) \in Nat /\ Cnt(Front(c), DepthKinds) \in Nat
      /\ Cnt(c, HeapKinds) = Cnt(Front(c), HeapKinds) + One(Last(c).k \in HeapKinds)
      /\ Cnt(c, DepthKinds) = Cnt(Front(c), DepthKinds) + One(Last(c).k \in DepthKinds)
    BY <1>1, CntFront
<1>8. One(Last(c).k \in HeapKinds) = 1 /\ One(Last(c).k \in DepthKinds) = 1
    BY DEF One, HeapKinds, DepthKinds, Bodies
<1>9. H >= 2 /\ d >= 1 /\ H - 1 >= 1 + Cnt(Front(c), HeapKinds) /\ d - 1 >= Cnt(Front(c), DepthKinds)
    BY <1>1, <1>7, <1>8
<1> QED
    BY <1>2, <1>3, <1>4, <1>5, <1>6, <1>9 DEF StackOK

\* What is known while a construct is the innermost one.
LEMMA StackTop ==
    ASSUME NEW c, NEW h \in Nat, NEW H \in Nat, NEW d \in Nat, NEW sv \in Seq(Seq(ScopeType)),
           StackOK(c, h, H, d, sv)
    PROVE  /\ h >= 1 /\ H >= 1
           /\ c # << >> =>
                /\ Last(c) \in FrameType
                /\ Last(c).base >= 1 /\ h >= Low(Last(c))
                /\ H >= 1 + One(Last(c).k \in HeapKinds)
                /\ d >= One(Last(c).k \in DepthKinds)
<1>1. /\ c \in Seq(FrameType) /\ Chained(c, h)
      /\ H >= 1 + Cnt(c, HeapKinds) /\ d >= Cnt(c, DepthKinds)
    BY DEF StackOK
<1>2. Cnt(c, HeapKinds) \in Nat /\ Cnt(c, DepthKinds) \in Nat
    BY <1>1, CntFinite
<1>3. h >= 1
    <2>1. Len(c) \in 0..Len(c) /\ Height(c, h, Len(c)) = h
        BY <1>1 DEF Height
    <2> QED
        BY <2>1, <1>1 DEF Chained
<1>4. H >= 1
    BY <1>1, <1>2
<1>5. ASSUME c # << >>
      PROVE  /\ Last(c) \in FrameType
             /\ Last(c).base >= 1 /\ h >= Low(Last(c))
             /\ H >= 1 + One(Last(c).k \in HeapKinds)
             /\ d >= One(Last(c).k \in DepthKinds)
    <2>1. Last(c) \in FrameType
        BY <1>1, <1>5, FrontAppend
    <2>2. Last(c).base >= 1 /\ h >= Low(Last(c))
        BY <1>1, <1>5, ChainedFront
    <2>3. /\ Cnt(Front(c), HeapKinds) \in Nat /\ Cnt(Front(c), DepthKinds) \in Nat
          /\ Cnt(c, HeapKinds) = Cnt(Front(c), HeapKinds) + One(Last(c).k \in HeapKinds)
          /\ Cnt(c, DepthKinds) = Cnt(Front(c), DepthKinds) + One(Last(c).k \in DepthKinds)
        BY <1>1, <1>5, CntFront
    <2>4. One(Last(c).k \in HeapKinds) \in Nat /\ One(Last(c).k \in DepthKinds) \in Nat
        BY DEF One
    <2>5. H >= 1 + One(Last(c).k \in HeapKinds) /\ d >= One(Last(c).k \in DepthKinds)
        BY <1>1, <2>3, <2>4
    <2> QED
        BY <2>1, <2>2, <2>5
<1> QED
    BY <1>3, <1>4, <1>5

\* What StackOK says does not depend on phases, deferred expressions or results.
LEMMA StackLike ==
    ASSUME NEW c, NEW h \in Nat, NEW H \in Nat, NEW d \in Nat, NEW sv \in Seq(Seq(ScopeType)),
           StackOK(c, h, H, d, sv),
           NEW e \in Seq(FrameType), Len(e) = Len(c),
           \A i \in 1..Len(c) : e[i].k = c[i].k /\ e[i].base = c[i].base
    PROVE  StackOK(e, h, H, d, sv)
<1> DEFINE n == Len(c)
<1>1. /\ c \in Seq(FrameType) /\ Chained(c, h) /\ Linked(c, sv) /\ IterOK(c)
      /\ H >= 1 + Cnt(c, HeapKinds) /\ d >= Cnt(c, DepthKinds)
    BY DEF StackOK
<1>2. n \in Nat /\ DOMAIN c = 1..n
    BY <1>1
<1>3. /\ Len(e) = n /\ DOMAIN e = 1..n
      /\ \A i \in 1..n : e[i].k = c[i].k /\ e[i].base = c[i].base
    OBVIOUS
<1> HIDE DEF n
<1>4. Chained(e, h)
    <2>1. Len(c) = n
        BY DEF n
    <2>2. ASSUME NEW i \in 0..n
          PROVE  Height(e, h, i) = Height(c, h, i) /\ (i > 0 => Low(e[i]) = Low(c[i]))
        <3>1. i # n => i + 1 \in 1..n
            BY <1>2
        <3>2. Height(e, h, i) = Height(c, h, i)
            BY <3>1, <2>1, <1>3 DEF Height
        <3>3. i > 0 => i \in 1..n
            BY <1>2
        <3> QED
            BY <3>2, <3>3, <1>3 DEF Low
    <2> QED
        BY <1>1, <1>3, <2>1, <2>2 DEF Chained
<1>5. Linked(e, sv)
    <2>1. sv \in Seq(Seq(ScopeType)) /\ DOMAIN sv = 1..Len(sv)
        OBVIOUS
    <2>2. PICK idx \in [DOMAIN sv -> DOMAIN c \cup {0}] : Links(idx, c, sv)
        BY <1>1 DEF Linked
    <2>3. Links(idx, e, sv)
        <3>1. \A p \in DOMAIN e : e[p].k = "call" <=> \E i \in DOMAIN sv : idx[i] = p
            BY <2>2, <1>2, <1>3 DEF Links
        <3>2. ASSUME NEW i \in DOMAIN sv, idx[i] # 0
              PROVE  Len(sv[i]) = e[idx[i]].base
            <4>1. idx[i] \in 1..n
                BY <3>2, <1>2
            <4>2. Len(sv[i]) = c[idx[i]].base
                BY <3>2, <2>2 DEF Links
            <4> QED
                BY <4>1, <4>2, <1>3
        <3> QED
            BY <2>2, <3>1, <3>2 DEF Links
    <2> QED
        BY <2>2, <2>3, <1>2, <1>3 DEF Linked
<1>6. IterOK(e)
    <2>1. ASSUME NEW i \in 1..n, e[i].k = "iter"
          PROVE  i > 1 /\ e[i - 1].k \in LoopKinds
        <3>1. i > 1 /\ c[i - 1].k \in LoopKinds
            BY <2>1, <1>1, <1>2, <1>3 DEF IterOK
        <3>2. i - 1 \in 1..n
            BY <3>1, <1>2
        <3> QED
            BY <3>1, <3>2, <1>3
    <2> QED
        BY <2>1, <1>3 DEF IterOK
<1>7. ASSUME NEW ks
      PROVE  Cnt(e, ks) = Cnt(c, ks)
    <2>1. {i \in DOMAIN e : e[i].k \in ks} = {i \in DOMAIN c : c[i].k \in ks}
        BY <1>2, <1>3
    <2> QED
        BY <2>1 DEF Cnt
<1>8. H >= 1 + Cnt(e, HeapKinds) /\ d >= Cnt(e, DepthKinds)
    BY <1>1, <1>7
<1> QED
    BY <1>4, <1>5, <1>6, <1>8 DEF StackOK

\* The innermost construct goes on: only its phase, its deferred expressions
\* or the result it holds back change.
LEMMA StackTouch ==
    ASSUME NEW c, NEW h \in Nat, NEW H \in Nat, NEW d \in Nat, NEW sv \in Seq(Seq(ScopeType)),
           StackOK(c, h, H, d, sv), c # << >>,
           NEW f \in FrameType, f.k = Last(c).k, f.base = Last(c).base
    PROVE  /\ StackOK([c EXCEPT ![Len(c)] = f], h, H, d, sv)
           /\ [c EXCEPT ![Len(c)] = f] # << >>
           /\ Last([c EXCEPT ![Len(c)] = f]) = f
<1> DEFINE n == Len(c)
           e == [c EXCEPT ![n] = f]
<1>1. c \in Seq(FrameType)
    BY DEF StackOK
<1>2. /\ n \in Nat /\ n >= 1 /\ n \in 1..n /\ DOMAIN c = 1..n /\ Last(c) = c[n]
    BY <1>1, FrontAppend
<1>3. e \in Seq(FrameType) /\ Len(e) = n /\ DOMAIN e = 1..n /\ e[n] = f
    BY <1>1, <1>2
<1>4. \A i \in 1..n : e[i].k = c[i].k /\ e[i].base = c[i].base
    BY <1>1, <1>2
<1>5. e # << >> /\ Last(e) = f
    <2>1. Last(e) = e[Len(e)]
        BY DEF Last
    <2> HIDE DEF e, n
    <2>2. e # << >>
        BY <1>2, <1>3
    <2> QED
        BY <2>1, <2>2, <1>3
<1>6. StackOK(e, h, H, d, sv)
    <2> HIDE DEF e
    <2> QED
        BY <1>3, <1>4, StackLike
<1> QED
    BY <1>5, <1>6

\* The innermost construct, not a call, becomes another one.
LEMMA StackBecomes ==
    ASSUME NEW c, NEW h \in Nat, NEW H \in Nat, NEW d \in Nat, NEW sv \in Seq(Seq(ScopeType)),
           StackOK(c, h, H, d, sv), c # << >>, Last(c).k # "call",
           NEW f \in FrameType, f.base = Last(c).base, f.k # "call", f.k # "iter",
           NEW h2 \in Nat, h2 >= Low(f),
           NEW H2 \in Nat, H2 >= H - One(Last(c).k \in HeapKinds) + One(f.k \in HeapKinds),
           NEW d2 \in Nat, d2 >= d - One(Last(c).k \in DepthKinds) + One(f.k \in DepthKinds)
    PROVE  StackOK([c EXCEPT ![Len(c)] = f], h2, H2, d2, sv)
<1> DEFINE H1 == H - One(Last(c).k \in HeapKinds)
           d1 == d - One(Last(c).k \in DepthKinds)
<1>1. c \in Seq(FrameType)
    BY DEF StackOK
<1>2. /\ Last(c) \in FrameType /\ Last(c).base >= 1
      /\ H >= 1 + One(Last(c).k \in HeapKinds) /\ d >= One(Last(c).k \in DepthKinds)
    BY StackTop
<1>3. One(Last(c).k \in HeapKinds) \in Nat /\ One(Last(c).k \in DepthKinds) \in Nat
    BY DEF One
<1>4. H1 \in Nat /\ d1 \in Nat
    BY <1>2, <1>3
<1>5. f.base \in Nat /\ f.base >= 1
    BY <1>2 DEF FrameType
<1>6. h2 >= 1
    BY <1>5 DEF Low, One
<1>7. H2 >= H1 + One(f.k \in HeapKinds) /\ d2 >= d1 + One(f.k \in DepthKinds)
    OBVIOUS
<1>8. H1 >= H - One(Last(c).k \in HeapKinds) /\ d1 >= d - One(Last(c).k \in DepthKinds)
    BY <1>4, <1>3
<1> HIDE DEF H1, d1
<1>9. StackOK(Front(c), f.base, H1, d1, sv)
    BY <1>4, <1>5, <1>8, StackPop
<1>10. StackOK(Append(Front(c), f), h2, H2, d2, sv)
    BY <1>4, <1>5, <1>6, <1>7, <1>9, StackPush
<1>11. [c EXCEPT ![Len(c)] = f] = Append(Front(c), f)
    BY <1>1, AppendOfFront
<1> QED
    BY <1>10, <1>11

-----------------------------------------------------------------------------
(* The moves of the heap and of the symbol tables.                         *)

LEMMA HeapSame ==
    ASSUME HeapOK, UNCHANGED heapVars
    PROVE  HeapOK' /\ Len(scope_allocations') = Len(scope_allocations)
BY DEF HeapOK, HeapInv, HeapTypeOK, NoDoubleFree, OwnedOnce, FreeAddrs, heapVars

\* A block allocated in the current scope.
LEMMA AllocHere ==
    ASSUME HeapOK, scope_allocations # << >>, NEW v \in Vals, NEW a,
           alloc(v, a, scope_allocations)
    PROVE  /\ HeapOK' /\ a \in Nat
           /\ Len(scope_allocations') = Len(scope_allocations)
<1>1. HeapInv /\ scope_allocations \in Seq(SUBSET Nat)
    BY DEF HeapOK, HeapInv, HeapTypeOK
<1>2. Owned(scope_allocations, DOMAIN metadata)
    BY DEF HeapOK, OwnedOnce, Owned
<1>3. /\ HeapInv' /\ a \in Nat \ DOMAIN metadata
      /\ DOMAIN metadata' = DOMAIN metadata \cup {a}
      /\ scope_allocations' =
            [scope_allocations EXCEPT ![Len(scope_allocations)] = @ \cup {a}]
    BY <1>1, AllocInv
<1>4. Owned(scope_allocations', DOMAIN metadata')
    BY <1>1, <1>2, <1>3, AllocOwned, ZenonT(40)
<1>5. Len(scope_allocations') = Len(scope_allocations)
    BY <1>1, <1>3
<1> QED
    BY <1>3, <1>4, <1>5 DEF HeapOK, OwnedOnce, Owned

\* A block allocated in a scope that opens with it.
LEMMA AllocNew ==
    ASSUME HeapOK, NEW v \in Vals, NEW a, alloc(v, a, Append(scope_allocations, {}))
    PROVE  /\ HeapOK' /\ a \in Nat
           /\ Len(scope_allocations') = Len(scope_allocations) + 1
<1> DEFINE s == Append(scope_allocations, {})
<1>1. HeapInv /\ scope_allocations \in Seq(SUBSET Nat)
    BY DEF HeapOK, HeapInv, HeapTypeOK
<1>2. Owned(scope_allocations, DOMAIN metadata)
    BY DEF HeapOK, OwnedOnce, Owned
<1>3. s \in Seq(SUBSET Nat) /\ s # << >> /\ Owned(s, DOMAIN metadata)
    BY <1>1, <1>2, PushOwned
<1>4. Len(s) = Len(scope_allocations) + 1
    BY <1>1
<1>5. alloc(v, a, s)
    OBVIOUS
<1> HIDE DEF s
<1>6. /\ HeapInv' /\ a \in Nat \ DOMAIN metadata
      /\ DOMAIN metadata' = DOMAIN metadata \cup {a}
      /\ scope_allocations' = [s EXCEPT ![Len(s)] = @ \cup {a}]
    BY <1>1, <1>3, <1>5, AllocInv
<1>7. Owned(scope_allocations', DOMAIN metadata')
    BY <1>3, <1>6, AllocOwned, ZenonT(40)
<1>8. Len(scope_allocations') = Len(scope_allocations) + 1
    BY <1>3, <1>4, <1>6
<1> QED
    BY <1>6, <1>7, <1>8 DEF HeapOK, OwnedOnce, Owned

LEMMA WriteHere ==
    ASSUME HeapOK, NEW a \in Nat, NEW v \in Vals, write(a, v)
    PROVE  HeapOK' /\ Len(scope_allocations') = Len(scope_allocations)
<1>1. HeapInv' /\ DOMAIN metadata' = DOMAIN metadata
    BY WriteInv DEF HeapOK
<1>2. scope_allocations' = scope_allocations
    BY DEF write
<1> QED
    BY <1>1, <1>2 DEF HeapOK, OwnedOnce

LEMMA PushHeap ==
    ASSUME HeapOK, push_scope
    PROVE  HeapOK' /\ Len(scope_allocations') = Len(scope_allocations) + 1
<1>1. HeapInv /\ scope_allocations \in Seq(SUBSET Nat)
    BY DEF HeapOK, HeapInv, HeapTypeOK
<1>2. HeapInv'
    BY <1>1, PushScopeInv
<1>3. scope_allocations' = Append(scope_allocations, {}) /\ metadata' = metadata
    BY DEF push_scope
<1>4. Owned(scope_allocations', DOMAIN metadata')
    <2>1. Owned(scope_allocations, DOMAIN metadata)
        BY DEF HeapOK, OwnedOnce, Owned
    <2>2. Owned(Append(scope_allocations, {}), DOMAIN metadata)
        BY <2>1, <1>1, PushOwned
    <2> QED
        BY <2>2, <1>3
<1> QED
    BY <1>1, <1>2, <1>3, <1>4 DEF HeapOK, OwnedOnce, Owned

LEMMA PopHeap ==
    ASSUME HeapOK, scope_allocations # << >>, pop_scope
    PROVE  HeapOK' /\ Len(scope_allocations') = Len(scope_allocations) - 1
<1>1. HeapInv /\ scope_allocations \in Seq(SUBSET Nat)
    BY DEF HeapOK, HeapInv, HeapTypeOK
<1>2. HeapInv' /\ DOMAIN metadata' = DOMAIN metadata \ Last(scope_allocations)
    BY <1>1, PopScopeInv
<1>3. scope_allocations' = Front(scope_allocations)
    BY DEF pop_scope
<1>4. Owned(scope_allocations, DOMAIN metadata)
    BY DEF HeapOK, OwnedOnce, Owned
<1>5. Owned(scope_allocations', DOMAIN metadata')
    BY <1>1, <1>2, <1>3, <1>4, PopOwned
<1>6. Len(scope_allocations') = Len(scope_allocations) - 1
    BY <1>1, <1>3, FrontAppend
<1> QED
    BY <1>2, <1>5, <1>6 DEF HeapOK, OwnedOnce, Owned

LEMMA CollectHeap ==
    ASSUME HeapOK, NEW roots, collect_garbage(roots)
    PROVE  HeapOK' /\ Len(scope_allocations') = Len(scope_allocations)
<1>1. HeapInv /\ scope_allocations \in Seq(SUBSET Nat)
    BY DEF HeapOK, HeapInv, HeapTypeOK
<1>2. HeapInv' /\ DOMAIN metadata' = DOMAIN metadata \cap roots
    BY <1>1, CollectInv
<1>3. scope_allocations' = [i \in DOMAIN scope_allocations |-> scope_allocations[i] \cap roots]
    BY DEF collect_garbage
<1>4. Owned(scope_allocations, DOMAIN metadata)
    BY DEF HeapOK, OwnedOnce, Owned
<1>5. Owned(scope_allocations', DOMAIN metadata')
    <2>1. Owned([i \in DOMAIN scope_allocations |-> scope_allocations[i] \cap roots],
                DOMAIN metadata \cap roots)
        BY <1>4, CollectOwned
    <2> QED
        BY <2>1, <1>2, <1>3
<1>6. Len(scope_allocations') = Len(scope_allocations)
    BY <1>1, <1>3
<1> QED
    BY <1>2, <1>5, <1>6 DEF HeapOK, OwnedOnce, Owned

\* A name bound in one of the scopes of `base`.
LEMMA DefineTyped ==
    ASSUME NEW base \in Seq(ScopeType), NEW i \in DOMAIN base,
           NEW n \in Names \cup {UnsafeContext}, NEW a \in Nat, NEW m \in BOOLEAN,
           Define(base, i, n, Entry(a, m))
    PROVE  symbols' \in Seq(ScopeType) /\ Len(symbols') = Len(base)
<1> DEFINE e == Entry(a, m)
           s == Extend(base[i], n, e)
<1>1. e \in EntryType
    BY DEF Entry, EntryType
<1>2. PICK D \in SUBSET (Names \cup {UnsafeContext}) : base[i] \in [D -> EntryType]
    <2>1. base[i] \in ScopeType
        OBVIOUS
    <2> QED
        BY <2>1 DEF ScopeType
<1> HIDE DEF e
<1>3. s \in [D \cup {n} -> EntryType]
    BY <1>1, <1>2 DEF Extend
<1>4. D \cup {n} \in SUBSET (Names \cup {UnsafeContext})
    OBVIOUS
<1>5. s \in ScopeType
    BY <1>3, <1>4 DEF ScopeType
<1>6. symbols' = [base EXCEPT ![i] = s]
    BY DEF Define, e
<1> HIDE DEF s
<1> QED
    BY <1>5, <1>6

LEMMA EmptyScope == << >> \in ScopeType
<1>1. << >> \in [{} -> EntryType]
    OBVIOUS
<1>2. {} \in SUBSET (Names \cup {UnsafeContext})
    OBVIOUS
<1> QED
    BY <1>1, <1>2 DEF ScopeType

\* A scope opened on top of, or as the last of, a stack of tables.
LEMMA OpenTyped ==
    ASSUME HeapOK, NEW base \in Seq(ScopeType), base # << >>, NEW B \in Bindings,
           NEW m \in BOOLEAN, Open(base, B, m)
    PROVE  /\ HeapOK' /\ Len(scope_allocations') = Len(scope_allocations) + 1
           /\ symbols' \in Seq(ScopeType) /\ Len(symbols') = Len(base)
<1>1. CASE push_scope /\ symbols' = base
    BY <1>1, PushHeap
<1>2. ASSUME NEW b \in B, NEW a, alloc(b.v, a, Append(scope_allocations, {})),
             Define(base, Len(base), b.n, Entry(a, m))
      PROVE  /\ HeapOK' /\ Len(scope_allocations') = Len(scope_allocations) + 1
             /\ symbols' \in Seq(ScopeType) /\ Len(symbols') = Len(base)
    <2>1. b.v \in Vals /\ b.n \in Names \cup {UnsafeContext}
        BY DEF Bindings
    <2>2. HeapOK' /\ a \in Nat /\ Len(scope_allocations') = Len(scope_allocations) + 1
        BY <1>2, <2>1, AllocNew
    <2>3. Len(base) \in DOMAIN base
        OBVIOUS
    <2>4. symbols' \in Seq(ScopeType) /\ Len(symbols') = Len(base)
        BY <1>2, <2>1, <2>2, <2>3, DefineTyped
    <2> QED
        BY <2>2, <2>4
<1> QED
    BY <1>1, <1>2 DEF Open

-----------------------------------------------------------------------------
(* The steps of the specification, sorted by what they do to ctl.          *)

LEMMA InvFacts ==
    ASSUME Inv
    PROVE  /\ HeapOK
           /\ symbols \in Seq(ScopeType) /\ Len(symbols) \in Nat /\ Len(symbols) >= 1
           /\ scope_allocations \in Seq(SUBSET Nat) /\ Len(scope_allocations) \in Nat
           /\ Len(scope_allocations) >= 1
           /\ symbols # << >> /\ scope_allocations # << >>
           /\ saved_symbol_stacks \in Seq(Seq(ScopeType))
           /\ call_depth \in Nat /\ err \in Errs
           /\ ctl \in Seq(FrameType)
           /\ StackOK(ctl, Len(symbols), Len(scope_allocations), call_depth, saved_symbol_stacks)
           /\ ctl # << >> =>
                /\ Top \in FrameType
                /\ Top.base \in Nat /\ Top.base >= 1 /\ Len(symbols) >= Low(Top)
                /\ Len(scope_allocations) >= 1 + One(Top.k \in HeapKinds)
                /\ call_depth >= One(Top.k \in DepthKinds)
<1>1. /\ HeapOK /\ symbols \in Seq(ScopeType)
      /\ saved_symbol_stacks \in Seq(Seq(ScopeType))
      /\ call_depth \in Nat /\ err \in Errs
      /\ StackOK(ctl, Len(symbols), Len(scope_allocations), call_depth, saved_symbol_stacks)
    BY DEF Inv
<1>2. scope_allocations \in Seq(SUBSET Nat)
    BY <1>1 DEF HeapOK, HeapInv, HeapTypeOK
<1>3. Len(symbols) \in Nat /\ Len(scope_allocations) \in Nat
    BY <1>1, <1>2
<1>4. ctl \in Seq(FrameType)
    BY <1>1 DEF StackOK
<1>5. /\ Len(symbols) >= 1 /\ Len(scope_allocations) >= 1
      /\ ctl # << >> =>
                /\ Top \in FrameType
                /\ Top.base >= 1 /\ Len(symbols) >= Low(Top)
                /\ Len(scope_allocations) >= 1 + One(Top.k \in HeapKinds)
                /\ call_depth >= One(Top.k \in DepthKinds)
    BY <1>1, <1>3, StackTop DEF Top
<1>6. Top \in FrameType => Top.base \in Nat
    BY DEF FrameType
<1>7. symbols # << >> /\ scope_allocations # << >>
    BY <1>1, <1>2, <1>5
<1> QED
    BY <1>1, <1>2, <1>3, <1>4, <1>5, <1>6, <1>7

LEMMA EnterTyped ==
    ASSUME Inv, NEW B \in Bindings, NEW m \in BOOLEAN, Enter(B, m)
    PROVE  /\ HeapOK' /\ Len(scope_allocations') = Len(scope_allocations) + 1
           /\ symbols' \in Seq(ScopeType) /\ Len(symbols') = Len(symbols) + 1
<1> DEFINE base == Append(symbols, << >>)
<1>1. HeapOK /\ symbols \in Seq(ScopeType)
    BY InvFacts
<1>2. base \in Seq(ScopeType) /\ base # << >> /\ Len(base) = Len(symbols) + 1
    BY <1>1, EmptyScope
<1>3. Open(base, B, m)
    BY DEF Enter
<1> HIDE DEF base
<1> QED
    BY <1>1, <1>2, <1>3, OpenTyped

LEMMA NoBinding == {} \in Bindings
BY DEF Bindings

LEMMA LeaveTyped ==
    ASSUME Inv, Leave
    PROVE  /\ HeapOK' /\ Len(scope_allocations') = Len(scope_allocations) - 1
           /\ symbols' \in Seq(ScopeType) /\ Len(symbols') = Len(symbols) - 1
<1>1. HeapOK /\ symbols \in Seq(ScopeType) /\ symbols # << >> /\ scope_allocations # << >>
    BY InvFacts
<1>2. pop_scope /\ symbols' = Front(symbols)
    BY DEF Leave
<1>3. HeapOK' /\ Len(scope_allocations') = Len(scope_allocations) - 1
    BY <1>1, <1>2, PopHeap
<1> QED
    BY <1>1, <1>2, <1>3, FrontAppend

LEMMA FrameTyped ==
    ASSUME Inv, NEW k \in Bodies \cup Heads, NEW ph \in Phases
    PROVE  /\ Frame(k, ph) \in FrameType
           /\ Frame(k, ph).k = k /\ Frame(k, ph).base = Len(symbols)
           /\ Low(Frame(k, ph)) = IF k = "call" THEN 2 ELSE Len(symbols) + One(k \in TableKinds)
<1>1. Len(symbols) \in Nat
    BY InvFacts
<1>2. Frame(k, ph) \in FrameType
    BY <1>1 DEF Frame, FrameType, Errs
<1>3. Frame(k, ph).k = k /\ Frame(k, ph).base = Len(symbols)
    BY DEF Frame
<1> QED
    BY <1>2, <1>3 DEF Low

\* What the steps below have in common.
Typed ==
    /\ HeapOK
    /\ symbols \in Seq(ScopeType)
    /\ saved_symbol_stacks \in Seq(Seq(ScopeType))
    /\ call_depth \in Nat
    /\ err \in Errs

\* ctl stays as it is.
LEMMA StayInv ==
    ASSUME Inv, Typed', UNCHANGED <<ctl, saved_symbol_stacks>>,
           Len(symbols') = Len(symbols), Len(scope_allocations') = Len(scope_allocations),
           call_depth' = call_depth
    PROVE  Inv'
BY DEF Inv, Typed

\* A construct begins.
LEMMA PushInv ==
    ASSUME Inv, Typed', UNCHANGED saved_symbol_stacks,
           NEW k \in Bodies \cup Heads, NEW ph \in Phases, k \notin {"call", "iter"},
           ctl' = Append(ctl, Frame(k, ph)),
           Len(symbols') >= Len(symbols) + One(k \in TableKinds),
           Len(scope_allocations') >= Len(scope_allocations) + One(k \in HeapKinds),
           call_depth' >= call_depth + One(k \in DepthKinds)
    PROVE  Inv'
<1> DEFINE f == Frame(k, ph)
<1>1. /\ f \in FrameType /\ f.k = k /\ f.base = Len(symbols)
      /\ Low(f) = Len(symbols) + One(k \in TableKinds)
    BY FrameTyped
<1>2. ctl' = Append(ctl, f)
    OBVIOUS
<1>3. /\ Len(symbols) \in Nat /\ Len(scope_allocations) \in Nat /\ call_depth \in Nat
      /\ saved_symbol_stacks \in Seq(Seq(ScopeType)) /\ Len(symbols) >= 1
      /\ StackOK(ctl, Len(symbols), Len(scope_allocations), call_depth, saved_symbol_stacks)
    BY InvFacts
<1>4. Len(symbols') \in Nat /\ Len(scope_allocations') \in Nat /\ call_depth' \in Nat
    BY DEF Typed, HeapOK, HeapInv, HeapTypeOK
<1>5. Len(symbols') >= 1
    BY <1>3, <1>4 DEF One
<1> HIDE DEF f
<1>6. StackOK(Append(ctl, f), Len(symbols'), Len(scope_allocations'), call_depth',
              saved_symbol_stacks)
    BY <1>1, <1>3, <1>4, <1>5, StackPush
<1> QED
    BY <1>2, <1>6 DEF Inv, Typed

\* A construct ends.
LEMMA PopInv ==
    ASSUME Inv, Typed', UNCHANGED saved_symbol_stacks, ctl # << >>, Top.k # "call",
           ctl' = Front(ctl),
           Len(symbols') >= Top.base,
           Len(scope_allocations') >= Len(scope_allocations) - One(Top.k \in HeapKinds),
           call_depth' >= call_depth - One(Top.k \in DepthKinds)
    PROVE  Inv'
<1>1. /\ Len(symbols) \in Nat /\ Len(scope_allocations) \in Nat /\ call_depth \in Nat
      /\ saved_symbol_stacks \in Seq(Seq(ScopeType))
      /\ StackOK(ctl, Len(symbols), Len(scope_allocations), call_depth, saved_symbol_stacks)
    BY InvFacts
<1>2. Len(symbols') \in Nat /\ Len(scope_allocations') \in Nat /\ call_depth' \in Nat
    BY DEF Typed, HeapOK, HeapInv, HeapTypeOK
<1>3. StackOK(Front(ctl), Len(symbols'), Len(scope_allocations'), call_depth',
              saved_symbol_stacks)
    BY <1>1, <1>2, StackPop DEF Top
<1> QED
    BY <1>3 DEF Inv, Typed

\* The innermost construct, not a call, becomes another one.
LEMMA BecomesInv ==
    ASSUME Inv, Typed', UNCHANGED saved_symbol_stacks, ctl # << >>, Top.k # "call",
           NEW f \in FrameType, f.base = Top.base, f.k \notin {"call", "iter"},
           ctl' = [ctl EXCEPT ![Len(ctl)] = f],
           Len(symbols') >= Top.base + One(f.k \in TableKinds),
           Len(scope_allocations') >=
              Len(scope_allocations) - One(Top.k \in HeapKinds) + One(f.k \in HeapKinds),
           call_depth' >= call_depth - One(Top.k \in DepthKinds) + One(f.k \in DepthKinds)
    PROVE  Inv'
<1>1. /\ Len(symbols) \in Nat /\ Len(scope_allocations) \in Nat /\ call_depth \in Nat
      /\ saved_symbol_stacks \in Seq(Seq(ScopeType))
      /\ StackOK(ctl, Len(symbols), Len(scope_allocations), call_depth, saved_symbol_stacks)
    BY InvFacts
<1>2. Len(symbols') \in Nat /\ Len(scope_allocations') \in Nat /\ call_depth' \in Nat
    BY DEF Typed, HeapOK, HeapInv, HeapTypeOK
<1>3. Len(symbols') >= Low(f)
    BY DEF Low
<1>4. StackOK([ctl EXCEPT ![Len(ctl)] = f], Len(symbols'), Len(scope_allocations'),
              call_depth', saved_symbol_stacks)
    BY <1>1, <1>2, <1>3, StackBecomes DEF Top
<1> QED
    BY <1>4 DEF Inv, Typed

\* The same construct stack, with changes within the innermost construct.
LEMMA TouchInv ==
    ASSUME Inv, Typed', UNCHANGED saved_symbol_stacks, ctl # << >>,
           NEW f \in FrameType, f.base = Top.base, f.k = Top.k,
           ctl' = [ctl EXCEPT ![Len(ctl)] = f],
           Len(symbols') = Len(symbols), Len(scope_allocations') = Len(scope_allocations),
           call_depth' = call_depth
    PROVE  Inv'
<1>1. /\ Len(symbols) \in Nat /\ Len(scope_allocations) \in Nat /\ call_depth \in Nat
      /\ saved_symbol_stacks \in Seq(Seq(ScopeType))
      /\ StackOK(ctl, Len(symbols), Len(scope_allocations), call_depth, saved_symbol_stacks)
    BY InvFacts
<1>2. StackOK([ctl EXCEPT ![Len(ctl)] = f], Len(symbols), Len(scope_allocations),
              call_depth, saved_symbol_stacks)
    BY <1>1, StackTouch DEF Top
<1> QED
    BY <1>2 DEF Inv, Typed

LEMMA RaisedErrs == Raised \subseteq Errs
BY ScopesAssumption DEF Errs, Signals

\* Nothing but err, or ctl, changes.
LEMMA SameTyped ==
    ASSUME Inv, UNCHANGED <<heapVars, symbols, saved_symbol_stacks>>, call_depth' \in Nat,
           err' \in Errs
    PROVE  /\ Typed'
           /\ Len(symbols') = Len(symbols)
           /\ Len(scope_allocations') = Len(scope_allocations)
BY InvFacts, HeapSame DEF Typed

\* A variable bound in one of the open scopes.
LEMMA BindInv ==
    ASSUME Inv, NEW n \in Names, NEW v \in Vals, NEW a, NEW i \in 1..Len(symbols),
           NEW m \in BOOLEAN,
           alloc(v, a, scope_allocations), Define(symbols, i, n, Entry(a, m)),
           UNCHANGED <<saved_symbol_stacks, call_depth, ctl, err>>
    PROVE  Inv'
<1>1. /\ HeapOK /\ scope_allocations # << >> /\ symbols \in Seq(ScopeType)
      /\ saved_symbol_stacks \in Seq(Seq(ScopeType)) /\ call_depth \in Nat /\ err \in Errs
    BY InvFacts
<1>2. HeapOK' /\ a \in Nat /\ Len(scope_allocations') = Len(scope_allocations)
    BY <1>1, AllocHere
<1>3. i \in DOMAIN symbols
    BY <1>1
<1>4. symbols' \in Seq(ScopeType) /\ Len(symbols') = Len(symbols)
    BY <1>1, <1>2, <1>3, DefineTyped
<1>5. Typed'
    BY <1>1, <1>2, <1>4 DEF Typed
<1> QED
    BY <1>2, <1>4, <1>5, StayInv

\* A construct that opens a scope begins.
LEMMA EnterInv ==
    ASSUME Inv, NEW B \in Bindings, NEW m \in BOOLEAN, Enter(B, m),
           NEW k \in Bodies \cup Heads, NEW ph \in Phases, k \in HeapKinds \cap TableKinds,
           k # "iter", ctl' = Append(ctl, Frame(k, ph)),
           call_depth' \in Nat, call_depth' >= call_depth + One(k \in DepthKinds),
           UNCHANGED saved_symbol_stacks, err' \in Errs
    PROVE  Inv'
<1>1. /\ HeapOK' /\ Len(scope_allocations') = Len(scope_allocations) + 1
      /\ symbols' \in Seq(ScopeType) /\ Len(symbols') = Len(symbols) + 1
    BY EnterTyped
<1>2. /\ saved_symbol_stacks \in Seq(Seq(ScopeType))
      /\ Len(symbols) \in Nat /\ Len(scope_allocations) \in Nat
    BY InvFacts
<1>3. Typed'
    BY <1>1, <1>2 DEF Typed
<1>4. k \notin {"call", "iter"}
    BY DEF TableKinds, Bodies
<1>5. One(k \in TableKinds) = 1 /\ One(k \in HeapKinds) = 1
    BY DEF One
<1>6. /\ Len(symbols') >= Len(symbols) + One(k \in TableKinds)
      /\ Len(scope_allocations') >= Len(scope_allocations) + One(k \in HeapKinds)
    BY <1>1, <1>2, <1>5
<1> QED
    BY <1>3, <1>4, <1>6, PushInv

\* A construct that opened a scope closes it and ends.
LEMMA LeaveInv ==
    ASSUME Inv, Leave, ctl # << >>, Top.k \in HeapKinds \cap TableKinds, ctl' = Front(ctl),
           call_depth' \in Nat, call_depth' >= call_depth - One(Top.k \in DepthKinds),
           UNCHANGED saved_symbol_stacks, err' \in Errs
    PROVE  Inv'
<1>1. /\ HeapOK' /\ Len(scope_allocations') = Len(scope_allocations) - 1
      /\ symbols' \in Seq(ScopeType) /\ Len(symbols') = Len(symbols) - 1
    BY LeaveTyped
<1>2. /\ saved_symbol_stacks \in Seq(Seq(ScopeType))
      /\ Len(symbols) \in Nat /\ Len(scope_allocations) \in Nat
      /\ Top.base \in Nat /\ Len(symbols) >= Low(Top)
    BY InvFacts
<1>3. Typed'
    BY <1>1, <1>2 DEF Typed
<1>4. Top.k # "call"
    BY DEF TableKinds, Bodies
<1>5. Low(Top) = Top.base + 1 /\ One(Top.k \in HeapKinds) = 1
    BY <1>4 DEF Low, One
<1>6. /\ Len(symbols') >= Top.base
      /\ Len(scope_allocations') >= Len(scope_allocations) - One(Top.k \in HeapKinds)
    BY <1>1, <1>2, <1>5
<1> QED
    BY <1>3, <1>4, <1>6, PopInv

\* A construct, not a call, ends and leaves the scopes as they are.
LEMMA DropInv ==
    ASSUME Inv, ctl # << >>, Top.k # "call", ctl' = Front(ctl), err' \in Errs,
           UNCHANGED <<heapVars, symbols, saved_symbol_stacks, call_depth>>
    PROVE  Inv'
<1>1. /\ call_depth \in Nat /\ Len(symbols) \in Nat /\ Len(scope_allocations) \in Nat
      /\ Top.base \in Nat /\ Len(symbols) >= Low(Top)
    BY InvFacts
<1>2. /\ Typed' /\ Len(symbols') = Len(symbols)
      /\ Len(scope_allocations') = Len(scope_allocations)
    BY <1>1, SameTyped
<1>3. One(Top.k \in HeapKinds) \in Nat /\ One(Top.k \in DepthKinds) \in Nat
    BY DEF One
<1>4. Low(Top) >= Top.base
    BY <1>1 DEF Low, One
<1>5. /\ Len(symbols') >= Top.base
      /\ Len(scope_allocations') >= Len(scope_allocations) - One(Top.k \in HeapKinds)
      /\ call_depth' >= call_depth - One(Top.k \in DepthKinds)
    <2>1. Low(Top) \in Nat
        BY <1>1 DEF Low, One
    <2> QED
        BY <1>1, <1>2, <1>3, <1>4, <2>1
<1> QED
    BY <1>2, <1>5, PopInv

LEMMA StatementInv ==
    ASSUME Inv, Statement
    PROVE  Inv'
<1>1. /\ HeapOK /\ scope_allocations # << >> /\ symbols \in Seq(ScopeType)
      /\ saved_symbol_stacks \in Seq(Seq(ScopeType)) /\ call_depth \in Nat /\ err \in Errs
      /\ Len(symbols) \in Nat /\ Len(symbols) >= 1
      /\ Len(scope_allocations) \in Nat
    BY InvFacts
<1>2. "error" \in Errs /\ 1 \in 1..Len(symbols) /\ Len(symbols) \in 1..Len(symbols)
    BY <1>1 DEF Errs
<1>3. ASSUME NEW n \in Names, NEW v \in Vals, Let(n, v)
      PROVE  Inv'
    <2>1. CASE Raise("error") /\ UNCHANGED <<heapVars, symbols>>
        <3>1. err' = "error" /\ UNCHANGED <<saved_symbol_stacks, call_depth, ctl>>
            BY <1>3, <2>1 DEF Let, Raise, RaiseIn
        <3> QED
            BY <2>1, <3>1, <1>1, <1>2, SameTyped, StayInv
    <2>2. CASE \E a \in Candidates : /\ alloc(v, a, scope_allocations)
                                     /\ Define(symbols, Len(symbols), n, Entry(a, TRUE))
                                     /\ UNCHANGED err
        <3>1. UNCHANGED <<saved_symbol_stacks, call_depth, ctl>>
            BY <1>3 DEF Let
        <3> QED
            BY <2>2, <3>1, <1>2, BindInv
    <2> QED
        BY <1>3, <2>1, <2>2 DEF Let
<1>4. ASSUME NEW n \in Names, NEW v \in Vals, ConstDef(n, v)
      PROVE  Inv'
    BY <1>4, <1>2, BindInv DEF ConstDef
<1>5. ASSUME NEW n \in Names, NEW v \in Vals, StaticDef(n, v)
      PROVE  Inv'
    BY <1>5, <1>2, BindInv DEF StaticDef
<1>6. ASSUME NEW n \in Names, NEW v \in Vals, Assignment(n, v)
      PROVE  Inv'
    <2>1. UNCHANGED <<symbols, saved_symbol_stacks, call_depth, ctl>>
        BY <1>6 DEF Assignment
    <2>2. CASE Raise("error") /\ UNCHANGED heapVars
        <3>1. err' = "error"
            BY <2>2 DEF Raise, RaiseIn
        <3> QED
            BY <2>1, <2>2, <3>1, <1>1, <1>2, SameTyped, StayInv
    <2>3. ASSUME NEW i \in DOMAIN symbols, Innermost(i, n), write(symbols[i][n].addr, v),
                 UNCHANGED err
          PROVE  Inv'
        <3>1. n \in DOMAIN symbols[i] /\ symbols[i] \in ScopeType
            BY <2>3, <1>1 DEF Innermost
        <3>2. symbols[i][n] \in EntryType
            BY <3>1 DEF ScopeType
        <3>3. symbols[i][n].addr \in Nat
            BY <3>2 DEF EntryType
        <3>4. HeapOK' /\ Len(scope_allocations') = Len(scope_allocations)
            BY <2>3, <3>3, <1>1, WriteHere
        <3>5. Typed'
            BY <3>4, <2>1, <2>3, <1>1 DEF Typed
        <3> QED
            BY <3>4, <3>5, <2>1, StayInv
    <2> QED
        BY <1>6, <2>2, <2>3 DEF Assignment
<1>7. ASSUME NEW e \in Raised, Fail(e)
      PROVE  Inv'
    <2>1. err' \in Errs /\ UNCHANGED <<heapVars, symbols, saved_symbol_stacks, call_depth, ctl>>
        BY <1>7, RaisedErrs DEF Fail, Raise, RaiseIn
    <2> QED
        BY <2>1, <1>1, SameTyped, StayInv
<1>8. ASSUME Defer
      PROVE  Inv'
    <2> DEFINE f == [Top EXCEPT !.dfr = @ + 1]
    <2>1. /\ ctl # << >> /\ ctl' = [ctl EXCEPT ![Len(ctl)] = f]
          /\ UNCHANGED <<heapVars, symbols, saved_symbol_stacks, call_depth, err>>
        BY <1>8 DEF Defer, Running, SetTop
    <2>2. Top \in FrameType
        BY <2>1, InvFacts
    <2>3. f \in FrameType /\ f.base = Top.base /\ f.k = Top.k
        BY <2>2 DEF FrameType
    <2> HIDE DEF f
    <2> QED
        BY <2>1, <2>3, <1>1, SameTyped, TouchInv
<1>9. ASSUME NEW k \in {"while", "for", "do"}, StartLoop(k)
      PROVE  Inv'
    <2>1. /\ ctl' = Append(ctl, Frame(k, "cond"))
          /\ UNCHANGED <<heapVars, symbols, saved_symbol_stacks, call_depth, err>>
        BY <1>9 DEF StartLoop, Push
    <2>2. k \in Bodies \cup Heads /\ "cond" \in Phases /\ k \notin {"call", "iter"}
        BY DEF Heads, Phases
    <2>3. One(k \in TableKinds) = 0 /\ One(k \in HeapKinds) = 0 /\ One(k \in DepthKinds) = 0
        BY DEF One, TableKinds, HeapKinds, DepthKinds, Bodies
    <2>4. Typed' /\ Len(symbols') = Len(symbols) /\ Len(scope_allocations') = Len(scope_allocations)
        BY <2>1, <1>1, SameTyped
    <2>5. /\ Len(symbols') >= Len(symbols) + One(k \in TableKinds)
          /\ Len(scope_allocations') >= Len(scope_allocations) + One(k \in HeapKinds)
          /\ call_depth' >= call_depth + One(k \in DepthKinds)
        BY <2>1, <2>3, <2>4, <1>1
    <2> QED
        BY <2>1, <2>2, <2>4, <2>5, PushInv
<1>10. ASSUME StartCStyleFor
       PROVE  Inv'
    <2>1. /\ ctl' = Append(ctl, Frame("cfor", "init")) /\ Enter({}, FALSE)
          /\ UNCHANGED <<saved_symbol_stacks, call_depth, err>>
        BY <1>10 DEF StartCStyleFor, Push
    <2>2. /\ "cfor" \in Bodies \cup Heads /\ "init" \in Phases
          /\ "cfor" \in HeapKinds \cap TableKinds /\ One("cfor" \in DepthKinds) = 0
        BY DEF Heads, Phases, HeapKinds, TableKinds, DepthKinds, One
    <2>3. call_depth' >= call_depth + One("cfor" \in DepthKinds)
        BY <2>1, <2>2, <1>1
    <2> QED
        BY <2>1, <2>2, <2>3, <1>1, NoBinding, EnterInv
<1> QED
    BY <1>3, <1>4, <1>5, <1>6, <1>7, <1>8, <1>9, <1>10 DEF Statement

-----------------------------------------------------------------------------
\* The loop that a body of an iteration belongs to begins that iteration.
LEMMA IterateInv ==
    ASSUME Inv, NEW k \in LoopKinds, NEW B \in Bindings, Iterate(k, B)
    PROVE  Inv'
<1> DEFINE f == [Top EXCEPT !.ph = "body"]
           c == [ctl EXCEPT ![Len(ctl)] = f]
           g == Frame("iter", "run")
<1>1. /\ HeapOK /\ saved_symbol_stacks \in Seq(Seq(ScopeType)) /\ call_depth \in Nat
      /\ Len(symbols) \in Nat /\ Len(scope_allocations) \in Nat /\ err \in Errs
      /\ Len(symbols) >= 1 /\ ctl \in Seq(FrameType)
      /\ StackOK(ctl, Len(symbols), Len(scope_allocations), call_depth, saved_symbol_stacks)
    BY InvFacts
<1>2. /\ ctl # << >> /\ Top.k = k /\ Enter(B, FALSE)
      /\ UNCHANGED <<saved_symbol_stacks, call_depth, err>>
    BY DEF Iterate, Running
<1>3. ctl' = Append(c, g)
    <2>1. ctl' = Append([ctl EXCEPT ![Len(ctl)] = [@ EXCEPT !.ph = "body"]], g)
        BY DEF Iterate
    <2>2. Top = ctl[Len(ctl)] /\ Len(ctl) \in DOMAIN ctl
        BY <1>1, <1>2, FrontAppend DEF Top
    <2> QED
        BY <2>1, <2>2
<1>4. /\ HeapOK' /\ Len(scope_allocations') = Len(scope_allocations) + 1
      /\ symbols' \in Seq(ScopeType) /\ Len(symbols') = Len(symbols) + 1
    BY <1>2, EnterTyped
<1>5. Top \in FrameType
    BY <1>2, InvFacts
<1>6. f \in FrameType /\ f.k = Top.k /\ f.base = Top.base
    BY <1>5 DEF FrameType, Phases
<1>7. "iter" \in Bodies \cup Heads /\ "run" \in Phases
    BY DEF Bodies, Phases
<1>8. /\ g \in FrameType /\ g.k = "iter" /\ g.base = Len(symbols)
      /\ Low(g) = Len(symbols) + One("iter" \in TableKinds)
    BY <1>7, FrameTyped
<1>9. /\ One("iter" \in TableKinds) = 1 /\ One("iter" \in HeapKinds) = 1
      /\ One("iter" \in DepthKinds) = 0
    BY DEF One, TableKinds, HeapKinds, DepthKinds, Bodies
<1> HIDE DEF f, g
<1>10. /\ StackOK(c, Len(symbols), Len(scope_allocations), call_depth, saved_symbol_stacks)
       /\ c # << >> /\ Last(c) = f
    BY <1>1, <1>2, <1>6, StackTouch DEF Top
<1> HIDE DEF c
<1>11. /\ Len(symbols') \in Nat /\ Len(symbols') >= 1 /\ Len(symbols') >= Low(g)
       /\ Len(scope_allocations') \in Nat
       /\ Len(scope_allocations') >= Len(scope_allocations) + One(g.k \in HeapKinds)
       /\ call_depth >= call_depth + One(g.k \in DepthKinds)
    BY <1>1, <1>4, <1>8, <1>9
<1>12. StackOK(Append(c, g), Len(symbols'), Len(scope_allocations'), call_depth,
               saved_symbol_stacks)
    BY <1>1, <1>2, <1>6, <1>8, <1>10, <1>11, StackPush
<1> QED
    BY <1>1, <1>2, <1>3, <1>4, <1>12 DEF Inv

\* An iteration ends, and its loop goes on, unwinds or ends with it.
LEMMA LeaveIterationInv ==
    ASSUME Inv, LeaveIteration
    PROVE  Inv'
<1> DEFINE c == Front(ctl)
           h == Len(symbols) - 1
           H == Len(scope_allocations) - 1
<1>1. /\ HeapOK /\ saved_symbol_stacks \in Seq(Seq(ScopeType)) /\ call_depth \in Nat
      /\ Len(symbols) \in Nat /\ Len(scope_allocations) \in Nat /\ err \in Errs
      /\ ctl \in Seq(FrameType)
      /\ StackOK(ctl, Len(symbols), Len(scope_allocations), call_depth, saved_symbol_stacks)
    BY InvFacts
<1>2. /\ ctl # << >> /\ Top.k = "iter" /\ Leave
      /\ UNCHANGED <<saved_symbol_stacks, call_depth>>
    BY DEF LeaveIteration, AtEnd, Running
<1>3. Top.base \in Nat /\ Len(symbols) >= Low(Top) /\ Top.base >= 1
      /\ Len(scope_allocations) >= 1
    BY <1>2, InvFacts
<1>4. /\ HeapOK' /\ Len(scope_allocations') = H
      /\ symbols' \in Seq(ScopeType) /\ Len(symbols') = h
    BY <1>2, LeaveTyped
<1>5. /\ Low(Top) = Top.base + 1 /\ One(Top.k \in HeapKinds) = 1 /\ One(Top.k \in DepthKinds) = 0
    BY <1>2 DEF Low, One, TableKinds, HeapKinds, DepthKinds, Bodies
<1>6. /\ h \in Nat /\ H \in Nat /\ h >= Top.base
      /\ H >= Len(scope_allocations) - One(Top.k \in HeapKinds)
      /\ call_depth >= call_depth - One(Top.k \in DepthKinds)
    BY <1>1, <1>3, <1>5
<1>7. Len(c) = Len(ctl) - 1
    BY <1>1, <1>2, FrontAppend
<1> HIDE DEF h, H, c
<1>8. StackOK(c, h, H, call_depth, saved_symbol_stacks)
    BY <1>1, <1>2, <1>6, StackPop DEF Top, c
<1>9. IterOK(ctl)
    BY <1>1 DEF StackOK
<1>10. c # << >> /\ Last(c).k \in LoopKinds
    BY <1>1, <1>2, <1>9, IterFront DEF Top, c
<1> DEFINE loop == ctl[Len(ctl) - 1]
<1>11. loop = Last(c) /\ loop \in FrameType
    <2>1. Len(ctl) - 1 \in 1..(Len(ctl) - 1) /\ c \in Seq(FrameType)
        BY <1>1, <1>2, <1>7, <1>10, FrontAppend DEF c
    <2>2. c[Len(ctl) - 1] = ctl[Len(ctl) - 1]
        BY <2>1, <1>1, <1>2, FrontAppend DEF c
    <2>3. Last(c) = c[Len(c)] /\ Last(c) \in FrameType
        BY <2>1, <1>10, FrontAppend
    <2> QED
        BY <2>2, <2>3, <1>7
<1> HIDE DEF loop
<1>12. ASSUME NEW p \in Phases, ctl' = [c EXCEPT ![Len(ctl) - 1] = [loop EXCEPT !.ph = p]],
              err' \in Errs
       PROVE  Inv'
    <2> DEFINE f == [loop EXCEPT !.ph = p]
    <2>1. f \in FrameType /\ f.k = Last(c).k /\ f.base = Last(c).base
        BY <1>11 DEF FrameType
    <2>2. ctl' = [c EXCEPT ![Len(c)] = f]
        BY <1>12, <1>7
    <2> HIDE DEF f
    <2>3. StackOK(ctl', h, H, call_depth, saved_symbol_stacks)
        BY <2>1, <2>2, <1>1, <1>6, <1>8, <1>10, StackTouch
    <2> QED
        BY <2>3, <1>1, <1>2, <1>4, <1>12 DEF Inv
<1>13. ASSUME ctl' = Front(c), err' \in Errs
       PROVE  Inv'
    <2>1. /\ Last(c).k # "call"
          /\ One(Last(c).k \in HeapKinds) \in Nat /\ One(Last(c).k \in DepthKinds) \in Nat
        BY <1>10 DEF LoopKinds, One
    <2>2. Last(c).base \in Nat /\ h >= Low(Last(c))
        BY <1>1, <1>6, <1>8, <1>10, <1>11, StackTop DEF FrameType
    <2>3. h >= Last(c).base
        BY <2>1, <2>2, <1>6 DEF Low, One
    <2>4. H >= H - One(Last(c).k \in HeapKinds) /\ call_depth >= call_depth - One(Last(c).k \in DepthKinds)
        BY <2>1, <1>1, <1>6
    <2>5. StackOK(Front(c), h, H, call_depth, saved_symbol_stacks)
        BY <2>1, <2>2, <2>3, <2>4, <1>1, <1>6, <1>8, <1>10, StackPop
    <2> QED
        BY <2>5, <1>1, <1>2, <1>4, <1>13 DEF Inv
<1>14. /\ "none" \in Errs /\ "exit" \in Phases
       /\ \A k, e : PhaseAfter(k, e) \in Phases
    BY DEF Errs, Phases, PhaseAfter
<1>15. \/ \E p \in Phases : ctl' = [c EXCEPT ![Len(ctl) - 1] = [loop EXCEPT !.ph = p]]
       \/ ctl' = Front(c)
    BY <1>14 DEF LeaveIteration, loop, c
<1>16. err' \in Errs
    BY <1>1, <1>14 DEF LeaveIteration
<1> QED
    BY <1>12, <1>13, <1>15, <1>16

LEMMA LoopsInv ==
    ASSUME Inv, Loops
    PROVE  Inv'
<1>1. /\ HeapOK /\ symbols \in Seq(ScopeType) /\ saved_symbol_stacks \in Seq(Seq(ScopeType))
      /\ call_depth \in Nat /\ err \in Errs
    BY InvFacts
<1>2. "error" \in Errs /\ "cond" \in Phases /\ "exit" \in Phases
    BY DEF Errs, Phases
<1>3. ASSUME NEW B \in Bindings, ForLoop(B)
      PROVE  Inv'
    BY <1>3, IterateInv DEF ForLoop, LoopKinds
<1>4. ASSUME WhileLoop \/ DoWhileLoop \/ CStyleFor
      PROVE  Inv'
    BY <1>4, IterateInv, NoBinding DEF WhileLoop, DoWhileLoop, CStyleFor, LoopKinds
\* A change of phase only.
<1>5. ASSUME NEW p \in Phases, ctl # << >>, SetPhase(p), Typed',
             UNCHANGED <<symbols, saved_symbol_stacks, call_depth>>,
             Len(scope_allocations') = Len(scope_allocations)
      PROVE  Inv'
    <2> DEFINE f == [Top EXCEPT !.ph = p]
    <2>1. Top \in FrameType
        BY <1>5, InvFacts
    <2>2. f \in FrameType /\ f.base = Top.base /\ f.k = Top.k
        BY <2>1 DEF FrameType
    <2>3. ctl' = [ctl EXCEPT ![Len(ctl)] = f]
        BY <1>5 DEF SetPhase, SetTop
    <2> HIDE DEF f
    <2> QED
        BY <2>2, <2>3, <1>5, TouchInv
<1>6. ASSUME MaybeGc
      PROVE  Inv'
    <2>1. /\ ctl # << >> /\ SetPhase("cond")
          /\ UNCHANGED <<symbols, saved_symbol_stacks, call_depth, err>>
          /\ collect_garbage(Roots) \/ UNCHANGED heapVars
        BY <1>6 DEF MaybeGc, Running
    <2>2. HeapOK' /\ Len(scope_allocations') = Len(scope_allocations)
        BY <2>1, <1>1, CollectHeap, HeapSame
    <2>3. Typed'
        BY <2>1, <2>2, <1>1 DEF Typed
    <2> QED
        BY <2>1, <2>2, <2>3, <1>2, <1>5
<1>7. ASSUME EndLoop
      PROVE  Inv'
    <2>1. /\ ctl # << >> /\ Top.k # "call" /\ ctl' = Front(ctl) /\ err' \in Errs
          /\ UNCHANGED <<heapVars, symbols, saved_symbol_stacks, call_depth>>
        BY <1>7, <1>1 DEF EndLoop, Running, Pop
    <2> QED
        BY <2>1, DropInv
<1>8. ASSUME LoopLimit
      PROVE  Inv'
    <2>1. /\ ctl # << >> /\ Top.k # "call" /\ err' \in Errs
          /\ UNCHANGED <<heapVars, symbols, saved_symbol_stacks, call_depth>>
          /\ SetPhase("exit") \/ ctl' = Front(ctl)
        BY <1>8, <1>2 DEF LoopLimit, Running, Pop, RaiseIn
    <2>2. Typed' /\ Len(scope_allocations') = Len(scope_allocations)
        BY <2>1, <1>1, SameTyped
    <2> QED
        BY <2>1, <2>2, <1>2, <1>5, DropInv
<1>9. ASSUME EndCStyleFor
      PROVE  Inv'
    <2>1. /\ ctl # << >> /\ Top.k = "cfor" /\ Leave /\ ctl' = Front(ctl)
          /\ UNCHANGED <<saved_symbol_stacks, call_depth, err>>
        BY <1>9 DEF EndCStyleFor, Running, Pop
    <2>2. Top.k \in HeapKinds \cap TableKinds /\ One(Top.k \in DepthKinds) = 0
        BY <2>1 DEF HeapKinds, TableKinds, DepthKinds, One
    <2>3. call_depth' >= call_depth - One(Top.k \in DepthKinds)
        BY <2>1, <2>2, <1>1
    <2> QED
        BY <2>1, <2>2, <2>3, <1>1, LeaveInv
<1>10. ASSUME HeadFails
       PROVE  Inv'
    <2>1. /\ ctl # << >> /\ Top.k # "call" /\ ctl' = Front(ctl) /\ err' \in Errs
          /\ UNCHANGED <<heapVars, symbols, saved_symbol_stacks, call_depth>>
        BY <1>10, <1>1 DEF HeadFails, Running, Pop
    <2> QED
        BY <2>1, DropInv
<1> QED
    BY <1>3, <1>4, <1>6, <1>7, <1>8, <1>9, <1>10, LeaveIterationInv DEF Loops

-----------------------------------------------------------------------------
LEMMA CallsInv ==
    ASSUME Inv, Calls
    PROVE  Inv'
<1>1. /\ HeapOK /\ symbols \in Seq(ScopeType) /\ symbols # << >>
      /\ saved_symbol_stacks \in Seq(Seq(ScopeType))
      /\ call_depth \in Nat /\ err \in Errs /\ scope_allocations # << >>
      /\ Len(symbols) \in Nat /\ Len(scope_allocations) \in Nat
      /\ StackOK(ctl, Len(symbols), Len(scope_allocations), call_depth, saved_symbol_stacks)
    BY InvFacts
<1>2. "error" \in Errs /\ "none" \in Errs /\ "run" \in Phases
    BY DEF Errs, Phases
<1>3. ASSUME NEW B \in Bindings, call_function(B)
      PROVE  Inv'
    <2>1. CASE Raise("error") /\ UNCHANGED <<heapVars, symbols, saved_symbol_stacks, call_depth, ctl>>
        <3>1. err' = "error"
            BY <2>1 DEF Raise, RaiseIn
        <3> QED
            BY <2>1, <3>1, <1>1, <1>2, SameTyped, StayInv
    <2>2. CASE /\ Open(<<Head(symbols), << >> >>, B, FALSE)
               /\ saved_symbol_stacks' = Append(saved_symbol_stacks, symbols)
               /\ call_depth' = call_depth + 1
               /\ Push(Frame("call", "run"))
               /\ UNCHANGED err
        <3> DEFINE f == Frame("call", "run")
                   base == <<Head(symbols), << >> >>
        <3>1. base \in Seq(ScopeType) /\ base # << >> /\ Len(base) = 2
            <4>1. Head(symbols) \in ScopeType
                BY <1>1
            <4> QED
                BY <4>1, EmptyScope
        <3>2. Open(base, B, FALSE)
            BY <2>2
        <3> HIDE DEF base
        <3>3. /\ HeapOK' /\ Len(scope_allocations') = Len(scope_allocations) + 1
              /\ symbols' \in Seq(ScopeType) /\ Len(symbols') = 2
            BY <3>1, <3>2, <1>1, OpenTyped
        <3>4. "call" \in Bodies \cup Heads
            BY DEF Bodies
        <3>5. f \in FrameType /\ f.k = "call" /\ f.base = Len(symbols)
            BY <3>4, <1>2, FrameTyped
        <3>6. ctl' = Append(ctl, f)
            BY <2>2 DEF Push
        <3> HIDE DEF f
        <3>7. StackOK(Append(ctl, f), 2, Len(scope_allocations) + 1, call_depth + 1,
                      Append(saved_symbol_stacks, symbols))
            BY <3>5, <1>1, StackCall
        <3>8. saved_symbol_stacks' \in Seq(Seq(ScopeType)) /\ call_depth' \in Nat /\ err' \in Errs
            BY <2>2, <1>1
        <3> QED
            BY <2>2, <3>3, <3>6, <3>7, <3>8 DEF Inv
    <2> QED
        BY <1>3, <2>1, <2>2 DEF call_function
<1>4. ASSUME LeaveCall
      PROVE  Inv'
    <2>1. /\ ctl # << >> /\ Top.k = "call" /\ ctl' = Front(ctl) /\ pop_scope
          /\ symbols' = Last(saved_symbol_stacks)
          /\ saved_symbol_stacks' = Front(saved_symbol_stacks)
          /\ call_depth' = call_depth - 1
        BY <1>4 DEF LeaveCall, AtEnd, Running, Pop
    <2>2. err' \in Errs
        BY <1>4, <1>1, <1>2 DEF LeaveCall
    <2>3. HeapOK' /\ Len(scope_allocations') = Len(scope_allocations) - 1
        BY <2>1, <1>1, PopHeap
    <2>4. /\ Len(scope_allocations) >= 2 /\ call_depth >= 1
          /\ symbols' \in Seq(ScopeType) /\ saved_symbol_stacks' \in Seq(Seq(ScopeType))
          /\ StackOK(ctl', Len(symbols'), Len(scope_allocations) - 1, call_depth - 1,
                     saved_symbol_stacks')
        BY <2>1, <1>1, StackReturn DEF Top
    <2>5. call_depth' \in Nat
        BY <2>1, <2>4, <1>1
    <2> QED
        BY <2>1, <2>2, <2>3, <2>4, <2>5 DEF Inv
<1>5. ASSUME NEW B \in Bindings, EnterMethod(B)
      PROVE  Inv'
    <2>1. CASE Raise("error") /\ UNCHANGED <<heapVars, symbols, call_depth, ctl>>
        <3>1. err' = "error" /\ UNCHANGED saved_symbol_stacks
            BY <1>5, <2>1 DEF Raise, RaiseIn, EnterMethod
        <3> QED
            BY <2>1, <3>1, <1>1, <1>2, SameTyped, StayInv
    <2>2. CASE /\ Enter(B, TRUE) /\ call_depth' = call_depth + 1
               /\ Push(Frame("margs", "run")) /\ UNCHANGED err
        <3>1. UNCHANGED saved_symbol_stacks /\ ctl' = Append(ctl, Frame("margs", "run"))
            BY <1>5, <2>2 DEF EnterMethod, Push
        <3>2. /\ "margs" \in Bodies \cup Heads /\ "margs" \in HeapKinds \cap TableKinds
              /\ One("margs" \in DepthKinds) = 1
            BY DEF Heads, HeapKinds, TableKinds, DepthKinds, One
        <3>3. call_depth' \in Nat /\ call_depth' >= call_depth + One("margs" \in DepthKinds)
            BY <2>2, <3>2, <1>1
        <3> QED
            BY <2>2, <3>1, <3>2, <3>3, <1>1, <1>2, EnterInv
    <2> QED
        BY <1>5, <2>1, <2>2 DEF EnterMethod
<1>6. ASSUME RunMethod
      PROVE  Inv'
    <2> DEFINE f == [Top EXCEPT !.k = "method"]
    <2>1. /\ ctl # << >> /\ Top.k = "margs" /\ ctl' = [ctl EXCEPT ![Len(ctl)] = f]
          /\ UNCHANGED <<heapVars, symbols, saved_symbol_stacks, call_depth, err>>
        BY <1>6 DEF RunMethod, Running, SetTop
    <2>2. Top \in FrameType /\ Top.base \in Nat /\ Len(symbols) >= Low(Top)
        BY <2>1, InvFacts
    <2>3. f \in FrameType /\ f.base = Top.base /\ f.k = "method"
        BY <2>2 DEF FrameType, Bodies
    <2> HIDE DEF f
    <2>4. /\ Typed' /\ Len(symbols') = Len(symbols)
          /\ Len(scope_allocations') = Len(scope_allocations)
        BY <2>1, <1>1, SameTyped
    <2>5. /\ One(f.k \in TableKinds) = 1 /\ One(Top.k \in HeapKinds) = 1
          /\ One(f.k \in HeapKinds) = 1 /\ One(Top.k \in DepthKinds) = 1
          /\ One(f.k \in DepthKinds) = 1
          /\ Low(Top) = Top.base + 1
        BY <2>1, <2>3 DEF One, Low, TableKinds, HeapKinds, DepthKinds, Bodies
    <2>6. /\ Len(symbols') >= Top.base + One(f.k \in TableKinds)
          /\ Len(scope_allocations') >=
                Len(scope_allocations) - One(Top.k \in HeapKinds) + One(f.k \in HeapKinds)
          /\ call_depth' >= call_depth - One(Top.k \in DepthKinds) + One(f.k \in DepthKinds)
        BY <2>1, <2>2, <2>4, <2>5, <1>1
    <2> QED
        BY <2>1, <2>3, <2>4, <2>6, BecomesInv
<1>7. ASSUME LeaveMethod
      PROVE  Inv'
    <2>1. /\ ctl # << >> /\ Top.k = "method" /\ ctl' = Front(ctl) /\ Leave
          /\ call_depth' = call_depth - 1 /\ UNCHANGED saved_symbol_stacks
        BY <1>7 DEF LeaveMethod, AtEnd, Running, Pop
    <2>2. err' \in Errs
        BY <1>7, <1>1, <1>2 DEF LeaveMethod
    <2>3. Top.k \in HeapKinds \cap TableKinds /\ One(Top.k \in DepthKinds) = 1
        BY <2>1 DEF HeapKinds, TableKinds, DepthKinds, One, Bodies
    <2>4. call_depth >= One(Top.k \in DepthKinds)
        BY <2>1, InvFacts
    <2>5. call_depth' \in Nat /\ call_depth' >= call_depth - One(Top.k \in DepthKinds)
        BY <2>1, <2>3, <2>4, <1>1
    <2> QED
        BY <2>1, <2>2, <2>3, <2>5, LeaveInv
<1> QED
    BY <1>3, <1>4, <1>5, <1>6, <1>7 DEF Calls

-----------------------------------------------------------------------------
\* try or catch closes its scope and another part of the statement follows.
LEMMA LeaveToInv ==
    ASSUME Inv, Leave, ctl # << >>, Top.k \in {"try", "catch"}, err' \in Errs,
           UNCHANGED <<saved_symbol_stacks, call_depth>>,
           NEW f \in FrameType, f.base = Top.base, f.k \in {"caught", "finish"},
           ctl' = [ctl EXCEPT ![Len(ctl)] = f]
    PROVE  Inv'
<1>1. /\ saved_symbol_stacks \in Seq(Seq(ScopeType)) /\ call_depth \in Nat
      /\ Len(symbols) \in Nat /\ Len(scope_allocations) \in Nat
      /\ Top.base \in Nat /\ Len(symbols) >= Low(Top)
    BY InvFacts
<1>2. /\ HeapOK' /\ Len(scope_allocations') = Len(scope_allocations) - 1
      /\ symbols' \in Seq(ScopeType) /\ Len(symbols') = Len(symbols) - 1
    BY LeaveTyped
<1>3. Typed'
    BY <1>1, <1>2 DEF Typed
<1>4. /\ One(f.k \in TableKinds) = 0 /\ One(Top.k \in HeapKinds) = 1
      /\ One(f.k \in HeapKinds) = 0 /\ One(Top.k \in DepthKinds) = 0
      /\ One(f.k \in DepthKinds) = 0
      /\ Low(Top) = Top.base + 1
    BY DEF One, Low, TableKinds, HeapKinds, DepthKinds, Bodies
<1>5. /\ Len(symbols') >= Top.base + One(f.k \in TableKinds)
      /\ Len(scope_allocations') >=
            Len(scope_allocations) - One(Top.k \in HeapKinds) + One(f.k \in HeapKinds)
      /\ call_depth' >= call_depth - One(Top.k \in DepthKinds) + One(f.k \in DepthKinds)
    BY <1>1, <1>2, <1>4
<1>6. Top.k # "call" /\ f.k \notin {"call", "iter"}
    OBVIOUS
<1> QED
    BY <1>3, <1>5, <1>6, BecomesInv

\* A part of the statement that opens a scope follows.
LEMMA EnterToInv ==
    ASSUME Inv, NEW B \in Bindings, NEW m \in BOOLEAN, Enter(B, m),
           ctl # << >>, Top.k \in {"caught", "finish"}, err' \in Errs,
           UNCHANGED <<saved_symbol_stacks, call_depth>>,
           NEW f \in FrameType, f.base = Top.base, f.k \in {"catch", "finally"},
           ctl' = [ctl EXCEPT ![Len(ctl)] = f]
    PROVE  Inv'
<1>1. /\ saved_symbol_stacks \in Seq(Seq(ScopeType)) /\ call_depth \in Nat
      /\ Len(symbols) \in Nat /\ Len(scope_allocations) \in Nat
      /\ Top.base \in Nat /\ Len(symbols) >= Low(Top)
    BY InvFacts
<1>2. /\ HeapOK' /\ Len(scope_allocations') = Len(scope_allocations) + 1
      /\ symbols' \in Seq(ScopeType) /\ Len(symbols') = Len(symbols) + 1
    BY EnterTyped
<1>3. Typed'
    BY <1>1, <1>2 DEF Typed
<1>4. /\ One(f.k \in TableKinds) = 1 /\ One(Top.k \in HeapKinds) = 0
      /\ One(f.k \in HeapKinds) = 1 /\ One(Top.k \in DepthKinds) = 0
      /\ One(f.k \in DepthKinds) = 0
    BY DEF One, TableKinds, HeapKinds, DepthKinds, Bodies
<1>5. Low(Top) = Top.base
    BY <1>1 DEF One, Low, TableKinds, Bodies
<1>6. /\ Len(symbols') >= Top.base + One(f.k \in TableKinds)
      /\ Len(scope_allocations') >=
            Len(scope_allocations) - One(Top.k \in HeapKinds) + One(f.k \in HeapKinds)
      /\ call_depth' >= call_depth - One(Top.k \in DepthKinds) + One(f.k \in DepthKinds)
    BY <1>1, <1>2, <1>4, <1>5
<1>7. Top.k # "call" /\ f.k \notin {"call", "iter"}
    OBVIOUS
<1> QED
    BY <1>3, <1>6, <1>7, BecomesInv

\* A deferred expression begins.
LEMMA RunDeferredInv ==
    ASSUME Inv, RunDeferred
    PROVE  Inv'
<1> DEFINE f == OneDeferredLess(Top)
           c == [ctl EXCEPT ![Len(ctl)] = f]
           g == [Frame("defer", "run") EXCEPT !.pend = err]
<1>1. /\ HeapOK /\ saved_symbol_stacks \in Seq(Seq(ScopeType)) /\ call_depth \in Nat
      /\ Len(symbols) \in Nat /\ Len(scope_allocations) \in Nat /\ err \in Errs
      /\ Len(symbols) >= 1 /\ ctl \in Seq(FrameType) /\ symbols \in Seq(ScopeType)
      /\ StackOK(ctl, Len(symbols), Len(scope_allocations), call_depth, saved_symbol_stacks)
    BY InvFacts
<1>2. /\ ctl # << >> /\ Top.dfr > 0 /\ err' = "none"
      /\ UNCHANGED <<heapVars, symbols, saved_symbol_stacks, call_depth>>
    BY DEF RunDeferred, Running
<1>3. ctl' = Append(c, g)
    BY DEF RunDeferred
<1>4. Top \in FrameType
    BY <1>2, InvFacts
<1>5. f \in FrameType /\ f.k = Top.k /\ f.base = Top.base
    <2> DEFINE n == Top.dfr - 1
    <2>1. n \in Nat /\ "leaving" \in Phases
        BY <1>2, <1>4 DEF FrameType, Phases
    <2>2. f = [Top EXCEPT !.dfr = n, !.ph = "leaving"]
        BY DEF OneDeferredLess
    <2> HIDE DEF n, f
    <2> QED
        BY <2>1, <2>2, <1>4 DEF FrameType
<1>6. g \in FrameType /\ g.k = "defer" /\ g.base = Len(symbols)
    BY <1>1 DEF Frame, FrameType, Heads, Phases
<1>7. One("defer" \in TableKinds) = 0 /\ One("defer" \in HeapKinds) = 0 /\ One("defer" \in DepthKinds) = 0
    BY DEF One, TableKinds, HeapKinds, DepthKinds, Bodies
<1>8. Low(g) = Len(symbols)
    BY <1>1, <1>6, <1>7 DEF Low
<1> HIDE DEF f, g
<1>9. /\ StackOK(c, Len(symbols), Len(scope_allocations), call_depth, saved_symbol_stacks)
      /\ c # << >>
    BY <1>1, <1>2, <1>5, StackTouch DEF Top
<1> HIDE DEF c
<1>10. /\ Len(symbols) >= Low(g) /\ g.k # "call" /\ g.k # "iter"
       /\ Len(scope_allocations) >= Len(scope_allocations) + One(g.k \in HeapKinds)
       /\ call_depth >= call_depth + One(g.k \in DepthKinds)
    BY <1>1, <1>6, <1>7, <1>8
<1>11. StackOK(Append(c, g), Len(symbols), Len(scope_allocations), call_depth,
               saved_symbol_stacks)
    BY <1>1, <1>6, <1>9, <1>10, StackPush
<1>12. err' \in Errs
    BY <1>2 DEF Errs
<1>13. Typed' /\ Len(symbols') = Len(symbols) /\ Len(scope_allocations') = Len(scope_allocations)
    BY <1>1, <1>2, <1>12, SameTyped
<1> QED
    BY <1>2, <1>3, <1>11, <1>13 DEF Inv, Typed

LEMMA BlocksInv ==
    ASSUME Inv, Blocks
    PROVE  Inv'
<1>1. /\ saved_symbol_stacks \in Seq(Seq(ScopeType)) /\ call_depth \in Nat /\ err \in Errs
    BY InvFacts
<1>2. "none" \in Errs /\ "run" \in Phases
    BY DEF Errs, Phases
\* The bodies that own a scope and no call depth.
<1>3. ASSUME NEW k \in {"block", "try", "catch", "finally"}
      PROVE  /\ k \in Bodies \cup Heads /\ k \in HeapKinds \cap TableKinds /\ k # "iter"
             /\ One(k \in DepthKinds) = 0
    BY DEF Bodies, HeapKinds, TableKinds, DepthKinds, One
<1>4. /\ call_depth >= call_depth - 0 /\ call_depth >= call_depth + 0
    BY <1>1
<1>5. ASSUME NEW B \in Bindings, EnterBlock(B)
      PROVE  Inv'
    <2>1. /\ Enter(B, FALSE) /\ ctl' = Append(ctl, Frame("block", "run"))
          /\ UNCHANGED <<saved_symbol_stacks, call_depth, err>>
        BY <1>5 DEF EnterBlock, Push
    <2> QED
        BY <2>1, <1>1, <1>2, <1>3, <1>4, EnterInv
<1>6. ASSUME EnterTry
      PROVE  Inv'
    <2>1. /\ Enter({}, FALSE) /\ ctl' = Append(ctl, Frame("try", "run"))
          /\ UNCHANGED <<saved_symbol_stacks, call_depth, err>>
        BY <1>6 DEF EnterTry, Push
    <2> QED
        BY <2>1, <1>1, <1>2, <1>3, <1>4, NoBinding, EnterInv
<1>7. ASSUME ctl # << >>, Top.k \in {"block", "try", "catch", "finally"}, Leave,
             ctl' = Front(ctl), UNCHANGED <<saved_symbol_stacks, call_depth>>, err' \in Errs
      PROVE  Inv'
    BY <1>7, <1>1, <1>3, <1>4, LeaveInv
<1>8. ASSUME LeaveBlock
      PROVE  Inv'
    BY <1>8, <1>7, <1>1 DEF LeaveBlock, AtEnd, Running, Pop
<1>9. ASSUME LeaveFinally
      PROVE  Inv'
    <2>1. ctl # << >> /\ Top.k = "finally" /\ Leave /\ ctl' = Front(ctl)
          /\ UNCHANGED <<saved_symbol_stacks, call_depth>>
          /\ err' = IF err = "none" THEN Top.pend ELSE err
        BY <1>9 DEF LeaveFinally, AtEnd, Running, Pop
    <2>2. Top \in FrameType
        BY <2>1, InvFacts
    <2>3. err' \in Errs
        BY <2>1, <2>2, <1>1 DEF FrameType
    <2> QED
        BY <2>1, <2>3, <1>7
<1>10. ASSUME EndDeferred
       PROVE  Inv'
    <2>1. /\ ctl # << >> /\ Top.k = "defer" /\ ctl' = Front(ctl) /\ err' = Top.pend
          /\ UNCHANGED <<heapVars, symbols, saved_symbol_stacks, call_depth>>
        BY <1>10 DEF EndDeferred, Running, Pop
    <2>2. Top \in FrameType
        BY <2>1, InvFacts
    <2>3. err' \in Errs
        BY <2>1, <2>2 DEF FrameType
    <2> QED
        BY <2>1, <2>3, DropInv
\* The end of try or catch.
<1>11. ASSUME ctl # << >>, Top.k \in {"try", "catch"}, Leave, Conclude,
              UNCHANGED <<saved_symbol_stacks, call_depth>>
       PROVE  Inv'
    <2> DEFINE f == [Top EXCEPT !.k = "finish", !.ph = "run", !.pend = err]
    <2>1. CASE ctl' = Front(ctl) /\ UNCHANGED err
        BY <2>1, <1>1, <1>7, <1>11
    <2>2. CASE ctl' = [ctl EXCEPT ![Len(ctl)] = f] /\ err' = "none"
        <3>1. Top \in FrameType
            BY <1>11, InvFacts
        <3>2. f \in FrameType /\ f.base = Top.base /\ f.k \in {"caught", "finish"}
            BY <3>1, <1>1, <1>2 DEF FrameType, Heads
        <3> HIDE DEF f
        <3> QED
            BY <2>2, <3>2, <1>2, <1>11, LeaveToInv
    <2> QED
        BY <2>1, <2>2, <1>11 DEF Conclude, Pop, SetTop
<1>12. ASSUME LeaveTry
       PROVE  Inv'
    <2> DEFINE f == [Top EXCEPT !.k = "caught", !.ph = "run"]
    <2>1. ctl # << >> /\ Top.k = "try" /\ Leave /\ UNCHANGED <<saved_symbol_stacks, call_depth>>
        BY <1>12 DEF LeaveTry, AtEnd, Running
    <2>2. CASE ctl' = [ctl EXCEPT ![Len(ctl)] = f] /\ err' = "none"
        <3>1. Top \in FrameType
            BY <2>1, InvFacts
        <3>2. f \in FrameType /\ f.base = Top.base /\ f.k \in {"caught", "finish"}
            BY <3>1, <1>2 DEF FrameType, Heads
        <3> HIDE DEF f
        <3> QED
            BY <2>1, <2>2, <3>2, <1>2, LeaveToInv
    <2> QED
        BY <2>1, <2>2, <1>11, <1>12 DEF LeaveTry, SetTop
<1>13. ASSUME LeaveCatch
       PROVE  Inv'
    BY <1>11, <1>13 DEF LeaveCatch, AtEnd, Running
<1>14. ASSUME NEW B \in Bindings, EnterCatch(B)
       PROVE  Inv'
    <2> DEFINE f == [Top EXCEPT !.k = "catch"]
    <2>1. /\ ctl # << >> /\ Top.k = "caught" /\ Enter(B, FALSE)
          /\ ctl' = [ctl EXCEPT ![Len(ctl)] = f]
          /\ UNCHANGED <<saved_symbol_stacks, call_depth, err>>
        BY <1>14 DEF EnterCatch, Running, SetTop
    <2>2. Top \in FrameType
        BY <2>1, InvFacts
    <2>3. f \in FrameType /\ f.base = Top.base /\ f.k \in {"catch", "finally"}
        BY <2>2 DEF FrameType, Bodies
    <2> HIDE DEF f
    <2> QED
        BY <2>1, <2>3, <1>1, EnterToInv
<1>15. ASSUME EnterFinally
       PROVE  Inv'
    <2> DEFINE f == [Top EXCEPT !.k = "finally"]
    <2>1. /\ ctl # << >> /\ Top.k = "finish" /\ Enter({}, FALSE)
          /\ ctl' = [ctl EXCEPT ![Len(ctl)] = f]
          /\ UNCHANGED <<saved_symbol_stacks, call_depth, err>>
        BY <1>15 DEF EnterFinally, Running, SetTop
    <2>2. Top \in FrameType
        BY <2>1, InvFacts
    <2>3. f \in FrameType /\ f.base = Top.base /\ f.k \in {"catch", "finally"}
        BY <2>2 DEF FrameType, Bodies
    <2> HIDE DEF f
    <2> QED
        BY <2>1, <2>3, <1>1, NoBinding, EnterToInv
<1> QED
    BY <1>5, <1>6, <1>8, <1>9, <1>10, <1>12, <1>13, <1>14, <1>15, RunDeferredInv DEF Blocks

-----------------------------------------------------------------------------
LEMMA PointersInv ==
    ASSUME Inv, Pointers
    PROVE  Inv'
<1>1. /\ HeapOK /\ symbols \in Seq(ScopeType) /\ saved_symbol_stacks \in Seq(Seq(ScopeType))
      /\ call_depth \in Nat /\ err \in Errs /\ symbols # << >> /\ scope_allocations # << >>
      /\ Len(symbols) \in Nat /\ Len(scope_allocations) \in Nat
    BY InvFacts
<1>2. ASSUME EnterUnsafe
      PROVE  Inv'
    <2> DEFINE base == Append(symbols, << >>)
    <2>1. /\ ctl' = Append(ctl, Frame("unsafe", "run"))
          /\ UNCHANGED <<saved_symbol_stacks, call_depth, err>>
        BY <1>2 DEF EnterUnsafe, Push
    <2>2. PICK a \in Candidates :
              /\ alloc(True, a, scope_allocations)
              /\ Define(base, Len(symbols) + 1, UnsafeContext, Entry(a, FALSE))
        BY <1>2 DEF EnterUnsafe
    <2>3. HeapOK' /\ a \in Nat /\ Len(scope_allocations') = Len(scope_allocations)
        BY <2>2, <1>1, AllocHere, ScopesAssumption
    <2>4. base \in Seq(ScopeType) /\ Len(symbols) + 1 \in DOMAIN base /\ Len(base) = Len(symbols) + 1
        BY <1>1, EmptyScope
    <2> HIDE DEF base
    <2>5. symbols' \in Seq(ScopeType) /\ Len(symbols') = Len(symbols) + 1
        BY <2>2, <2>3, <2>4, DefineTyped
    <2>6. Typed'
        BY <2>1, <2>3, <2>5, <1>1 DEF Typed
    <2>7. /\ "unsafe" \in Bodies \cup Heads /\ "run" \in Phases /\ "unsafe" \notin {"call", "iter"}
          /\ One("unsafe" \in TableKinds) = 1 /\ One("unsafe" \in HeapKinds) = 0
          /\ One("unsafe" \in DepthKinds) = 0
        BY DEF Bodies, Phases, One, TableKinds, HeapKinds, DepthKinds
    <2>8. /\ Len(symbols') >= Len(symbols) + One("unsafe" \in TableKinds)
          /\ Len(scope_allocations') >= Len(scope_allocations) + One("unsafe" \in HeapKinds)
          /\ call_depth' >= call_depth + One("unsafe" \in DepthKinds)
        BY <2>1, <2>3, <2>5, <2>7, <1>1
    <2> QED
        BY <2>1, <2>6, <2>7, <2>8, PushInv
<1>3. ASSUME LeaveUnsafe
      PROVE  Inv'
    <2>1. /\ ctl # << >> /\ Top.k = "unsafe" /\ ctl' = Front(ctl) /\ symbols' = Front(symbols)
          /\ err' = IF err = "return" THEN "none" ELSE err
          /\ UNCHANGED <<heapVars, saved_symbol_stacks, call_depth>>
        BY <1>3 DEF LeaveUnsafe, AtEnd, Running, Pop
    <2>2. err' \in Errs
        BY <2>1, <1>1 DEF Errs
    <2>3. HeapOK' /\ Len(scope_allocations') = Len(scope_allocations)
        BY <2>1, <1>1, HeapSame
    <2>4. symbols' \in Seq(ScopeType) /\ Len(symbols') = Len(symbols) - 1
        BY <2>1, <1>1, FrontAppend
    <2>5. Typed'
        BY <2>1, <2>2, <2>3, <2>4, <1>1 DEF Typed
    <2>6. Top.base \in Nat /\ Len(symbols) >= Low(Top)
        BY <2>1, InvFacts
    <2>7. /\ Low(Top) = Top.base + 1 /\ One(Top.k \in HeapKinds) = 0 /\ One(Top.k \in DepthKinds) = 0
        BY <2>1 DEF Low, One, TableKinds, HeapKinds, DepthKinds, Bodies
    <2>8. /\ Len(symbols') >= Top.base /\ Top.k # "call"
          /\ Len(scope_allocations') >= Len(scope_allocations) - One(Top.k \in HeapKinds)
          /\ call_depth' >= call_depth - One(Top.k \in DepthKinds)
        BY <2>1, <2>3, <2>4, <2>6, <2>7, <1>1
    <2> QED
        BY <2>1, <2>5, <2>8, PopInv
<1>4. ASSUME NEW v \in Vals, PtrNew(v)
      PROVE  Inv'
    <2>1. UNCHANGED scopeVars /\ \E a \in Candidates : alloc(v, a, scope_allocations)
        BY <1>4 DEF PtrNew
    <2>2. HeapOK' /\ Len(scope_allocations') = Len(scope_allocations)
        BY <2>1, <1>1, AllocHere
    <2>3. Typed'
        BY <2>1, <2>2, <1>1 DEF Typed, scopeVars
    <2> QED
        BY <2>1, <2>2, <2>3, StayInv DEF scopeVars
<1>5. ASSUME NEW v \in Vals, NEW a \in PtrAddrs, PtrWrite(a, v)
      PROVE  Inv'
    <2>1. UNCHANGED scopeVars /\ write(a, v) /\ a \in Nat
        BY <1>5, ScopesAssumption DEF PtrWrite
    <2>2. HeapOK' /\ Len(scope_allocations') = Len(scope_allocations)
        BY <2>1, <1>1, WriteHere
    <2>3. Typed'
        BY <2>1, <2>2, <1>1 DEF Typed, scopeVars
    <2> QED
        BY <2>1, <2>2, <2>3, StayInv DEF scopeVars
<1> QED
    BY <1>2, <1>3, <1>4, <1>5 DEF Pointers

-----------------------------------------------------------------------------
(* The theorems.                                                           *)

LEMMA InitInv == Init => Inv
<1> SUFFICES ASSUME Init PROVE Inv
    OBVIOUS
<1>1. HeapOK
    <2>1. IsFiniteSet(DOMAIN metadata)
        BY FS_EmptySet DEF Init, HeapInit
    <2>2. HeapTypeOK
        BY <2>1 DEF Init, HeapInit, HeapTypeOK, HEAP_BASE
    <2>3. NoDoubleFree /\ OwnedOnce /\ DOMAIN metadata \subseteq DOMAIN values
        BY DEF Init, HeapInit, NoDoubleFree, OwnedOnce, FreeAddrs
    <2> QED
        BY <2>2, <2>3 DEF HeapOK, HeapInv
<1>2. symbols \in Seq(ScopeType) /\ Len(symbols) = 1
    BY EmptyScope DEF Init
<1>3. /\ saved_symbol_stacks = << >> /\ call_depth = 0 /\ ctl = << >> /\ err \in Errs
      /\ Len(scope_allocations) = 1
    BY DEF Init, HeapInit, Errs
<1>4. StackOK(<< >>, 1, 1, 0, << >>)
    <2>1. Chained(<< >>, 1)
        BY DEF Chained, Height
    <2>2. Linked(<< >>, << >>)
        <3>1. << >> \in [DOMAIN << >> -> DOMAIN << >> \cup {0}] /\ Links(<< >>, << >>, << >>)
            BY DEF Links
        <3> QED
            BY <3>1 DEF Linked
    <2>3. IterOK(<< >>)
        BY DEF IterOK
    <2>4. Cnt(<< >>, HeapKinds) = 0 /\ Cnt(<< >>, DepthKinds) = 0
        <3>1. ASSUME NEW ks
              PROVE  {i \in DOMAIN << >> : << >>[i].k \in ks} = {}
            OBVIOUS
        <3> QED
            BY <3>1, FS_EmptySet DEF Cnt
    <2> QED
        BY <2>1, <2>2, <2>3, <2>4 DEF StackOK
<1> QED
    BY <1>1, <1>2, <1>3, <1>4 DEF Inv

\* Every step preserves the invariant: one lemma per group of actions.
LEMMA NextInv ==
    ASSUME Inv, [Next]_vars
    PROVE  Inv'
<1>1. CASE Next
    <2>1. CASE NextTopLevel
        <3>1. err' \in Errs /\ UNCHANGED <<heapVars, symbols, saved_symbol_stacks, call_depth, ctl>>
            BY <2>1 DEF NextTopLevel, Errs
        <3>2. call_depth \in Nat
            BY InvFacts
        <3> QED
            BY <3>1, <3>2, SameTyped, StayInv
    <2> QED
        BY <1>1, <2>1, StatementInv, LoopsInv, CallsInv, BlocksInv, PointersInv DEF Next
<1>2. CASE UNCHANGED vars
    <2>1. UNCHANGED <<heapVars, symbols, saved_symbol_stacks, call_depth, ctl, err>>
        BY <1>2 DEF vars, scopeVars
    <2>2. call_depth \in Nat /\ err \in Errs
        BY InvFacts
    <2> QED
        BY <2>1, <2>2, SameTyped, StayInv
<1> QED
    BY <1>1, <1>2

\* Every saved stack has a table: that of a call, which began with at least one,
\* or one below them.
LEMMA SavedNonempty ==
    ASSUME Inv, NEW i \in DOMAIN saved_symbol_stacks
    PROVE  saved_symbol_stacks[i] # << >>
<1>1. /\ ctl \in Seq(FrameType) /\ saved_symbol_stacks \in Seq(Seq(ScopeType))
      /\ Chained(ctl, Len(symbols)) /\ Linked(ctl, saved_symbol_stacks)
    BY InvFacts DEF StackOK
<1>2. PICK idx \in [DOMAIN saved_symbol_stacks -> DOMAIN ctl \cup {0}] :
          Links(idx, ctl, saved_symbol_stacks)
    BY <1>1 DEF Linked
<1>0. CASE idx[i] = 0
    <2>1. Len(saved_symbol_stacks[i]) >= 1
        BY <1>0, <1>2 DEF Links
    <2> QED
        BY <2>1
<1> SUFFICES ASSUME idx[i] # 0
             PROVE  saved_symbol_stacks[i] # << >>
    BY <1>0
<1>3. Len(saved_symbol_stacks[i]) = ctl[idx[i]].base
    BY <1>2 DEF Links
<1> DEFINE p == idx[i]
<1>4. p \in 1..Len(ctl) /\ Len(ctl) \in Nat
    BY <1>1, <1>2
<1> HIDE DEF p
<1>5. p - 1 \in 0..Len(ctl) /\ p - 1 # Len(ctl) /\ (p - 1) + 1 = p
    BY <1>4
<1>6. Height(ctl, Len(symbols), p - 1) = ctl[p].base
    BY <1>5 DEF Height
<1>7. ctl[p].base >= 1
    BY <1>1, <1>5, <1>6 DEF Chained
<1>8. Len(saved_symbol_stacks[i]) >= 1
    BY <1>3, <1>7 DEF p
<1> QED
    BY <1>8

LEMMA TablesTyped ==
    ASSUME NEW t \in Seq(ScopeType), t # << >>
    PROVE  IsTable(t)
<1>1. DOMAIN t = 1..Len(t) /\ \A i \in DOMAIN t : t[i] \in ScopeType
    OBVIOUS
<1>2. t \in Seq(Range(t))
    BY <1>1 DEF Range
<1>3. ASSUME NEW i \in DOMAIN t
      PROVE  IsScope(t[i])
    <2>1. PICK D \in SUBSET (Names \cup {UnsafeContext}) : t[i] \in [D -> EntryType]
        BY <1>1, <1>3 DEF ScopeType
    <2>2. DOMAIN t[i] = D
        BY <2>1
    <2> QED
        BY <2>1, <2>2 DEF IsScope, EntryType
<1> QED
    BY <1>2, <1>3 DEF IsTable

LEMMA InvTypeOK == Inv => TypeOK
<1> SUFFICES ASSUME Inv PROVE TypeOK
    OBVIOUS
<1>1. /\ HeapOK /\ symbols \in Seq(ScopeType) /\ symbols # << >> /\ scope_allocations # << >>
      /\ saved_symbol_stacks \in Seq(Seq(ScopeType))
      /\ call_depth \in Nat /\ err \in Errs /\ ctl \in Seq(FrameType)
    BY InvFacts
<1>2. saved_symbol_stacks \in Seq(Range(saved_symbol_stacks))
    BY <1>1 DEF Range
<1>3. ASSUME NEW t \in Tables
      PROVE  IsTable(t)
    <2>1. t = symbols \/ \E i \in DOMAIN saved_symbol_stacks : t = saved_symbol_stacks[i]
        BY <1>3 DEF Tables, Range
    <2>2. t \in Seq(ScopeType) /\ t # << >>
        BY <2>1, <1>1, SavedNonempty
    <2> QED
        BY <2>2, TablesTyped
<1> QED
    BY <1>1, <1>2, <1>3 DEF TypeOK, HeapOK, HeapInv

\* The invariant holds throughout every behaviour of the interpreter.
THEOREM Invariant == Spec => []Inv
<1>1. Init => Inv
    BY InitInv
<1>2. Inv /\ [Next]_vars => Inv'
    BY NextInv
<1> QED
    BY <1>1, <1>2, PTL DEF Spec

\* Type correctness: whatever the program does, every scope that exists can be
\* popped when it is left, a call always finds the stack it saved, and call_depth
\* never goes below zero (call_function, exec_block and the `?` of every head).
THEOREM TypeCorrect == Spec => []TypeOK
<1>1. Inv => TypeOK
    BY InvTypeOK
<1> QED
    BY <1>1, Invariant, PTL

\* No address is in the free list twice, or free and in use (Heap::alloc,
\* pop_scope, compact_free_list and collect_garbage under every program).
THEOREM AddressesUnique == Spec => []NoDoubleFree
<1>1. Inv => NoDoubleFree
    BY DEF Inv, HeapOK, HeapInv
<1> QED
    BY <1>1, Invariant, PTL

\* Every allocated block belongs to exactly one open scope, also after errors,
\* signals and collections (scope_allocations against metadata).
THEOREM OwnersUnique == Spec => []OwnedOnce
<1>1. Inv => OwnedOnce
    BY DEF Inv, HeapOK
<1> QED
    BY <1>1, Invariant, PTL
=============================================================================
