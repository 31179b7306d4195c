-------------------------------- MODULE Heap --------------------------------
(***************************************************************************)
(* The interpreter's virtual heap (struct Heap, src/src/syntax/            *)
(* interpreter.rs 416-594): a bump allocator with a first-fit free list,   *)
(* one set of owned addresses per scope, and a sweep that the interpreter  *)
(* calls with the addresses its symbol tables name.  No byte is ever       *)
(* stored at an address: an address is the key of two maps, `values` and   *)
(* `metadata`, and a block's size only decides which request it can serve. *)
(*                                                                         *)
(* The operators below are the heap's methods; module Scopes says when the *)
(* interpreter calls them.                                                 *)
(***************************************************************************)
EXTENDS Integers, Sequences, FiniteSets, Functions, SequencesExt

CONSTANTS
    Vals,                         \* run-time values: [kind, len] records
    GC_ALLOC_THRESHOLD,           \* 256 in the code
    FREE_LIST_COMPACT_THRESHOLD,  \* 64 in the code
    MaxAddr                       \* bound of the model: no bump beyond it

\* The variants of DataType that size_of tells apart.
Kinds == {"Null", "Bool", "Int32", "Int64", "String", "Array", "Map", "Future", "Struct"}

ASSUME HeapAssumption ==
    /\ Vals \subseteq [kind : Kinds, len : Nat]
    /\ GC_ALLOC_THRESHOLD \in Nat
    /\ FREE_LIST_COMPACT_THRESHOLD \in Nat
    /\ MaxAddr \in Nat

HEAP_BASE == 65536
ALIGNMENT == 8

VARIABLES
    values,     \* address -> value (HashMap<MemAddr, DataType>)
    metadata,   \* address -> size  (HashMap<MemAddr, AllocMeta>)
    next_addr,  \* the bump pointer
    free_list,  \* Vec<(MemAddr, u64)>, searched first-fit from the front
    scope_allocations,  \* stack of the addresses each scope owns
    allocs_since_gc     \* saturates at the threshold it is compared with

heapVars == <<values, metadata, next_addr, free_list, scope_allocations, allocs_since_gc>>

Block(a, s) == [addr |-> a, size |-> s]

-----------------------------------------------------------------------------
(* Sizes.                                                                  *)

RawSize(v) ==
    CASE v.kind = "Null" -> 0
      [] v.kind = "Bool" -> 1
      [] v.kind = "Int32" -> 4
      [] v.kind = "Int64" -> 8
      [] v.kind = "String" -> 8 + v.len
      [] v.kind = "Array" -> 8 + 8 * v.len
      [] v.kind = "Map" -> 8 + 16 * v.len
      [] v.kind = "Future" -> 16
      [] v.kind = "Struct" -> 8

\* size_of rounds up to the alignment; its callers take at least one unit.
size_of(v) ==
    LET aligned == ((RawSize(v) + ALIGNMENT - 1) \div ALIGNMENT) * ALIGNMENT
    IN  IF aligned < ALIGNMENT THEN ALIGNMENT ELSE aligned

-----------------------------------------------------------------------------
(* The free list.                                                          *)

FreeAddrs(f) == {f[i].addr : i \in DOMAIN f}

\* Every order in which the blocks of a set of addresses can be pushed: the
\* sweep walks a HashMap, and a scope's own order is left open as well.
Orders(S) == {[i \in DOMAIN o |-> Block(o[i], metadata[o[i]])] :
                 o \in Injection(1..Cardinality(S), S)}

\* Block b starts a run when the block before it in address order does not
\* end where b begins.
StartsRun(B, b) ==
    \A p \in B : \/ p.addr >= b.addr
                 \/ p.addr + p.size # b.addr
                 \/ \E q \in B : p.addr < q.addr /\ q.addr < b.addr

\* Block l is the last one of the run that block b starts.
EndsRun(B, b, l) ==
    /\ b.addr <= l.addr
    /\ \A q \in B : b.addr < q.addr /\ q.addr <= l.addr => ~StartsRun(B, q)
    /\ \A q \in B : l.addr < q.addr =>
            \E s \in B : StartsRun(B, s) /\ l.addr < s.addr /\ s.addr <= q.addr

\* Wrong variant: the merged blocks are added to the list, not put in place of
\* the blocks they are made of.
CoalescedKeepsParts(B) ==
    B \cup {Block(r[1].addr, r[2].addr + r[2].size - r[1].addr) :
        r \in {p \in B \X B : StartsRun(B, p[1]) /\ EndsRun(B, p[1], p[2])}}

\* compact_free_list: sort by address, merge each run into one block.
Coalesced(B) ==
    {Block(r[1].addr, r[2].addr + r[2].size - r[1].addr) :
        r \in {p \in B \X B : StartsRun(B, p[1]) /\ EndsRun(B, p[1], p[2])}}

SortedByAddr(B) ==
    {t \in [1..Cardinality(B) -> B] :
        \A i, j \in DOMAIN t : i < j => t[i].addr <= t[j].addr /\ t[i] # t[j]}

compact_free_list(f) == IF Len(f) <= 1 THEN {f} ELSE SortedByAddr(Coalesced(Range(f)))

-----------------------------------------------------------------------------
(* The heap's methods.                                                     *)

\* Positions of the free list that can serve a request, and the first of them.
Fits(size) == {i \in DOMAIN free_list : free_list[i].size >= size}
FirstFit(i, size) == i \in Fits(size) /\ \A j \in Fits(size) : i <= j

\* The addresses an allocation may return; alloc says which one it does.
Candidates == {next_addr} \cup FreeAddrs(free_list)

\* Wrong variant: the block stays in the free list.
allocKeepsFree(v, a, scopes) ==
    /\ \/ \E i \in DOMAIN free_list :
            /\ FirstFit(i, size_of(v))
            /\ a = free_list[i].addr
            /\ free_list' = free_list
            /\ next_addr' = next_addr
       \/ /\ Fits(size_of(v)) = {}
          /\ a = next_addr
          /\ next_addr + size_of(v) <= MaxAddr
          /\ next_addr' = next_addr + size_of(v)
          /\ free_list' = free_list
    /\ values' = [x \in DOMAIN values \cup {a} |-> IF x = a THEN v ELSE values[x]]
    /\ metadata' = [x \in DOMAIN metadata \cup {a} |->
                        IF x = a THEN size_of(v) ELSE metadata[x]]
    /\ scope_allocations' = [scopes EXCEPT ![Len(scopes)] = @ \cup {a}]
    /\ allocs_since_gc' = IF allocs_since_gc < GC_ALLOC_THRESHOLD
                          THEN allocs_since_gc + 1 ELSE allocs_since_gc

\* alloc(v) returns address a and gives it to the last scope of `scopes`.
alloc(v, a, scopes) ==
    /\ \/ \E i \in DOMAIN free_list :
            /\ FirstFit(i, size_of(v))
            /\ a = free_list[i].addr
            /\ free_list' = RemoveAt(free_list, i)
            /\ next_addr' = next_addr
       \/ /\ Fits(size_of(v)) = {}
          /\ a = next_addr
          /\ next_addr + size_of(v) <= MaxAddr
          /\ next_addr' = next_addr + size_of(v)
          /\ free_list' = free_list
    /\ values' = [x \in DOMAIN values \cup {a} |-> IF x = a THEN v ELSE values[x]]
    /\ metadata' = [x \in DOMAIN metadata \cup {a} |->
                        IF x = a THEN size_of(v) ELSE metadata[x]]
    /\ scope_allocations' = [scopes EXCEPT ![Len(scopes)] = @ \cup {a}]
    /\ allocs_since_gc' = IF allocs_since_gc < GC_ALLOC_THRESHOLD
                          THEN allocs_since_gc + 1 ELSE allocs_since_gc

\* write: any address is accepted; the recorded size follows the new value.
write(a, v) ==
    /\ values' = [x \in DOMAIN values \cup {a} |-> IF x = a THEN v ELSE values[x]]
    /\ metadata' = [x \in DOMAIN metadata |-> IF x = a THEN size_of(v) ELSE metadata[x]]
    /\ UNCHANGED <<next_addr, free_list, scope_allocations, allocs_since_gc>>

push_scope ==
    /\ scope_allocations' = Append(scope_allocations, {})
    /\ UNCHANGED <<values, metadata, next_addr, free_list, allocs_since_gc>>

\* pop_scope frees what the scope still owns, then compacts a long list.
pop_scope ==
    LET freed == Last(scope_allocations) \cap DOMAIN metadata IN
    /\ scope_allocations' = Front(scope_allocations)
    /\ values' = Restrict(values, DOMAIN values \ freed)
    /\ metadata' = Restrict(metadata, DOMAIN metadata \ freed)
    /\ \E o \in Orders(freed) :
          LET f == free_list \o o IN
          IF Len(f) > FREE_LIST_COMPACT_THRESHOLD
          THEN free_list' \in compact_free_list(f)
          ELSE free_list' = f
    /\ UNCHANGED <<next_addr, allocs_since_gc>>

\* Wrong variant: a scope keeps the addresses that were swept.
collect_garbageForgetsScopes(roots) ==
    LET swept == DOMAIN values \ roots IN
    /\ values' = Restrict(values, DOMAIN values \ swept)
    /\ metadata' = Restrict(metadata, DOMAIN metadata \ swept)
    /\ \E o \in Orders(swept \cap DOMAIN metadata) : free_list' = free_list \o o
    /\ allocs_since_gc' = 0
    /\ UNCHANGED <<next_addr, scope_allocations>>

\* collect_garbage sweeps every value whose address is not a root.
collect_garbage(roots) ==
    LET swept == DOMAIN values \ roots IN
    /\ values' = Restrict(values, DOMAIN values \ swept)
    /\ metadata' = Restrict(metadata, DOMAIN metadata \ swept)
    /\ \E o \in Orders(swept \cap DOMAIN metadata) : free_list' = free_list \o o
    /\ scope_allocations' = [i \in DOMAIN scope_allocations |-> scope_allocations[i] \cap roots]
    /\ allocs_since_gc' = 0
    /\ UNCHANGED next_addr

should_gc == allocs_since_gc >= GC_ALLOC_THRESHOLD

HeapInit ==
    /\ values = << >>
    /\ metadata = << >>
    /\ next_addr = HEAP_BASE
    /\ free_list = << >>
    /\ scope_allocations = <<{}>>
    /\ allocs_since_gc = 0

-----------------------------------------------------------------------------
(* What the heap promises its callers.                                     *)

HeapTypeOK ==
    /\ values \in [DOMAIN values -> Vals]
    /\ DOMAIN values \subseteq Nat
    /\ metadata \in [DOMAIN metadata -> Nat]
    /\ DOMAIN metadata \subseteq Nat
    /\ IsFiniteSet(DOMAIN metadata)
    /\ next_addr \in Nat
    /\ free_list \in Seq([addr : Nat, size : Int])
    /\ scope_allocations \in Seq(SUBSET Nat)
    /\ allocs_since_gc \in Nat

\* An address is handed out once: it is not twice in the free list, not in the
\* free list while allocated, and the bump pointer is beyond all of them
\* (alloc, collect_garbage, pop_scope and compact_free_list between them).
NoDoubleFree ==
    /\ \A i, j \in DOMAIN free_list :
            free_list[i].addr = free_list[j].addr => i = j
    /\ FreeAddrs(free_list) \cap DOMAIN metadata = {}
    /\ \A a \in FreeAddrs(free_list) \cup DOMAIN metadata : a < next_addr

\* Every allocated address belongs to exactly one open scope, so the pop of
\* that scope frees it, once (scope_allocations against metadata).
OwnedOnce ==
    /\ \A a \in DOMAIN metadata :
            \E i \in DOMAIN scope_allocations : a \in scope_allocations[i]
    /\ \A i, j \in DOMAIN scope_allocations :
            i # j => scope_allocations[i] \cap scope_allocations[j] = {}
    /\ \A i \in DOMAIN scope_allocations : scope_allocations[i] \subseteq DOMAIN metadata
=============================================================================
