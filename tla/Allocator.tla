----------------------------- MODULE Allocator -----------------------------
(***************************************************************************)
(* allocator.c: a first-fit heap whose blocks are linked through headers   *)
(* in the heap itself.  Addresses are relative to heap_start.  A client    *)
(* frees only what kmalloc gave it and what it has not freed yet.          *)
(***************************************************************************)
EXTENDS Integers, FiniteSets

CONSTANTS
  HeapSize,    \* bytes of the heap
  Header,      \* BLOCK_HEADER_SIZE
  MinBlock,    \* MIN_BLOCK_SIZE
  Align,       \* 4 in the code
  WordMod,     \* number of values of size (2^32 in the code)
  MaxRequest   \* largest size a client asks for

ASSUME AllocatorAssumption ==
  /\ Align \in Nat \ {0}
  /\ \A n \in {HeapSize, Header, MinBlock, WordMod} : n \in Nat \ {0} /\ n % Align = 0
  /\ Header + MinBlock <= HeapSize /\ HeapSize < WordMod
  /\ MaxRequest \in 0..(WordMod - 1)

VARIABLES
  mem,          \* the header stored at an address, for every address that
                \* holds or held one
  used_memory,
  owned         \* the pointers clients hold, with the size they asked for

vars == << mem, used_memory, owned >>

Addr == 0..(HeapSize - 1)
NULL == -1
first_block == 0

Headers ==
  [size : 0..HeapSize, is_free : BOOLEAN, next : Addr \cup {NULL}, prev : Addr \cup {NULL}]
NoHeader == [size |-> 0, is_free |-> FALSE, next |-> NULL, prev |-> NULL]

TypeOK ==
  /\ mem \in [Addr -> Headers]
  /\ used_memory \in 0..HeapSize
  /\ owned \subseteq [ptr : Addr, asked : 1..MaxRequest]

\* allocator_init
Init ==
  /\ mem = [a \in Addr |->
             IF a = first_block
             THEN [size |-> HeapSize - Header, is_free |-> TRUE,
                   next |-> NULL, prev |-> NULL]
             ELSE NoHeader]
  /\ used_memory = 0
  /\ owned = {}

----------------------------------------------------------------------------
\* The k-th block that kmalloc's search visits, from 0; NULL after the last.
Block(m, k) ==
  LET walk[i \in 0..k] ==
        IF i = 0 THEN first_block
        ELSE IF walk[i - 1] = NULL THEN NULL ELSE m[walk[i - 1]].next
  IN walk[k]

\* No list of blocks is longer than this.
MaxBlocks == HeapSize \div Header
List == {Block(mem, k) : k \in 0..MaxBlocks} \ {NULL}

\* size + 3 in a machine word, then the low bits are cleared.
RoundUp(n) ==
  LET s == (n + Align - 1) % WordMod IN s - (s % Align)

\* Block b is cut after n bytes; the rest becomes a free block behind it.
Cut(m, b, n) ==
  LET new == b + Header + n
      nxt == m[b].next
      t == [m EXCEPT ![new] = [size |-> m[b].size - n - Header, is_free |-> TRUE,
                               next |-> nxt, prev |-> b],
                     ![b].size = n,
                     ![b].next = new]
  IN IF nxt = NULL THEN t ELSE [t EXCEPT ![nxt].prev = new]

\* Faulty variant: the block after the new one keeps its prev.
split_block_stale_prev(m, b, n) ==
  IF m[b].size < n + Header + MinBlock THEN m
  ELSE [a \in Addr |-> IF a = m[b].next THEN m[a] ELSE Cut(m, b, n)[a]]

split_block(m, b, n) ==
  IF m[b].size < n + Header + MinBlock THEN m ELSE Cut(m, b, n)

\* Block b takes in the free block after it.
Absorb(m, b) ==
  LET nxt == m[b].next
      t == [m EXCEPT ![b].size = @ + Header + m[nxt].size, ![b].next = m[nxt].next]
  IN IF m[nxt].next = NULL THEN t ELSE [t EXCEPT ![m[nxt].next].prev = b]

\* Faulty variant: only the block after the freed one is looked at.
merge_forward_only(m, b) ==
  IF m[b].next # NULL /\ m[m[b].next].is_free THEN Absorb(m, b) ELSE m

\* First the block after b, then b itself into the block before it.
merge_blocks(m, b) ==
  LET f == IF m[b].next # NULL /\ m[m[b].next].is_free THEN Absorb(m, b) ELSE m
  IN IF f[b].prev # NULL /\ f[f[b].prev].is_free THEN Absorb(f, f[b].prev) ELSE f

Fits(m, b, n) == b # NULL /\ m[b].is_free /\ m[b].size >= n

\* Faulty variant: the block is not marked.
kmalloc_unmarked(n) ==
  /\ n # 0
  /\ \E k \in 0..MaxBlocks :
       LET b == Block(mem, k)
           m == split_block(mem, b, RoundUp(n))
       IN /\ Fits(mem, b, RoundUp(n))
          /\ \A j \in 0..(k - 1) : ~ Fits(mem, Block(mem, j), RoundUp(n))
          /\ mem' = m
          /\ used_memory' = used_memory + m[b].size + Header
          /\ owned' = owned \cup {[ptr |-> b + Header, asked |-> n]}

\* A request that is 0 or finds no block returns NULL and changes nothing.
kmalloc(n) ==
  /\ n # 0
  /\ \E k \in 0..MaxBlocks :
       LET b == Block(mem, k)
           m == split_block(mem, b, RoundUp(n))
       IN /\ Fits(mem, b, RoundUp(n))
          /\ \A j \in 0..(k - 1) : ~ Fits(mem, Block(mem, j), RoundUp(n))
          /\ mem' = [m EXCEPT ![b].is_free = FALSE]
          /\ used_memory' = used_memory + m[b].size + Header
          /\ owned' = owned \cup {[ptr |-> b + Header, asked |-> n]}

\* Faulty variant: the header is not counted back.
kfree_drops_header(o) ==
  LET b == o.ptr - Header
  IN /\ mem' = merge_blocks([mem EXCEPT ![b].is_free = TRUE], b)
     /\ used_memory' = IF mem[b].is_free THEN used_memory ELSE used_memory - mem[b].size
     /\ owned' = owned \ {o}

kfree(o) ==
  LET b == o.ptr - Header
  IN /\ mem' = merge_blocks([mem EXCEPT ![b].is_free = TRUE], b)
     /\ used_memory' = IF mem[b].is_free THEN used_memory
                       ELSE used_memory - (mem[b].size + Header)
     /\ owned' = owned \ {o}

Next ==
  \/ \E n \in 0..MaxRequest : kmalloc(n)
  \/ \E o \in owned : kfree(o)

Spec == Init /\ [][Next]_vars

----------------------------------------------------------------------------
EndOf(b) == b + Header + mem[b].size

\* The blocks of the list cover the heap without gap or overlap, in address
\* order, and prev undoes next, whatever splits and merges have happened.
Tiled ==
  \A b \in List :
    /\ IF mem[b].next = NULL THEN EndOf(b) = HeapSize ELSE mem[b].next = EndOf(b)
    /\ mem[b].next # NULL => mem[mem[b].next].prev = b
    /\ b = first_block => mem[b].prev = NULL

\* kfree leaves no two free neighbours, so a request fails only if no free
\* stretch of the heap is long enough for it.
Coalesced ==
  \A b \in List : mem[b].is_free /\ mem[b].next # NULL => ~ mem[mem[b].next].is_free

\* The bytes of the blocks in use, headers included.
InUse ==
  {a \in Addr : \E b \in List : ~ mem[b].is_free /\ b <= a /\ a < EndOf(b)}

\* used_memory is the number of bytes in use: kmalloc and kfree agree on the
\* size of a block although splits and merges change sizes.
UsedIsExact == used_memory = Cardinality(InUse)

\* Each pointer a client holds is a block of its own, marked in use and never
\* smaller than what the client asked for, and no other block is marked; with
\* Tiled, no two clients share memory.
OwnedAreUsed ==
  /\ {o.ptr - Header : o \in owned} = {b \in List : ~ mem[b].is_free}
  /\ \A o \in owned : mem[o.ptr - Header].size >= o.asked
  /\ \A o, p \in owned : o.ptr = p.ptr => o = p
=============================================================================
