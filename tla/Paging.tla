------------------------------- MODULE Paging -------------------------------
(***************************************************************************)
(* paging.c.  Stage 07 builds page tables with map_page and unmap_page and *)
(* turns paging on; from stage 12 on paging.c hands out physical pages     *)
(* (PhysicalPages) and address spaces that translate nothing.  A run is of *)
(* the stage chosen at the start.  Of the processes of stage 12 only the   *)
(* memory is here; their queue and tree are in ForkScheduler.              *)
(*                                                                         *)
(* An address of stage 07 is counted in units of BLOCK_HEADER_SIZE bytes;  *)
(* a virtual page is a pair of indices.  Tables are in memory the heap     *)
(* gave out, and the program reaches them through the translation itself.  *)
(***************************************************************************)
EXTENDS PhysicalPages

CONSTANTS
  PAGE_SIZE,      \* units in a page
  Entries,        \* entries of a directory or a table: 1024 in the code
  HeapStart,      \* first page of the heap: 0x100000 / PAGE_SIZE
  HeapUnits,      \* units of the heap
  ClientPages,    \* virtual pages that callers map and unmap
  ClientFrames,   \* frames they map them to
  Blocks          \* blocks of the heap of stage 12, with the kernel's two

ASSUME PagingAssumption ==
  /\ {PAGE_SIZE, Entries, HeapStart, HeapUnits} \subseteq Nat \ {0}
  /\ HeapStart * PAGE_SIZE + HeapUnits <= Entries * PAGE_SIZE
  /\ Blocks \in Nat \ {0, 1}

VARIABLES
  stage,
  \* stage 07
  mem,              \* mem[f][i]: entry i of frame f
  heap_top,         \* where the heap's one free block begins
  page_directory,   \* page_directory_phys / PAGE_SIZE
  paging_on,        \* CR3 loaded and CR0.PG set
  tlb,              \* the translations the CPU has cached
  asked,            \* history: the frame each page should be at
  tables,           \* history: frame of each table, block it was cut from
  starved,          \* history: kmalloc gave map_page no table
  \* stage 12
  blocks,           \* blocks of the heap that are in use
  owners,           \* who holds them: the kernel's space, and each process
  current_space

tableVars == << mem, heap_top, page_directory, paging_on, tlb, asked, tables, starved >>
spaceVars == << blocks, owners, current_space >>
pagingVars == << vars, stage, tableVars, spaceVars >>

----------------------------------------------------------------------------
\* Stage 07.

None == -1            \* an entry without PAGE_PRESENT
NULL == 0
Idx == 0..(Entries - 1)
VPages == Idx \X Idx
Empty == [i \in Idx |-> None]

\* What is taken at one go: the memory and the heap.
Machine == [mem |-> mem, top |-> heap_top, tables |-> tables, starved |-> starved]

HeapEnd == HeapStart * PAGE_SIZE + HeapUnits

\* Callers do not move the pages of the heap: kernel_main maps 0xC0000000.
ASSUME ClientsAssumption ==
  /\ ClientPages \subseteq VPages
  /\ ClientFrames \subseteq Nat
  /\ \A v \in ClientPages :
       v[1] = 0 => v[2] < HeapStart \/ (v[2] + 1) * PAGE_SIZE > HeapEnd

\* kmalloc on a heap from which nothing is freed: the last block is cut.
KmallocPtr(m, n) == IF m.top + 1 + n <= HeapEnd THEN m.top + 1 ELSE NULL
KmallocTop(m, n) ==
  IF m.top + 1 + n > HeapEnd THEN m.top
  ELSE IF m.top + 1 + n + 2 > HeapEnd THEN HeapEnd
  ELSE m.top + 1 + n

\* The first frame at or after an address.
FrameFrom(a) == (a + PAGE_SIZE - 1) \div PAGE_SIZE
FrameOf(a) == a \div PAGE_SIZE

\* What the CPU finds for page v when it looks in memory.
WalkIn(m, dir, v) ==
  IF m[dir][v[1]] = None THEN None ELSE m[m[dir][v[1]]][v[2]]
Walk(v) == WalkIn(mem, page_directory, v)

\* The frame the program reaches when it dereferences an address in frame f.
At(f) ==
  LET v == << 0, f >>
      cached == {t \in tlb : t[1] = v}
  IN IF ~ paging_on THEN f
     ELSE IF cached # {} THEN (CHOOSE t \in cached : TRUE)[2] ELSE Walk(v)

\* Faulty variant: nothing is asked for to make up for the alignment.
new_table_tight(m, dir, i) ==
  LET size == PAGE_SIZE
      ptr == KmallocPtr(m, size)
      f == FrameFrom(ptr)
  IN [m EXCEPT !.mem = [@ EXCEPT ![At(f)] = Empty, ![At(dir)][i] = f],
               !.top = KmallocTop(m, size),
               !.tables = @ \cup {<< f, ptr, size >>},
               !.starved = @ \/ ptr = NULL]

\* A table for entry i of the directory: kmalloc's answer is not looked at, and
\* NULL is rounded to frame 0.
new_table(m, dir, i) ==
  LET size == 2 * PAGE_SIZE
      ptr == KmallocPtr(m, size)
      f == FrameFrom(ptr)
  IN [m EXCEPT !.mem = [@ EXCEPT ![At(f)] = Empty, ![At(dir)][i] = f],
               !.top = KmallocTop(m, size),
               !.tables = @ \cup {<< f, ptr, size >>},
               !.starved = @ \/ ptr = NULL]

WithTable(m, dir, i) == IF m.mem[At(dir)][i] = None THEN new_table(m, dir, i) ELSE m

\* map_page up to invlpg.
Mapped(m, dir, v, f) ==
  LET t == WithTable(m, dir, v[1])
      table == t.mem[At(dir)][v[1]]
  IN [t EXCEPT !.mem[At(table)][v[2]] = f]

Install(m) ==
  /\ mem' = m.mem
  /\ heap_top' = m.top
  /\ tables' = m.tables
  /\ starved' = m.starved

invlpg(v) == tlb' = {t \in tlb : t[1] # v}

\* The directory and the first table; the loop maps page i to frame i.
paging_init_07 ==
  LET size == 2 * PAGE_SIZE
      ptr == KmallocPtr(Machine, size)
      dir == FrameFrom(ptr)
      m == [mem |-> [mem EXCEPT ![dir] = Empty], top |-> KmallocTop(Machine, size),
            tables |-> {<< dir, ptr, size >>}, starved |-> starved]
      t == WithTable(m, dir, 0)
  IN /\ ~ paging_on
     /\ Install([t EXCEPT !.mem[t.mem[dir][0]] = [i \in Idx |-> i]])
     /\ page_directory' = dir
     /\ paging_on' = TRUE
     /\ asked' = [v \in VPages |-> IF v[1] = 0 THEN v[2] ELSE None]
     /\ UNCHANGED tlb

map_page(v, f) ==
  /\ paging_on
  /\ Install(Mapped(Machine, page_directory, v, f))
  /\ invlpg(v)
  /\ asked' = [asked EXCEPT ![v] = f]
  /\ UNCHANGED << page_directory, paging_on >>

\* Faulty variant: the CPU is not told.
unmap_page_cached(v) ==
  /\ paging_on
  /\ LET table == mem[At(page_directory)][v[1]]
     IN IF table # None THEN mem' = [mem EXCEPT ![At(table)][v[2]] = None]
                        ELSE UNCHANGED mem
  /\ asked' = [asked EXCEPT ![v] = None]
  /\ UNCHANGED << heap_top, page_directory, paging_on, tlb, tables, starved >>

unmap_page(v) ==
  /\ paging_on
  /\ LET table == mem[At(page_directory)][v[1]]
     IN IF table # None
        THEN /\ mem' = [mem EXCEPT ![At(table)][v[2]] = None]
             /\ invlpg(v)
        ELSE UNCHANGED << mem, tlb >>
  /\ asked' = [asked EXCEPT ![v] = None]
  /\ UNCHANGED << heap_top, page_directory, paging_on, tables, starved >>

\* 0 stands for a page that is not mapped.
get_physical_address(v) ==
  LET table == mem[At(page_directory)][v[1]]
  IN IF table = None \/ mem[At(table)][v[2]] = None THEN 0
     ELSE mem[At(table)][v[2]]

\* The address kmalloc gave is cut down to the frame it lies in.
alloc_page_at(v) ==
  LET ptr == KmallocPtr(Machine, PAGE_SIZE)
      m == [Machine EXCEPT !.top = KmallocTop(Machine, PAGE_SIZE)]
  IN /\ paging_on
     /\ ptr # NULL
     /\ Install(Mapped(m, page_directory, v, FrameOf(ptr)))
     /\ invlpg(v)
     /\ asked' = [asked EXCEPT ![v] = FrameOf(ptr)]
     /\ UNCHANGED << page_directory, paging_on >>

\* The CPU uses a page and remembers where it was.
Access(v) ==
  /\ paging_on
  /\ {t \in tlb : t[1] = v} = {} /\ Walk(v) # None
  /\ tlb' = tlb \cup {<< v, Walk(v) >>}
  /\ UNCHANGED << mem, heap_top, page_directory, paging_on, asked, tables, starved >>

TableStep ==
  \/ paging_init_07
  \/ \E v \in ClientPages :
       \/ \E f \in ClientFrames : map_page(v, f)
       \/ unmap_page(v)
       \/ alloc_page_at(v)
       \/ Access(v)

----------------------------------------------------------------------------
\* Stage 12.

\* The block kmalloc takes; NULL if none is left.
Taken(b) == IF 1..Blocks \subseteq b THEN NULL
            ELSE CHOOSE i \in 1..Blocks \ b : \A j \in 1..Blocks \ b : i <= j

\* Faulty variant: a space without a directory is not given back.
address_space_create_leaks(b) ==
  LET s == Taken(b)
      d == IF s = NULL THEN NULL ELSE Taken(b \cup {s})
  IN [ok |-> d # NULL, space |-> s, directory |-> d, used |-> (b \cup {s, d}) \ {NULL}]

\* The structure first, then its directory; without one it is given back.
address_space_create(b) ==
  LET s == Taken(b)
      d == IF s = NULL THEN NULL ELSE Taken(b \cup {s})
  IN [ok |-> d # NULL, space |-> s, directory |-> d,
      used |-> IF d = NULL THEN b ELSE b \cup {s, d}]

\* A PCB and an address space; without a space the PCB is given back.
process_create ==
  LET p == Taken(blocks)
      a == address_space_create(blocks \cup {p})
  IN /\ p # NULL
     /\ blocks' = IF a.ok THEN a.used ELSE a.used \ {p}
     /\ owners' = IF a.ok
                  THEN owners \cup {[pcb |-> p, space |-> a.space, directory |-> a.directory]}
                  ELSE owners
     /\ UNCHANGED current_space

address_space_destroy(b, o) == b \ {o.directory, o.space}

\* Nobody destroys the process that runs.
process_destroy(o) ==
  /\ o.pcb # NULL /\ o.space # current_space
  /\ blocks' = address_space_destroy(blocks, o) \ {o.pcb}
  /\ owners' = owners \ {o}
  /\ UNCHANGED current_space

\* schedule_from_interrupt and process_set_current; CR3 stays as it is.
address_space_switch(o) ==
  /\ o.pcb # NULL
  /\ current_space' = o.space
  /\ UNCHANGED << blocks, owners >>

SpaceStep ==
  \/ process_create
  \/ \E o \in owners : process_destroy(o) \/ address_space_switch(o)

----------------------------------------------------------------------------
\* The kernel's own directory and space, of paging_init from stage 12 on.
kernel_space == [pcb |-> NULL, space |-> 2, directory |-> 1]

\* RAM holds what was there before: nothing, or entries that look present.
PagingInit ==
  /\ Init
  /\ stage \in {7, 12}
  /\ \E junk \in {None} \cup ClientFrames :
       mem = [f \in Idx \cup ClientFrames |-> [i \in Idx |-> junk]]
  /\ heap_top = HeapStart * PAGE_SIZE
  /\ page_directory = NULL /\ paging_on = FALSE
  /\ tlb = {} /\ tables = {} /\ starved = FALSE
  /\ asked = [v \in VPages |-> None]
  /\ blocks = {1, 2} /\ owners = {kernel_space} /\ current_space = kernel_space.space

PagingNext ==
  /\ UNCHANGED stage
  /\ \/ stage = 7 /\ TableStep /\ UNCHANGED << vars, spaceVars >>
     \/ stage = 12 /\ Next /\ UNCHANGED << tableVars, spaceVars >>
     \/ stage = 12 /\ SpaceStep /\ UNCHANGED << vars, tableVars >>

PagingSpec == PagingInit /\ [][PagingNext]_pagingVars

----------------------------------------------------------------------------
\* As long as the heap has tables to give, every page is where its last map_page,
\* unmap_page or alloc_page_at put it, the pages of the first region where
\* paging_init put them, whatever was in memory before and whatever the CPU
\* remembers; and get_physical_address says so.
CpuSeesWhatWasAsked ==
  paging_on /\ ~ starved =>
    /\ \A v \in VPages :
         /\ Walk(v) = asked[v]
         /\ get_physical_address(v) = IF asked[v] = None THEN 0 ELSE asked[v]
    /\ \A t \in tlb : t[2] = asked[t[1]]

\* The directory and every table lie inside the block they were cut from,
\* wherever the heap stood when they were made: clearing one touches no other.
TablesInTheirBlocks ==
  ~ starved =>
    \A t \in tables : /\ t[1] * PAGE_SIZE >= t[2]
                      /\ (t[1] + 1) * PAGE_SIZE <= t[2] + t[3]

\* The blocks in use are those of the kernel's address space and of the
\* processes with theirs, and no block has two owners: a creation that fails
\* at any of its allocations and a destruction leave nothing behind
\* (process_create, address_space_create, process_destroy).
BlocksHaveOneOwner ==
  LET Of(o) == {o.pcb, o.space, o.directory} \ {NULL}
  IN /\ blocks = UNION {Of(o) : o \in owners}
     /\ \A a, b \in owners : a # b => Of(a) \cap Of(b) = {}
     /\ \E o \in owners : o.space = current_space
=============================================================================
