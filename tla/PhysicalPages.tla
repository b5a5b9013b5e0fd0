--------------------------- MODULE PhysicalPages ---------------------------
(***************************************************************************)
(* The physical page allocator of paging.c: a bitmap and first_free_page,  *)
(* a hint from which the search starts.  A page is named by its number     *)
(* from PHYSICAL_MEMORY_START on.  Clients free pages they hold; a free of *)
(* an address outside the managed range does nothing and is left out.      *)
(***************************************************************************)
EXTENDS Integers, FiniteSets

CONSTANTS
  Pages,     \* total_physical_pages
  Reserved   \* pages marked at start: 0x700000 / PAGE_SIZE

ASSUME PagesAssumption ==
  Pages \in Nat /\ Reserved \in Nat /\ Reserved <= Pages

VARIABLES
  physical_page_bitmap,
  first_free_page,
  held                   \* pages handed out and not given back

vars == << physical_page_bitmap, first_free_page, held >>

PageNos == 0..(Pages - 1)

TypeOK ==
  /\ physical_page_bitmap \in [PageNos -> BOOLEAN]
  /\ first_free_page \in 0..Pages
  /\ held \subseteq PageNos

\* init_physical_page_bitmap
Init ==
  /\ physical_page_bitmap = [i \in PageNos |-> i < Reserved]
  /\ first_free_page = Reserved
  /\ held = {}

\* Faulty variant: the hint stays where it is.
free_physical_page_no_hint(i) ==
  /\ i \in held
  /\ physical_page_bitmap' = [physical_page_bitmap EXCEPT ![i] = FALSE]
  /\ held' = held \ {i}
  /\ UNCHANGED first_free_page

\* Faulty variant: the page is not marked.
alloc_physical_page_unmarked ==
  \E i \in first_free_page..(Pages - 1) :
    /\ ~ physical_page_bitmap[i]
    /\ \A j \in first_free_page..(i - 1) : physical_page_bitmap[j]
    /\ first_free_page' = i + 1
    /\ held' = held \cup {i}
    /\ UNCHANGED physical_page_bitmap

\* Returns 0, and changes nothing, if every page from the hint on is taken.
alloc_physical_page ==
  \E i \in first_free_page..(Pages - 1) :
    /\ ~ physical_page_bitmap[i]
    /\ \A j \in first_free_page..(i - 1) : physical_page_bitmap[j]
    /\ physical_page_bitmap' = [physical_page_bitmap EXCEPT ![i] = TRUE]
    /\ first_free_page' = i + 1
    /\ held' = held \cup {i}

free_physical_page(i) ==
  /\ i \in held
  /\ physical_page_bitmap' = [physical_page_bitmap EXCEPT ![i] = FALSE]
  /\ first_free_page' = IF i < first_free_page THEN i ELSE first_free_page
  /\ held' = held \ {i}

Next == alloc_physical_page \/ \E i \in PageNos : free_physical_page(i)

Spec == Init /\ [][Next]_vars

----------------------------------------------------------------------------
\* The bitmap marks the reserved pages and the pages clients hold and nothing
\* else: alloc never hands out a page twice, and free loses none.
MarkedIsHeld ==
  /\ \A i \in PageNos : physical_page_bitmap[i] <=> i < Reserved \/ i \in held
  /\ \A i \in held : i >= Reserved

\* No page below the hint is free, whatever the order of allocs and frees: the
\* search finds a free page if there is one.
HintSound == \A i \in 0..(first_free_page - 1) : physical_page_bitmap[i]
=============================================================================
