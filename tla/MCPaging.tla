------------------------------ MODULE MCPaging ------------------------------
(***************************************************************************)
(* Paging with the pages that callers use in the run.                      *)
(***************************************************************************)
EXTENDS Paging

\* One page of the identity region outside the heap, two of one further region
\* and one of a second.
MCClientPages == {<< 0, 9 >>, << 1, 0 >>, << 1, 1 >>, << 2, 0 >>}
=============================================================================
