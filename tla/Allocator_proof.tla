-------------------------- MODULE Allocator_proof --------------------------
(***************************************************************************)
(* The heap of allocator.c, for any size, header and alignment: the list   *)
(* of blocks tiles it, and clients' blocks are theirs alone.               *)
(***************************************************************************)
EXTENDS Allocator, FiniteSetTheorems, WellFoundedInduction, TLAPS

----------------------------------------------------------------------------
\* The list that kmalloc's search walks along.
LEMMA LeastNat ==
  ASSUME NEW T \in SUBSET Nat, T # {}
  PROVE  \E i \in T : \A j \in T : i <= j
<1> DEFINE R == OpToRel(<, Nat)
<1>1. IsWellFoundedOn(R, Nat)
  BY NatLessThanWellFounded
<1>2. \A x, y \in Nat : << x, y >> \in R <=> x < y
  BY DEF OpToRel
<1> HIDE DEF R
<1>3. PICK i \in T : \A j \in T : ~ << j, i >> \in R
  BY <1>1, WFMin
<1>4. i \in Nat /\ \A j \in T : j \in Nat /\ ~ j < i
  BY <1>2, <1>3
<1>5. \A j \in T : i <= j
  BY <1>4
<1> QED
  BY <1>5

\* w is the walk along m's list up to its k-th block.
NextStop(m, a) == IF a = NULL THEN NULL ELSE m[a].next
IsWalk(w, m, k) ==
  w = [i \in 0..k |-> IF i = 0 THEN first_block ELSE NextStop(m, w[i - 1])]

LEMMA WalkGrows ==
  ASSUME NEW m, NEW k \in Nat, NEW w, IsWalk(w, m, k)
  PROVE  \E v : IsWalk(v, m, k + 1) /\ v[k] = w[k]
<1> DEFINE v == [i \in 0..(k + 1) |-> IF i = k + 1 THEN NextStop(m, w[k]) ELSE w[i]]
<1>1. \A i \in 0..k : v[i] = w[i]
  OBVIOUS
<1>2. \A i \in 0..k : w[i] = IF i = 0 THEN first_block ELSE NextStop(m, w[i - 1])
  BY DEF IsWalk
<1>3. ASSUME NEW i \in 0..(k + 1)
      PROVE  v[i] = IF i = 0 THEN first_block ELSE NextStop(m, v[i - 1])
  <2>1. CASE i = k + 1
    BY <1>1, <2>1
  <2>2. CASE i \in 0..k
    <3>1. i # 0 => i - 1 \in 0..k
      BY <2>2
    <3> QED
      BY <1>1, <1>2, <2>2, <3>1
  <2> QED
    BY <2>1, <2>2
<1>4. IsWalk(v, m, k + 1)
  BY <1>3 DEF IsWalk
<1> QED
  BY <1>1, <1>4

LEMMA WalkExists ==
  ASSUME NEW m, NEW k \in Nat
  PROVE  \E w : IsWalk(w, m, k)
<1> DEFINE T == {i \in Nat : ~ \E w : IsWalk(w, m, i)}
<1>1. SUFFICES ASSUME T # {} PROVE FALSE
  OBVIOUS
<1>2. PICK i \in T : \A j \in T : i <= j
  BY <1>1, LeastNat
<1>3. i # 0
  <2>1. [j \in 0..0 |-> first_block][0] = first_block
    OBVIOUS
  <2>2. IsWalk([j \in 0..0 |-> first_block], m, 0)
    BY <2>1 DEF IsWalk
  <2> QED
    BY <1>2, <2>2
<1>4. i - 1 \in Nat /\ i - 1 \notin T
  BY <1>2, <1>3
<1>5. PICK w : IsWalk(w, m, i - 1)
  BY <1>4
<1>6. \E v : IsWalk(v, m, (i - 1) + 1)
  BY <1>4, <1>5, WalkGrows
<1>7. (i - 1) + 1 = i
  BY <1>4
<1> QED
  BY <1>2, <1>6, <1>7

LEMMA WalkUnique ==
  ASSUME NEW m, NEW k \in Nat, NEW l \in Nat, k <= l, NEW w, NEW v,
         IsWalk(w, m, k), IsWalk(v, m, l)
  PROVE  w[k] = v[k]
<1> DEFINE T == {i \in 0..k : w[i] # v[i]}
<1>1. SUFFICES ASSUME T # {} PROVE FALSE
  OBVIOUS
<1>2. PICK i \in T : \A j \in T : i <= j
  <2>1. T \in SUBSET Nat
    OBVIOUS
  <2> QED
    BY <1>1, <2>1, LeastNat
<1>3. /\ w[i] = IF i = 0 THEN first_block ELSE NextStop(m, w[i - 1])
      /\ v[i] = IF i = 0 THEN first_block ELSE NextStop(m, v[i - 1])
  BY <1>2 DEF IsWalk
<1>4. i # 0 => i - 1 \in 0..k /\ w[i - 1] = v[i - 1]
  BY <1>2
<1> QED
  BY <1>2, <1>3, <1>4

LEMMA BlockIsWalk ==
  ASSUME NEW m, NEW k \in Nat
  PROVE  \E w : IsWalk(w, m, k) /\ Block(m, k) = w[k]
<1> DEFINE walk == CHOOSE w : IsWalk(w, m, k)
<1>1. IsWalk(walk, m, k)
  BY WalkExists
<1>2. Block(m, k) = walk[k]
  BY DEF Block, IsWalk, NextStop
<1> QED
  BY <1>1, <1>2

\* Block is the walk's recursion, unfolded.
LEMMA BlockSteps ==
  ASSUME NEW m, NEW k \in Nat
  PROVE  /\ Block(m, 0) = first_block
         /\ Block(m, k + 1) = NextStop(m, Block(m, k))
<1>1. PICK w : IsWalk(w, m, 0) /\ Block(m, 0) = w[0]
  BY BlockIsWalk
<1>2. PICK u : IsWalk(u, m, k) /\ Block(m, k) = u[k]
  BY BlockIsWalk
<1>3. PICK v : IsWalk(v, m, k + 1) /\ Block(m, k + 1) = v[k + 1]
  BY BlockIsWalk
<1>4. u[k] = v[k]
  BY <1>2, <1>3, WalkUnique
<1>5. v[k + 1] = NextStop(m, v[k])
  BY <1>3 DEF IsWalk
<1>6. w[0] = first_block
  BY <1>1 DEF IsWalk
<1> QED
  BY <1>1, <1>2, <1>3, <1>4, <1>5, <1>6

----------------------------------------------------------------------------
\* B is a set of blocks that tile the heap, linked in the order of their
\* addresses by what m stores in their headers.
End(m, b) == b + Header + m[b].size

Linked(m, B, b) ==
  /\ End(m, b) = IF m[b].next = NULL THEN HeapSize ELSE m[b].next
  /\ m[b].next # NULL => m[b].next \in B /\ m[m[b].next].prev = b
  /\ b # first_block => m[b].prev \in B /\ m[m[b].prev].next = b
  /\ b = first_block => m[b].prev = NULL

Chain(m, B) ==
  /\ m \in [Addr -> Headers]
  /\ B \subseteq Addr
  /\ first_block \in B
  /\ \A b \in B : Linked(m, B, b)

LEMMA Sizes == HeapSize \in Nat \ {0} /\ Header \in Nat \ {0} /\ MinBlock \in Nat \ {0}
BY AllocatorAssumption

LEMMA ChainTypes ==
  ASSUME NEW m, NEW B, Chain(m, B), NEW b \in B
  PROVE  /\ b \in Addr
         /\ b \in Nat
         /\ b < HeapSize
         /\ m[b] \in Headers
         /\ m[b].size \in Nat
         /\ m[b].is_free \in BOOLEAN
         /\ m[b].next \in Addr \cup {NULL}
         /\ m[b].prev \in Addr \cup {NULL}
         /\ End(m, b) \in Nat
         /\ b < End(m, b)
         /\ Linked(m, B, b)
<1>1. b \in Addr /\ m[b] \in Headers /\ Linked(m, B, b)
  BY DEF Chain
<1>2. b \in Nat /\ b < HeapSize
  BY <1>1, Sizes DEF Addr
<1>3. /\ m[b].size \in Nat
      /\ m[b].is_free \in BOOLEAN
      /\ m[b].next \in Addr \cup {NULL}
      /\ m[b].prev \in Addr \cup {NULL}
  BY <1>1, Sizes DEF Headers
<1>4. End(m, b) \in Nat /\ b < End(m, b)
  BY <1>2, <1>3, Sizes DEF End
<1> QED
  BY <1>1, <1>2, <1>3, <1>4

\* A block's neighbours are where its header and theirs say.
LEMMA NextOf ==
  ASSUME NEW m, NEW B, Chain(m, B), NEW b \in B, m[b].next # NULL
  PROVE  /\ m[b].next \in B
         /\ m[b].next = End(m, b)
         /\ m[m[b].next].prev = b
         /\ m[b].next # first_block
         /\ b < m[b].next
<1>1. Linked(m, B, b) /\ b < End(m, b) /\ b \in Nat
  BY ChainTypes
<1>2. m[b].next \in B /\ m[b].next = End(m, b) /\ m[m[b].next].prev = b
  BY <1>1 DEF Linked
<1> QED
  BY <1>1, <1>2 DEF first_block

LEMMA PrevOf ==
  ASSUME NEW m, NEW B, Chain(m, B), NEW b \in B, b # first_block
  PROVE  /\ m[b].prev \in B
         /\ m[b].prev # NULL
         /\ m[m[b].prev].next = b
         /\ End(m, m[b].prev) = b
         /\ m[b].prev < b
<1>1. m[b].prev \in B /\ m[m[b].prev].next = b
  BY ChainTypes DEF Linked
<1>2. b \in Nat /\ m[b].prev \in Nat
  BY <1>1, ChainTypes
<1>3. b # NULL /\ m[b].prev # NULL
  BY <1>2 DEF NULL
<1> QED
  BY <1>1, <1>3, NextOf

\* No block begins inside another one.
LEMMA Apart ==
  ASSUME NEW m, NEW B, Chain(m, B), NEW b \in B, NEW c \in B, b < c
  PROVE  End(m, b) <= c
<1> DEFINE T == {x \in B : \E y \in B : y < x /\ x < End(m, y)}
<1>1. B \in SUBSET Nat
  BY ChainTypes
<1>2. T = {}
  <2> SUFFICES ASSUME T # {} PROVE FALSE
    OBVIOUS
  <2>1. PICK x \in T : \A z \in T : x <= z
    BY <1>1, LeastNat
  <2>2. PICK y \in B : y < x /\ x < End(m, y)
    BY <2>1
  <2>3. x \in B /\ x \in Nat /\ y \in Nat
    BY <1>1, <2>1, <2>2
  <2>4. x # first_block
    BY <2>2, <2>3 DEF first_block
  <2> DEFINE p == m[x].prev
  <2>5. p \in B /\ p \in Nat /\ End(m, p) = x /\ p < x
    BY <1>1, <2>3, <2>4, PrevOf
  <2>6. p # y
    BY <2>2, <2>3, <2>5
  <2>7. CASE p < y
    <3>1. y \in T
      BY <2>2, <2>5, <2>7
    <3> QED
      BY <2>1, <2>2, <2>3, <3>1
  <2>8. CASE y < p
    <3>1. End(m, y) \in Nat
      BY ChainTypes
    <3>2. p \in T
      BY <2>2, <2>3, <2>5, <2>8, <3>1
    <3> QED
      BY <2>1, <2>3, <2>5, <3>2
  <2> QED
    BY <2>3, <2>5, <2>6, <2>7, <2>8
<1>3. b \in Nat /\ c \in Nat /\ End(m, b) \in Nat
  BY ChainTypes
<1> QED
  BY <1>2, <1>3

\* The blocks that the search visits.
Visited(m) == {Block(m, k) : k \in 0..MaxBlocks} \ {NULL}

LEMMA VisitsBlocks ==
  ASSUME NEW m, NEW B, Chain(m, B), NEW k \in Nat
  PROVE  Block(m, k) \in B \cup {NULL}
<1> DEFINE T == {i \in Nat : Block(m, i) \notin B \cup {NULL}}
<1>1. SUFFICES ASSUME T # {} PROVE FALSE
  OBVIOUS
<1>2. PICK i \in T : \A j \in T : i <= j
  BY <1>1, LeastNat
<1>3. i # 0
  BY <1>2, BlockSteps DEF Chain
<1>4. i - 1 \in Nat /\ i - 1 \notin T /\ (i - 1) + 1 = i
  BY <1>2, <1>3
<1>5. Block(m, i) = NextStop(m, Block(m, i - 1))
  BY <1>4, BlockSteps
<1>6. Block(m, i - 1) \in B \cup {NULL}
  BY <1>4
<1> QED
  BY <1>2, <1>5, <1>6, NextOf DEF NextStop

\* Headers have room, so the k-th block is k headers up at least.
LEMMA TimesMore ==
  ASSUME NEW k \in Nat, NEW n \in Nat
  PROVE  (k + 1) * n = k * n + n /\ k * n \in Nat
OBVIOUS

LEMMA QuotientBound ==
  ASSUME NEW a \in Nat, NEW n \in Nat \ {0}, NEW k \in Nat, k * n <= a
  PROVE  k <= a \div n
BY Z3

LEMMA BlocksClimb ==
  ASSUME NEW m, NEW B, Chain(m, B), NEW k \in Nat, Block(m, k) # NULL
  PROVE  k * Header <= Block(m, k)
<1> DEFINE T == {i \in Nat : Block(m, i) # NULL /\ ~ i * Header <= Block(m, i)}
<1>1. SUFFICES ASSUME T # {} PROVE FALSE
  OBVIOUS
<1>2. PICK i \in T : \A j \in T : i <= j
  BY <1>1, LeastNat
<1>3. i # 0
  <2>1. 0 * Header = 0
    BY Sizes
  <2> QED
    BY <1>2, <2>1, BlockSteps DEF first_block
<1>4. i - 1 \in Nat /\ i - 1 \notin T /\ (i - 1) + 1 = i
  BY <1>2, <1>3
<1> DEFINE b == Block(m, i - 1)
<1>5. Block(m, i) = NextStop(m, b)
  BY <1>4, BlockSteps
<1>6. b # NULL /\ b \in B
  BY <1>2, <1>4, <1>5, VisitsBlocks DEF NextStop
<1>7. (i - 1) * Header <= b
  BY <1>4, <1>6
<1>8. Block(m, i) = b + Header + m[b].size
  BY <1>2, <1>5, <1>6, NextOf DEF NextStop, End
<1>9. b \in Nat /\ m[b].size \in Nat
  BY <1>6, ChainTypes
<1>10. i * Header = (i - 1) * Header + Header /\ (i - 1) * Header \in Nat
  BY <1>4, TimesMore, Sizes
<1> HIDE DEF b
<1>11. i * Header <= Block(m, i)
  BY <1>7, <1>8, <1>9, <1>10, Sizes
<1> QED
  BY <1>2, <1>11

LEMMA VisitsAll ==
  ASSUME NEW m, NEW B, Chain(m, B)
  PROVE  Visited(m) = B
<1>1. Visited(m) \subseteq B
  <2>1. MaxBlocks \in Nat
    BY Sizes DEF MaxBlocks
  <2> QED
    BY <2>1, VisitsBlocks DEF Visited
<1>2. \A k \in Nat : Block(m, k) \in B => k \in 0..MaxBlocks
  <2> SUFFICES ASSUME NEW k \in Nat, Block(m, k) \in B PROVE k \in 0..MaxBlocks
    OBVIOUS
  <2>1. Block(m, k) \in Nat /\ Block(m, k) < HeapSize
    BY ChainTypes
  <2>2. k * Header <= Block(m, k)
    BY <2>1, BlocksClimb DEF NULL
  <2>3. k * Header <= HeapSize
    <3>1. k * Header \in Nat
      BY Sizes, TimesMore
    <3> QED
      BY <2>1, <2>2, <3>1, Sizes
  <2>4. k <= HeapSize \div Header
    BY <2>3, QuotientBound, Sizes
  <2> QED
    BY <2>4, Sizes DEF MaxBlocks
<1> DEFINE T == {b \in B : \A k \in Nat : Block(m, k) # b}
<1>3. T = {}
  <2> SUFFICES ASSUME T # {} PROVE FALSE
    OBVIOUS
  <2>1. T \in SUBSET Nat
    BY ChainTypes
  <2>2. PICK b \in T : \A c \in T : b <= c
    BY <2>1, LeastNat
  <2>3. b # first_block
    BY <2>2, BlockSteps
  <2>4. m[b].prev \in B /\ m[m[b].prev].next = b /\ m[b].prev < b /\ m[b].prev # NULL
    BY <2>2, <2>3, PrevOf
  <2>5. m[b].prev \in Nat /\ b \in Nat
    BY <2>2, <2>4, ChainTypes
  <2>6. m[b].prev \notin T
    BY <2>2, <2>4, <2>5
  <2>7. PICK k \in Nat : Block(m, k) = m[b].prev
    BY <2>4, <2>6
  <2>8. Block(m, k + 1) = b
    BY <2>4, <2>7, BlockSteps DEF NextStop
  <2> QED
    BY <2>2, <2>7, <2>8
<1>4. B \subseteq Visited(m)
  <2> SUFFICES ASSUME NEW b \in B PROVE b \in Visited(m)
    OBVIOUS
  <2>1. PICK k \in Nat : Block(m, k) = b
    BY <1>3
  <2>2. k \in 0..MaxBlocks
    BY <1>2, <2>1
  <2>3. b \in Nat /\ b # NULL
    BY ChainTypes DEF NULL
  <2> QED
    BY <2>1, <2>2, <2>3 DEF Visited
<1> QED
  BY <1>1, <1>4

----------------------------------------------------------------------------
\* Split, mark and merge.  The fields of the headers of B after a cut of b,
\* after which new follows b and is followed by nxt; and after b took in the
\* block before aft.
AfterCut(m, t, B, b, n, new, nxt) ==
  \A a \in B :
    /\ t[a].size = IF a = b THEN n ELSE m[a].size
    /\ t[a].is_free = m[a].is_free
    /\ t[a].next = IF a = b THEN new ELSE m[a].next
    /\ t[a].prev = IF a = nxt THEN new ELSE m[a].prev

AfterAbsorb(m, t, B, b, nxt, aft) ==
  \A a \in B :
    /\ t[a].size = IF a = b THEN m[b].size + Header + m[nxt].size ELSE m[a].size
    /\ t[a].is_free = m[a].is_free
    /\ t[a].next = IF a = b THEN aft ELSE m[a].next
    /\ t[a].prev = IF a = aft THEN b ELSE m[a].prev

LEMMA CutFields ==
  ASSUME NEW m, NEW B, NEW b \in B, NEW n \in Nat, NEW t, NEW new,
         Chain(m, B), n + Header + MinBlock <= m[b].size,
         t = Cut(m, b, n), new = b + Header + n
  PROVE  /\ new \in Addr
         /\ new \notin B
         /\ t \in [Addr -> Headers]
         /\ t[new].size = m[b].size - n - Header
         /\ t[new].is_free
         /\ t[new].next = m[b].next
         /\ t[new].prev = b
         /\ AfterCut(m, t, B, b, n, new, m[b].next)
<1> DEFINE nxt == m[b].next
           rest == [size |-> m[b].size - n - Header, is_free |-> TRUE,
                    next |-> nxt, prev |-> b]
           s == [m EXCEPT ![new] = rest, ![b].size = n, ![b].next = new]
<1>1. /\ b \in Addr /\ b \in Nat /\ b < HeapSize /\ m[b] \in Headers
      /\ m[b].size \in Nat /\ nxt \in Addr \cup {NULL}
      /\ End(m, b) \in Nat
  BY ChainTypes
<1>2. /\ End(m, b) <= HeapSize
      /\ nxt # NULL => nxt \in B /\ nxt = End(m, b)
  BY <1>1, ChainTypes, Sizes DEF Linked, Addr
<1>3. /\ new \in Nat /\ b < new /\ new < End(m, b)
      /\ m[b].size - n - Header \in 0..HeapSize
      /\ n \in 0..HeapSize
  BY <1>1, <1>2, Sizes DEF End
<1>4. new \in Addr
  BY <1>2, <1>3, <1>1, Sizes DEF Addr
<1>5. new \notin B
  <2> SUFFICES ASSUME new \in B PROVE FALSE
    OBVIOUS
  <2>1. End(m, b) <= new
    BY <1>3, Apart
  <2> QED
    BY <1>1, <1>3, <2>1
<1>6. m \in [Addr -> Headers] /\ B \subseteq Addr
  BY DEF Chain
<1>7. rest \in Headers
  BY <1>1, <1>3 DEF Headers
<1>8. t = IF nxt = NULL THEN s ELSE [s EXCEPT ![nxt].prev = new]
  BY DEF Cut
<1> HIDE DEF nxt, rest, s
<1>9. b # new /\ nxt # b /\ nxt # new
  BY <1>1, <1>2, <1>3, <1>5 DEF NULL
<1>10. s \in [Addr -> Headers]
  BY <1>1, <1>3, <1>4, <1>6, <1>7, <1>9 DEF s, Headers
<1>11. t \in [Addr -> Headers]
  <2>1. CASE nxt = NULL
    BY <1>8, <1>10, <2>1
  <2>2. CASE nxt # NULL
    <3>1. nxt \in Addr
      BY <1>1, <2>2 DEF nxt
    <3>2. s[nxt] \in Headers
      BY <1>10, <3>1
    <3>3. [s[nxt] EXCEPT !.prev = new] \in Headers
      BY <1>4, <3>2 DEF Headers
    <3>4. t = [s EXCEPT ![nxt] = [s[nxt] EXCEPT !.prev = new]]
      BY <1>8, <2>2
    <3> QED
      BY <1>10, <3>3, <3>4
  <2> QED
    BY <2>1, <2>2
<1>12. t[new] = rest
  <2>1. s[new] = rest
    BY <1>4, <1>6, <1>9 DEF s
  <2> QED
    BY <1>4, <1>8, <1>9, <1>10, <2>1
<1>13. AfterCut(m, t, B, b, n, new, nxt)
  <2> SUFFICES ASSUME NEW a \in B
               PROVE  /\ t[a].size = IF a = b THEN n ELSE m[a].size
                      /\ t[a].is_free = m[a].is_free
                      /\ t[a].next = IF a = b THEN new ELSE m[a].next
                      /\ t[a].prev = IF a = nxt THEN new ELSE m[a].prev
    BY DEF AfterCut
  <2>1. a \in Addr /\ a # new /\ a # NULL /\ m[a] \in Headers
    BY <1>5, <1>6 DEF Addr, NULL
  <2>2. /\ s[a].size = IF a = b THEN n ELSE m[a].size
        /\ s[a].is_free = m[a].is_free
        /\ s[a].next = IF a = b THEN new ELSE m[a].next
        /\ s[a].prev = m[a].prev
        /\ s[a] \in Headers
    BY <1>6, <1>9, <1>10, <2>1 DEF s, Headers
  <2>3. CASE nxt = NULL
    BY <1>8, <2>1, <2>2, <2>3
  <2>4. CASE nxt # NULL
    <3>1. t = [s EXCEPT ![nxt].prev = new]
      BY <1>8, <2>4
    <3> QED
      BY <1>10, <2>1, <2>2, <3>1 DEF Headers
  <2> QED
    BY <2>3, <2>4
<1> QED
  BY <1>4, <1>5, <1>11, <1>12, <1>13 DEF nxt, rest

LEMMA AbsorbFields ==
  ASSUME NEW m, NEW B, NEW b \in B, Chain(m, B), m[b].next # NULL
  PROVE  LET t == Absorb(m, b)
         IN /\ t \in [Addr -> Headers]
            /\ AfterAbsorb(m, t, B, b, m[b].next, m[m[b].next].next)
<1> DEFINE nxt == m[b].next
           aft == m[nxt].next
           size == m[b].size + Header + m[nxt].size
           s == [m EXCEPT ![b].size = @ + Header + m[nxt].size, ![b].next = aft]
           t == Absorb(m, b)
<1>1. b \in Nat /\ m[b].size \in Nat /\ End(m, b) \in Nat /\ b \in Addr
  BY ChainTypes
<1>2. nxt \in B /\ nxt = End(m, b) /\ b < nxt
  BY NextOf
<1>3. /\ nxt \in Nat /\ m[nxt].size \in Nat /\ aft \in Addr \cup {NULL}
      /\ Linked(m, B, nxt) /\ End(m, nxt) \in Nat
  BY <1>2, ChainTypes
<1>4. aft # NULL => aft \in B /\ nxt < aft
  BY <1>2, NextOf
<1>5. End(m, nxt) <= HeapSize
  BY <1>3, Sizes DEF Linked, Addr
<1>6. size \in 0..HeapSize
  BY <1>1, <1>2, <1>3, <1>5, Sizes DEF End
<1>7. m \in [Addr -> Headers] /\ B \subseteq Addr
  BY DEF Chain
<1>8. t = IF aft = NULL THEN s ELSE [s EXCEPT ![aft].prev = b]
  BY DEF Absorb
<1>9. s = [m EXCEPT ![b].size = size, ![b].next = aft]
  BY <1>1, <1>7 DEF Headers
<1> HIDE DEF nxt, aft, size, s, t
<1>10. s \in [Addr -> Headers]
  BY <1>3, <1>6, <1>7, <1>9 DEF Headers
<1>11. t \in [Addr -> Headers]
  BY <1>1, <1>8, <1>10 DEF Headers
<1>12. AfterAbsorb(m, t, B, b, nxt, aft)
  <2> SUFFICES ASSUME NEW a \in B
               PROVE  /\ t[a].size = IF a = b THEN size ELSE m[a].size
                      /\ t[a].is_free = m[a].is_free
                      /\ t[a].next = IF a = b THEN aft ELSE m[a].next
                      /\ t[a].prev = IF a = aft THEN b ELSE m[a].prev
    BY DEF AfterAbsorb, size
  <2>1. a \in Addr /\ a # NULL /\ m[a] \in Headers
    BY <1>7 DEF Addr, NULL
  <2>2. /\ s[a].size = IF a = b THEN size ELSE m[a].size
        /\ s[a].is_free = m[a].is_free
        /\ s[a].next = IF a = b THEN aft ELSE m[a].next
        /\ s[a].prev = m[a].prev
        /\ s[a] \in Headers
    BY <1>7, <1>9, <1>10, <2>1 DEF Headers
  <2>3. CASE aft = NULL
    BY <1>8, <2>1, <2>2, <2>3
  <2>4. CASE aft # NULL
    <3>1. t = [s EXCEPT ![aft].prev = b]
      BY <1>8, <2>4
    <3> QED
      BY <1>10, <2>1, <2>2, <3>1 DEF Headers
  <2> QED
    BY <2>3, <2>4
<1> QED
  BY <1>11, <1>12 DEF nxt, aft, t

\* Both leave a tiling.
LEMMA CutChain ==
  ASSUME NEW m, NEW B, NEW b \in B, NEW n \in Nat, NEW t, NEW new,
         Chain(m, B), n + Header + MinBlock <= m[b].size,
         t = Cut(m, b, n), new = b + Header + n
  PROVE  Chain(t, B \cup {new})
<1> DEFINE nxt == m[b].next
           C == B \cup {new}
<1>1. /\ new \in Addr
      /\ new \notin B
      /\ t \in [Addr -> Headers]
      /\ t[new].size = m[b].size - n - Header
      /\ t[new].next = nxt
      /\ t[new].prev = b
      /\ AfterCut(m, t, B, b, n, new, nxt)
  BY CutFields
<1>2. /\ b \in Nat /\ m[b].size \in Nat /\ Linked(m, B, b)
      /\ End(m, b) = b + Header + m[b].size
  BY ChainTypes DEF End
<1>3. /\ nxt # NULL => nxt \in B /\ m[nxt].prev = b
      /\ nxt # b
  BY <1>2, NextOf DEF NULL
<1>4. B \subseteq Addr /\ first_block \in B
  BY DEF Chain
<1>5. new # NULL /\ new # first_block /\ b # NULL
  BY <1>1, <1>2, <1>4 DEF NULL, Addr
<1> HIDE DEF nxt
<1>6. ASSUME NEW c \in B, c # b
      PROVE  Linked(t, C, c)
  <2>1. /\ c \in Nat /\ c # NULL /\ Linked(m, B, c)
    BY ChainTypes DEF NULL
  <2>2. /\ t[c].size = m[c].size /\ t[c].next = m[c].next
        /\ t[c].prev = IF c = nxt THEN new ELSE m[c].prev
    BY <1>1, <1>6 DEF AfterCut
  <2>3. End(t, c) = IF t[c].next = NULL THEN HeapSize ELSE t[c].next
    BY <2>1, <2>2 DEF End, Linked
  <2>4. t[c].next # NULL => t[c].next \in C /\ t[t[c].next].prev = c
    <3> SUFFICES ASSUME m[c].next # NULL PROVE m[c].next \in B /\ t[m[c].next].prev = c
      BY <2>2
    <3>1. m[c].next \in B /\ m[m[c].next].prev = c
      BY <2>1 DEF Linked
    <3>2. m[c].next # nxt
      BY <1>3, <1>6, <3>1, ChainTypes
    <3> QED
      BY <1>1, <3>1, <3>2 DEF AfterCut
  <2>5. c # first_block => t[c].prev \in C /\ t[t[c].prev].next = c
    <3>1. CASE c = nxt
      BY <1>1, <2>2, <3>1
    <3>2. CASE c # nxt /\ c # first_block
      <4>1. m[c].prev \in B /\ m[m[c].prev].next = c
        BY <2>1, <3>2 DEF Linked
      <4>2. m[c].prev # b
        BY <3>2, <4>1 DEF nxt
      <4> QED
        BY <1>1, <2>2, <3>2, <4>1, <4>2 DEF AfterCut
    <3> QED
      BY <3>1, <3>2
  <2>6. c = first_block => t[c].prev = NULL
    <3> SUFFICES ASSUME c = first_block PROVE t[c].prev = NULL
      OBVIOUS
    <3>1. m[c].prev = NULL
      BY <2>1 DEF Linked
    <3>2. c # nxt
      BY <1>3, <1>5, <2>1, <3>1
    <3> QED
      BY <2>2, <3>1, <3>2
  <2> QED
    BY <2>3, <2>4, <2>5, <2>6 DEF Linked
<1>7. Linked(t, C, b)
  <2>1. /\ t[b].size = n /\ t[b].next = new /\ t[b].prev = m[b].prev
    BY <1>1, <1>3 DEF AfterCut
  <2>2. End(t, b) = new
    BY <2>1 DEF End
  <2>3. b # first_block => t[b].prev \in C /\ t[t[b].prev].next = b
    <3> SUFFICES ASSUME b # first_block PROVE m[b].prev \in B /\ t[m[b].prev].next = b
      BY <2>1
    <3>1. m[b].prev \in B /\ m[m[b].prev].next = b /\ m[b].prev < b
      BY PrevOf
    <3>2. m[b].prev # b
      BY <1>2, <3>1
    <3> QED
      BY <1>1, <3>1, <3>2 DEF AfterCut
  <2>4. b = first_block => t[b].prev = NULL
    BY <1>2, <2>1 DEF Linked
  <2> QED
    BY <1>1, <1>5, <2>1, <2>2, <2>3, <2>4 DEF Linked
<1>8. Linked(t, C, new)
  <2>1. End(t, new) = End(m, b)
    BY <1>1, <1>2, Sizes DEF End
  <2>2. End(t, new) = IF t[new].next = NULL THEN HeapSize ELSE t[new].next
    BY <1>1, <1>2, <2>1 DEF Linked, nxt
  <2>3. t[new].next # NULL => t[new].next \in C /\ t[t[new].next].prev = new
    BY <1>1, <1>3 DEF AfterCut
  <2>4. t[new].prev \in C /\ t[t[new].prev].next = new
    BY <1>1 DEF AfterCut
  <2> QED
    BY <1>5, <2>2, <2>3, <2>4 DEF Linked
<1> QED
  BY <1>1, <1>4, <1>6, <1>7, <1>8 DEF Chain

LEMMA AbsorbChain ==
  ASSUME NEW m, NEW B, NEW b \in B, NEW t, NEW nxt,
         Chain(m, B), nxt = m[b].next, nxt # NULL, t = Absorb(m, b)
  PROVE  Chain(t, B \ {nxt})
<1> DEFINE aft == m[nxt].next
           C == B \ {nxt}
<1>1. /\ t \in [Addr -> Headers]
      /\ AfterAbsorb(m, t, B, b, nxt, aft)
  BY AbsorbFields
<1>2. nxt \in B /\ nxt = End(m, b) /\ b < nxt /\ m[nxt].prev = b /\ nxt # first_block
  BY NextOf
<1>3. /\ b \in Nat /\ nxt \in Nat /\ b # nxt /\ b # NULL
      /\ m[b].size \in Nat /\ m[nxt].size \in Nat
      /\ Linked(m, B, b) /\ Linked(m, B, nxt)
  BY <1>2, ChainTypes DEF NULL
<1>4. aft # NULL => aft \in B /\ nxt < aft /\ m[aft].prev = nxt /\ aft # first_block /\ aft \in Nat
  BY <1>2, NextOf, ChainTypes
<1>5. aft # NULL => aft \in C /\ aft # b
  BY <1>2, <1>3, <1>4
<1>6. B \subseteq Addr /\ first_block \in B
  BY DEF Chain
<1> HIDE DEF aft
<1>7. ASSUME NEW c \in C, c # b
      PROVE  Linked(t, C, c)
  <2>1. /\ c \in B /\ c \in Nat /\ c # NULL /\ Linked(m, B, c)
    BY ChainTypes DEF NULL
  <2>2. /\ t[c].size = m[c].size /\ t[c].next = m[c].next
        /\ t[c].prev = IF c = aft THEN b ELSE m[c].prev
    BY <1>1, <1>7, <2>1 DEF AfterAbsorb
  <2>3. End(t, c) = IF t[c].next = NULL THEN HeapSize ELSE t[c].next
    BY <2>1, <2>2 DEF End, Linked
  <2>4. t[c].next # NULL => t[c].next \in C /\ t[t[c].next].prev = c
    <3> SUFFICES ASSUME m[c].next # NULL PROVE m[c].next \in C /\ t[m[c].next].prev = c
      BY <2>2
    <3>1. m[c].next \in B /\ m[m[c].next].prev = c
      BY <2>1 DEF Linked
    <3>2. m[c].next # nxt
      BY <1>2, <1>7, <3>1
    <3>3. m[c].next # aft
      BY <1>4, <3>1, ChainTypes
    <3> QED
      BY <1>1, <3>1, <3>2, <3>3 DEF AfterAbsorb
  <2>5. c # first_block => t[c].prev \in C /\ t[t[c].prev].next = c
    <3>1. CASE c = aft
      BY <1>1, <1>3, <2>2, <3>1 DEF AfterAbsorb
    <3>2. CASE c # aft /\ c # first_block
      <4>1. m[c].prev \in B /\ m[m[c].prev].next = c
        BY <2>1, <3>2 DEF Linked
      <4>2. m[c].prev # b /\ m[c].prev # nxt
        BY <3>2, <4>1 DEF aft
      <4> QED
        BY <1>1, <2>2, <3>2, <4>1, <4>2 DEF AfterAbsorb
    <3> QED
      BY <3>1, <3>2
  <2>6. c = first_block => t[c].prev = NULL
    BY <1>4, <2>1, <2>2 DEF Linked
  <2> QED
    BY <2>3, <2>4, <2>5, <2>6 DEF Linked
<1>8. Linked(t, C, b)
  <2>1. /\ t[b].size = m[b].size + Header + m[nxt].size
        /\ t[b].next = aft
        /\ t[b].prev = m[b].prev
    BY <1>1, <1>3, <1>5 DEF AfterAbsorb
  <2>2. End(t, b) = End(m, nxt)
    <3>1. nxt = b + Header + m[b].size
      BY <1>2 DEF End
    <3>2. End(t, b) = b + Header + (m[b].size + Header + m[nxt].size)
      BY <2>1 DEF End
    <3>3. End(m, nxt) = nxt + Header + m[nxt].size
      BY DEF End
    <3> QED
      BY <1>3, <3>1, <3>2, <3>3, Sizes
  <2>3. End(t, b) = IF t[b].next = NULL THEN HeapSize ELSE t[b].next
    BY <1>3, <2>1, <2>2 DEF Linked, aft
  <2>4. t[b].next # NULL => t[b].next \in C /\ t[t[b].next].prev = b
    BY <1>1, <1>5, <2>1 DEF AfterAbsorb
  <2>5. b # first_block => t[b].prev \in C /\ t[t[b].prev].next = b
    <3> SUFFICES ASSUME b # first_block PROVE m[b].prev \in C /\ t[m[b].prev].next = b
      BY <2>1
    <3>1. m[b].prev \in B /\ m[m[b].prev].next = b /\ m[b].prev < b
      BY PrevOf
    <3>2. m[b].prev \in Nat /\ m[b].prev # b /\ m[b].prev # nxt
      BY <1>2, <1>3, <3>1, ChainTypes
    <3> QED
      BY <1>1, <3>1, <3>2 DEF AfterAbsorb
  <2>6. b = first_block => t[b].prev = NULL
    BY <1>3, <2>1 DEF Linked
  <2> QED
    BY <2>3, <2>4, <2>5, <2>6 DEF Linked
<1> QED
  BY <1>1, <1>2, <1>6, <1>7, <1>8 DEF Chain

\* Marking a block changes no link.
OthersSame(m, t, B, b) == \A a \in B \ {b} : t[a] = m[a]

Marked(m, t, B, b) ==
  /\ t \in [Addr -> Headers]
  /\ OthersSame(m, t, B, b)
  /\ t[b].size = m[b].size
  /\ t[b].next = m[b].next
  /\ t[b].prev = m[b].prev

LEMMA MarkChain ==
  ASSUME NEW m, NEW B, NEW b \in B, NEW t, Chain(m, B), Marked(m, t, B, b)
  PROVE  Chain(t, B)
<1>1. B \subseteq Addr /\ first_block \in B /\ t \in [Addr -> Headers]
  BY DEF Chain, Marked
<1>2. \A a \in B : t[a].size = m[a].size /\ t[a].next = m[a].next /\ t[a].prev = m[a].prev
  BY DEF Marked, OthersSame
<1>3. ASSUME NEW c \in B PROVE Linked(t, B, c)
  <2>1. Linked(m, B, c)
    BY ChainTypes
  <2>2. End(t, c) = End(m, c)
    BY <1>2 DEF End
  <2> QED
    BY <1>2, <2>1, <2>2 DEF Linked
<1> QED
  BY <1>1, <1>3 DEF Chain

----------------------------------------------------------------------------
\* What clients see of a change: the blocks in use and their sizes.
Used(m, B, a) == a \in B /\ ~ m[a].is_free

SameUse(m, B, t, C) ==
  \A a : /\ Used(m, B, a) <=> Used(t, C, a)
         /\ Used(m, B, a) => t[a].size = m[a].size

NextFree(m, b) == m[b].next # NULL /\ m[m[b].next].is_free

\* No two free neighbours, other than b and those beside it.
ApartFrom(m, B, b) ==
  \A c \in B : m[c].is_free /\ NextFree(m, c) => c = b \/ m[c].next = b

NoFreePair(m, B) == \A c \in B : m[c].is_free => ~ NextFree(m, c)

LEMMA SameUseTwice ==
  ASSUME NEW m, NEW B, NEW s, NEW C, NEW t, NEW D,
         SameUse(m, B, s, C), SameUse(s, C, t, D)
  PROVE  SameUse(m, B, t, D)
BY DEF SameUse

LEMMA AbsorbUse ==
  ASSUME NEW m, NEW B, NEW b \in B, NEW t, NEW nxt,
         Chain(m, B), nxt = m[b].next, nxt # NULL, t = Absorb(m, b),
         m[b].is_free, m[nxt].is_free
  PROVE  SameUse(m, B, t, B \ {nxt})
<1>1. AfterAbsorb(m, t, B, b, nxt, m[nxt].next)
  BY AbsorbFields
<1> QED
  BY <1>1 DEF AfterAbsorb, SameUse, Used

\* The first half of merge_blocks.
LEMMA Forward ==
  ASSUME NEW m, NEW B, NEW b \in B, NEW t,
         Chain(m, B), m[b].is_free, ApartFrom(m, B, b),
         t = IF NextFree(m, b) THEN Absorb(m, b) ELSE m
  PROVE  \E C : /\ b \in C
                /\ Chain(t, C)
                /\ SameUse(m, B, t, C)
                /\ t[b].is_free
                /\ ~ NextFree(t, b)
                /\ ApartFrom(t, C, b)
<1>1. CASE ~ NextFree(m, b)
  <2>1. SameUse(m, B, m, B)
    BY DEF SameUse
  <2> QED
    BY <1>1, <2>1
<1>2. CASE NextFree(m, b)
  <2> DEFINE nxt == m[b].next
             aft == m[nxt].next
             C == B \ {nxt}
  <2>1. t = Absorb(m, b) /\ nxt # NULL /\ m[nxt].is_free
    BY <1>2 DEF NextFree
  <2>2. nxt \in B /\ b < nxt /\ b \in Nat /\ nxt \in Nat /\ b \in C /\ m[nxt].prev = b
    BY <2>1, NextOf, ChainTypes
  <2>3. Chain(t, C) /\ SameUse(m, B, t, C)
    BY <2>1, AbsorbChain, AbsorbUse
  <2>4. AfterAbsorb(m, t, B, b, nxt, aft)
    BY <2>1, AbsorbFields
  <2>5. aft # NULL => aft \in B /\ nxt < aft /\ aft \in Nat
    BY <2>1, <2>2, NextOf, ChainTypes
  <2>6. ~ NextFree(m, nxt)
    BY <2>1, <2>2, <2>5 DEF ApartFrom, NextFree
  <2>7. t[b].is_free /\ t[b].next = aft
    BY <2>4 DEF AfterAbsorb
  <2>8. ~ NextFree(t, b)
    BY <2>4, <2>5, <2>6, <2>7 DEF NextFree, AfterAbsorb
  <2>9. ASSUME NEW c \in C, t[c].is_free, NextFree(t, c), c # b
        PROVE  t[c].next = b
    <3>1. c \in B /\ t[c].next = m[c].next /\ m[c].is_free /\ m[c].next # NULL
      BY <2>4, <2>9 DEF NextFree, AfterAbsorb
    <3>2. m[c].next \in B
      BY <3>1, NextOf
    <3>3. NextFree(m, c)
      BY <2>4, <2>9, <3>1, <3>2 DEF NextFree, AfterAbsorb
    <3> QED
      BY <2>9, <3>1, <3>3 DEF ApartFrom
  <2>10. ApartFrom(t, C, b)
    BY <2>9 DEF ApartFrom
  <2> QED
    BY <2>2, <2>3, <2>7, <2>8, <2>10
<1> QED
  BY <1>1, <1>2

\* The second half.
LEMMA Backward ==
  ASSUME NEW m, NEW B, NEW b \in B, NEW t,
         Chain(m, B), m[b].is_free, ~ NextFree(m, b), ApartFrom(m, B, b),
         t = IF m[b].prev # NULL /\ m[m[b].prev].is_free THEN Absorb(m, m[b].prev) ELSE m
  PROVE  \E C : Chain(t, C) /\ SameUse(m, B, t, C) /\ NoFreePair(t, C)
<1> DEFINE p == m[b].prev
<1>1. ASSUME NEW c \in B, m[c].next = b
      PROVE  p = c /\ p # NULL
  BY <1>1, NextOf, ChainTypes DEF NULL
<1>2. CASE ~ (p # NULL /\ m[p].is_free)
  <2>1. NoFreePair(m, B)
    BY <1>1, <1>2 DEF NoFreePair, ApartFrom
  <2>2. SameUse(m, B, m, B)
    BY DEF SameUse
  <2> QED
    BY <1>2, <2>1, <2>2
<1>3. CASE p # NULL /\ m[p].is_free
  <2>1. b # first_block
    BY <1>3, ChainTypes DEF Linked
  <2>2. p \in B /\ m[p].next = b /\ b # NULL /\ t = Absorb(m, p)
    BY <1>3, <2>1, PrevOf, ChainTypes DEF NULL
  <2> HIDE DEF p
  <2>3. Chain(t, B \ {b}) /\ SameUse(m, B, t, B \ {b})
    BY <1>3, <2>2, AbsorbChain, AbsorbUse
  <2>4. AfterAbsorb(m, t, B, p, b, m[b].next)
    BY <2>2, AbsorbFields
  <2>5. ASSUME NEW c \in B \ {b}, t[c].is_free, NextFree(t, c)
        PROVE  FALSE
    <3>1. CASE c = p
      <4>1. t[c].next = m[b].next
        BY <2>2, <2>4, <3>1 DEF AfterAbsorb
      <4>2. m[b].next # NULL /\ m[b].next \in B
        BY <2>5, <4>1, NextOf DEF NextFree
      <4> QED
        BY <2>4, <2>5, <4>1, <4>2 DEF NextFree, AfterAbsorb
    <3>2. CASE c # p
      <4>1. t[c].next = m[c].next /\ m[c].is_free /\ m[c].next # NULL
        BY <2>4, <2>5, <3>2 DEF NextFree, AfterAbsorb
      <4>2. m[c].next \in B
        BY <4>1, NextOf
      <4>3. NextFree(m, c)
        BY <2>4, <2>5, <4>1, <4>2 DEF NextFree, AfterAbsorb
      <4> QED
        BY <1>1, <2>5, <3>2, <4>1, <4>3 DEF ApartFrom
    <3> QED
      BY <3>1, <3>2
  <2>6. NoFreePair(t, B \ {b})
    BY <2>5 DEF NoFreePair
  <2> QED
    BY <2>3, <2>6
<1> QED
  BY <1>2, <1>3

LEMMA MergeKeeps ==
  ASSUME NEW m, NEW B, NEW b \in B, NEW t,
         Chain(m, B), m[b].is_free, ApartFrom(m, B, b), t = merge_blocks(m, b)
  PROVE  \E C : Chain(t, C) /\ SameUse(m, B, t, C) /\ NoFreePair(t, C)
<1> DEFINE f == IF NextFree(m, b) THEN Absorb(m, b) ELSE m
<1>1. t = IF f[b].prev # NULL /\ f[f[b].prev].is_free THEN Absorb(f, f[b].prev) ELSE f
  BY DEF merge_blocks, NextFree
<1>2. PICK C : /\ b \in C
              /\ Chain(f, C)
              /\ SameUse(m, B, f, C)
              /\ f[b].is_free
              /\ ~ NextFree(f, b)
              /\ ApartFrom(f, C, b)
  BY Forward
<1> HIDE DEF f
<1>3. PICK D : Chain(t, D) /\ SameUse(f, C, t, D) /\ NoFreePair(t, D)
  BY <1>1, <1>2, Backward
<1> QED
  BY <1>2, <1>3, SameUseTwice

\* A block is taken: b is in use afterwards, as large as asked for and no larger
\* than it was, and nothing else is.
Takes(m, B, t, C, b, n) ==
  /\ Used(t, C, b)
  /\ t[b].size \in n..m[b].size
  /\ \A a : a # b => /\ Used(m, B, a) <=> Used(t, C, a)
                     /\ Used(m, B, a) => t[a].size = m[a].size

SetUsed(m, b) == [m EXCEPT ![b].is_free = FALSE]

LEMMA SplitKeeps ==
  ASSUME NEW m, NEW B, NEW b \in B, NEW n \in Nat, NEW s, NEW t,
         Chain(m, B), m[b].is_free, NoFreePair(m, B), n <= m[b].size,
         s = split_block(m, b, n), t = SetUsed(s, b)
  PROVE  \E C : /\ Chain(t, C)
                /\ NoFreePair(t, C)
                /\ Takes(m, B, t, C, b, n)
                /\ t[b].size = s[b].size
<1>1. m[b].size \in Nat /\ m[b].next \in Addr \cup {NULL}
  BY ChainTypes
<1>2. CASE m[b].size < n + Header + MinBlock
  <2>1. s = m
    BY <1>2 DEF split_block
  <2>2. Marked(m, t, B, b) /\ ~ t[b].is_free /\ Chain(t, B)
    <3>1. m \in [Addr -> Headers] /\ B \subseteq Addr
      BY DEF Chain
    <3>2. Marked(m, t, B, b) /\ ~ t[b].is_free
      BY <2>1, <3>1 DEF SetUsed, Marked, OthersSame, Headers
    <3> QED
      BY <3>2, MarkChain
  <2>3. NoFreePair(t, B)
    BY <2>2, NextOf DEF NoFreePair, NextFree, Marked, OthersSame
  <2>4. Takes(m, B, t, B, b, n)
    BY <1>1, <2>2 DEF Takes, Used, Marked, OthersSame
  <2> QED
    BY <2>1, <2>2, <2>3, <2>4 DEF Marked
<1>3. CASE ~ m[b].size < n + Header + MinBlock
  <2> DEFINE new == b + Header + n
             C == B \cup {new}
  <2>1. s = Cut(m, b, n) /\ n + Header + MinBlock <= m[b].size
    BY <1>1, <1>3, Sizes DEF split_block
  <2>2. /\ new \notin B
        /\ s[new].is_free
        /\ s[new].next = m[b].next
        /\ AfterCut(m, s, B, b, n, new, m[b].next)
    BY <2>1, CutFields
  <2>3. Chain(s, C)
    BY <2>1, CutChain
  <2> HIDE DEF new
  <2>4. b \in C
    OBVIOUS
  <2>5. Marked(s, t, C, b) /\ ~ t[b].is_free /\ Chain(t, C)
    <3>1. s \in [Addr -> Headers] /\ C \subseteq Addr
      BY <2>3 DEF Chain
    <3>2. Marked(s, t, C, b) /\ ~ t[b].is_free
      BY <2>4, <3>1 DEF SetUsed, Marked, OthersSame, Headers
    <3> QED
      BY <2>3, <2>4, <3>2, MarkChain
  <2>6. ASSUME NEW c \in C, t[c].is_free, NextFree(t, c)
        PROVE  FALSE
    <3>1. c # b /\ t[c] = s[c] /\ t[c].next # NULL /\ t[c].next # b
      BY <2>5, <2>6 DEF NextFree, Marked, OthersSame
    <3>2. t[c].next \in C
      BY <2>5, <3>1, NextOf
    <3>3. s[t[c].next].is_free
      BY <2>5, <2>6, <3>1, <3>2 DEF NextFree, Marked, OthersSame
    <3>4. CASE c = new
      <4>1. t[c].next = m[b].next
        BY <2>2, <3>1, <3>4
      <4>2. m[b].next \in B
        BY <3>1, <4>1, NextOf
      <4>3. m[m[b].next].is_free
        BY <2>2, <3>3, <4>1, <4>2 DEF AfterCut
      <4> QED
        BY <3>1, <4>1, <4>3 DEF NoFreePair, NextFree
    <3>5. CASE c \in B
      <4>1. t[c].next = m[c].next /\ m[c].is_free
        BY <2>2, <2>6, <3>1, <3>5 DEF AfterCut
      <4>2. m[c].next \in B
        BY <3>1, <3>5, <4>1, NextOf
      <4>3. m[m[c].next].is_free
        BY <2>2, <3>3, <4>1, <4>2 DEF AfterCut
      <4> QED
        BY <3>1, <3>5, <4>1, <4>3 DEF NoFreePair, NextFree
    <3> QED
      BY <3>4, <3>5
  <2>7. NoFreePair(t, C)
    BY <2>6 DEF NoFreePair
  <2>8. t[b].size = n
    BY <2>2, <2>5 DEF AfterCut, Marked
  <2>9. ASSUME NEW a, a # b
        PROVE  /\ Used(m, B, a) <=> Used(t, C, a)
               /\ Used(m, B, a) => t[a].size = m[a].size
    BY <2>2, <2>5, <2>9 DEF Used, AfterCut, Marked, OthersSame
  <2>10. Takes(m, B, t, C, b, n)
    BY <1>1, <2>4, <2>5, <2>8, <2>9 DEF Takes, Used
  <2> QED
    BY <2>5, <2>7, <2>10 DEF Marked
<1> QED
  BY <1>2, <1>3

----------------------------------------------------------------------------
\* The bytes in use.
Bytes(m, B) == {a \in Addr : \E b \in B : ~ m[b].is_free /\ b <= a /\ a < End(m, b)}

LEMMA BytesFinite == ASSUME NEW m, NEW B PROVE IsFiniteSet(Bytes(m, B))
<1>1. IsFiniteSet(Addr)
  BY FS_Interval, Sizes DEF Addr
<1>2. Bytes(m, B) \in SUBSET Addr
  BY DEF Bytes
<1> QED
  BY <1>1, <1>2, FS_Subset

LEMMA SameBytes ==
  ASSUME NEW m, NEW B, NEW t, NEW C, SameUse(m, B, t, C)
  PROVE  Bytes(m, B) = Bytes(t, C)
<1>1. \A b : Used(m, B, b) => End(m, b) = End(t, b)
  BY DEF SameUse, End
<1> QED
  BY <1>1 DEF Bytes, SameUse, Used

LEMMA TakenBytes ==
  ASSUME NEW m, NEW B, NEW b \in B, NEW t, NEW C, NEW n \in Nat,
         Chain(m, B), m[b].is_free, Chain(t, C), Takes(m, B, t, C, b, n)
  PROVE  Cardinality(Bytes(t, C)) = Cardinality(Bytes(m, B)) + t[b].size + Header
<1> DEFINE new == b..(End(t, b) - 1)
<1>1. b \in C /\ ~ t[b].is_free /\ t[b].size \in n..m[b].size
  BY DEF Takes, Used
<1>2. /\ b \in Nat /\ m[b].size \in Nat /\ End(m, b) \in Nat
      /\ t[b].size \in Nat /\ End(t, b) \in Nat /\ b < End(t, b)
      /\ End(t, b) = b + Header + t[b].size /\ End(m, b) = b + Header + m[b].size
  BY <1>1, ChainTypes DEF End
<1>3. End(t, b) <= End(m, b)
  BY <1>1, <1>2, Sizes
<1>4. End(m, b) <= HeapSize
  BY <1>2, ChainTypes, Sizes DEF Linked, Addr
<1>5. new \subseteq Addr
  BY <1>2, <1>3, <1>4, Sizes DEF Addr
<1>6. ASSUME NEW c, c # b
      PROVE  /\ Used(m, B, c) <=> Used(t, C, c)
             /\ Used(m, B, c) => End(t, c) = End(m, c)
  BY <1>6 DEF Takes, End
<1>7. Bytes(t, C) = Bytes(m, B) \cup new
  <2>1. ASSUME NEW a \in Bytes(t, C) PROVE a \in Bytes(m, B) \cup new
    <3>1. PICK c \in C : ~ t[c].is_free /\ c <= a /\ a < End(t, c)
      BY DEF Bytes
    <3>2. a \in Addr /\ a \in Int
      BY Sizes DEF Bytes, Addr
    <3>3. CASE c = b
      BY <1>2, <3>1, <3>2, <3>3
    <3>4. CASE c # b
      BY <1>6, <3>1, <3>2, <3>4 DEF Bytes, Used
    <3> QED
      BY <3>3, <3>4
  <2>2. ASSUME NEW a \in Bytes(m, B) PROVE a \in Bytes(t, C)
    <3>1. PICK c \in B : ~ m[c].is_free /\ c <= a /\ a < End(m, c)
      BY DEF Bytes
    <3>2. a \in Addr /\ c # b
      BY <3>1 DEF Bytes
    <3> QED
      BY <1>6, <3>1, <3>2 DEF Bytes, Used
  <2>3. ASSUME NEW a \in new PROVE a \in Bytes(t, C)
    BY <1>1, <1>2, <1>5 DEF Bytes
  <2> QED
    BY <2>1, <2>2, <2>3
<1>8. Bytes(m, B) \cap new = {}
  <2> SUFFICES ASSUME NEW a \in Bytes(m, B), a \in new PROVE FALSE
    OBVIOUS
  <2>1. PICK c \in B : ~ m[c].is_free /\ c <= a /\ a < End(m, c)
    BY DEF Bytes
  <2>2. c # b /\ c \in Nat /\ End(m, c) \in Nat
    BY <2>1, ChainTypes
  <2>3. a \in Int /\ b <= a /\ a < End(m, b)
    BY <1>2, <1>3
  <2>4. CASE c < b
    <3>1. End(m, c) <= b
      BY <2>4, Apart
    <3> QED
      BY <1>2, <2>1, <2>2, <2>3, <3>1
  <2>5. CASE b < c
    <3>1. End(m, b) <= c
      BY <2>5, Apart
    <3> QED
      BY <1>2, <2>1, <2>2, <2>3, <3>1
  <2> QED
    BY <1>2, <2>2, <2>4, <2>5
<1>9. IsFiniteSet(new) /\ Cardinality(new) = t[b].size + Header
  <2>1. End(t, b) - 1 \in Int /\ b <= End(t, b) - 1
    BY <1>2
  <2>2. IsFiniteSet(new) /\ Cardinality(new) = (End(t, b) - 1) - b + 1
    BY <1>2, <2>1, FS_Interval
  <2>3. (End(t, b) - 1) - b + 1 = t[b].size + Header
    BY <1>2, Sizes
  <2> QED
    BY <2>2, <2>3
<1>10. Cardinality({}) = 0
  BY FS_EmptySet
<1>11. IsFiniteSet(Bytes(m, B))
  BY BytesFinite
<1>12. Cardinality(Bytes(m, B)) \in Nat
  BY <1>11, FS_CardinalityType
<1> HIDE DEF new
<1>13. Cardinality(Bytes(m, B) \cup new)
         = Cardinality(Bytes(m, B)) + Cardinality(new) - Cardinality(Bytes(m, B) \cap new)
  BY <1>9, <1>11, FS_Union
<1> QED
  BY <1>2, <1>7, <1>8, <1>9, <1>10, <1>12, <1>13, Sizes

----------------------------------------------------------------------------
\* Each pointer of own is behind the header of a block in use, and each block in
\* use has one.
Holders(m, B, own) ==
  /\ \A o \in own : o.ptr \in Int /\ Used(m, B, o.ptr - Header)
  /\ \A b : Used(m, B, b) => \E o \in own : o.ptr = b + Header
  /\ \A o, p \in own : o.ptr = p.ptr => o = p

HeapOf(m, B, used, own) ==
  /\ Chain(m, B)
  /\ NoFreePair(m, B)
  /\ used = Cardinality(Bytes(m, B))
  /\ Holders(m, B, own)

HeapInv == HeapOf(mem, List, used_memory, owned)

\* Blocks are no smaller than what clients asked for.
Roomy(m, own) == \A o \in own : o.asked \in Nat /\ m[o.ptr - Header].size >= o.asked

LEMMA TakeKeeps ==
  ASSUME NEW m, NEW B, NEW used, NEW own, NEW b \in B, NEW t, NEW C, NEW n \in Nat, NEW o,
         HeapOf(m, B, used, own), m[b].is_free,
         Chain(t, C), NoFreePair(t, C), Takes(m, B, t, C, b, n), o.ptr = b + Header
  PROVE  HeapOf(t, C, used + t[b].size + Header, own \cup {o})
<1>1. Chain(m, B) /\ Holders(m, B, own) /\ used = Cardinality(Bytes(m, B))
  BY DEF HeapOf
<1>2. used + t[b].size + Header = Cardinality(Bytes(t, C))
  BY <1>1, TakenBytes
<1>3. b \in Nat /\ ~ Used(m, B, b) /\ Used(t, C, b)
  BY <1>1, ChainTypes DEF Used, Takes
<1>4. o.ptr \in Int /\ o.ptr - Header = b
  BY <1>3, Sizes
<1>5. \A p \in own : p.ptr \in Int /\ Used(m, B, p.ptr - Header)
  BY <1>1 DEF Holders
<1>6. \A p \in own : p.ptr - Header # b /\ p.ptr # o.ptr
  BY <1>3, <1>4, <1>5
<1>7. ASSUME NEW p \in own \cup {o} PROVE p.ptr \in Int /\ Used(t, C, p.ptr - Header)
  BY <1>3, <1>4, <1>5, <1>6 DEF Takes
<1>8. ASSUME NEW c, Used(t, C, c) PROVE \E p \in own \cup {o} : p.ptr = c + Header
  BY <1>1, <1>8 DEF Takes, Holders
<1>9. ASSUME NEW p \in own \cup {o}, NEW q \in own \cup {o}, p.ptr = q.ptr PROVE p = q
  BY <1>1, <1>6, <1>9 DEF Holders
<1>10. Holders(t, C, own \cup {o})
  BY <1>7, <1>8, <1>9 DEF Holders
<1> QED
  BY <1>2, <1>10 DEF HeapOf

LEMMA GiveKeeps ==
  ASSUME NEW m, NEW B, NEW used, NEW own, NEW o \in own, NEW b, NEW s, NEW t, NEW C,
         HeapOf(m, B, used, own), b = o.ptr - Header,
         Marked(m, s, B, b), s[b].is_free, SameUse(s, B, t, C),
         Chain(t, C), NoFreePair(t, C)
  PROVE  HeapOf(t, C, used - (m[b].size + Header), own \ {o})
<1>1. Chain(m, B) /\ Holders(m, B, own) /\ used = Cardinality(Bytes(m, B))
  BY DEF HeapOf
<1>2. b \in B /\ ~ m[b].is_free
  BY <1>1 DEF Holders, Used
<1>3. b \in Nat /\ m[b].size \in Nat /\ o.ptr \in Int /\ o.ptr = b + Header
  <2>1. o.ptr \in Int
    BY <1>1 DEF Holders
  <2> QED
    BY <1>1, <1>2, <2>1, ChainTypes, Sizes
<1>4. Chain(s, B)
  BY <1>1, <1>2, MarkChain
<1>5. ASSUME NEW a, a # b
      PROVE  /\ Used(s, B, a) <=> Used(m, B, a)
             /\ Used(s, B, a) => m[a].size = s[a].size
  BY <1>5 DEF Used, Marked, OthersSame
<1>6. Takes(s, B, m, B, b, 0)
  BY <1>2, <1>3, <1>5 DEF Takes, Used, Marked
<1>7. Cardinality(Bytes(m, B)) = Cardinality(Bytes(s, B)) + m[b].size + Header
  BY <1>1, <1>2, <1>4, <1>6, TakenBytes
<1>8. Bytes(s, B) = Bytes(t, C)
  BY SameBytes
<1>9. Cardinality(Bytes(s, B)) \in Nat
  BY BytesFinite, FS_CardinalityType
<1>10. used - (m[b].size + Header) = Cardinality(Bytes(t, C))
  <2>1. PICK n \in Nat : n = Cardinality(Bytes(s, B))
    BY <1>9
  <2>2. PICK k \in Nat : k = m[b].size
    BY <1>3
  <2>3. used = n + k + Header
    BY <1>1, <1>7, <2>1, <2>2
  <2>4. used - (k + Header) = n
    BY <2>3, Sizes
  <2> QED
    BY <1>8, <2>1, <2>2, <2>4
<1>11. \A a : Used(t, C, a) <=> Used(m, B, a) /\ a # b
  BY <1>5 DEF SameUse, Used
<1>12. \A p \in own \ {o} : p \in own /\ p.ptr \in Int /\ p.ptr # o.ptr /\ Used(m, B, p.ptr - Header)
  BY <1>1 DEF Holders
<1>13. \A p \in own \ {o} : p.ptr \in Int /\ Used(t, C, p.ptr - Header)
  BY <1>3, <1>11, <1>12, Sizes
<1>14. ASSUME NEW c, Used(t, C, c) PROVE \E p \in own \ {o} : p.ptr = c + Header
  <2>1. Used(m, B, c) /\ c # b
    BY <1>11, <1>14
  <2>2. PICK p \in own : p.ptr = c + Header
    BY <1>1, <2>1 DEF Holders
  <2>3. c \in Nat
    BY <1>1, <2>1, ChainTypes DEF Used
  <2> QED
    BY <1>3, <2>1, <2>2, <2>3, Sizes
<1>15. Holders(t, C, own \ {o})
  BY <1>1, <1>13, <1>14 DEF Holders
<1> QED
  BY <1>10, <1>15 DEF HeapOf

----------------------------------------------------------------------------
\* The steps of Allocator.
LEMMA RoundUpBounds ==
  ASSUME NEW n \in Nat
  PROVE  /\ RoundUp(n) \in Nat
         /\ n + Align <= WordMod => RoundUp(n) >= n
<1> DEFINE s == (n + Align - 1) % WordMod
<1>1. Align \in Nat \ {0} /\ WordMod \in Nat \ {0}
  BY AllocatorAssumption
<1>2. s \in Nat /\ s < WordMod
  BY <1>1
<1>3. n + Align - 1 < WordMod => s = n + Align - 1
  BY <1>1
<1>4. RoundUp(n) = s - (s % Align)
  BY DEF RoundUp
<1> HIDE DEF s
<1>5. s % Align \in Nat /\ s % Align < Align /\ s % Align <= s
  BY <1>1, <1>2
<1> QED
  BY <1>1, <1>2, <1>3, <1>4, <1>5

LEMMA InitHeap == Init => HeapInv
<1> SUFFICES ASSUME Init PROVE HeapInv
  OBVIOUS
<1> DEFINE B == {first_block}
<1>1. PICK m : m = mem
  OBVIOUS
<1>2. /\ m \in [Addr -> Headers]
      /\ m[first_block] = [size |-> HeapSize - Header, is_free |-> TRUE,
                           next |-> NULL, prev |-> NULL]
      /\ B \subseteq Addr
  <2>1. first_block \in Addr /\ 0 \in 0..HeapSize /\ HeapSize - Header \in 0..HeapSize
    <3>1. Header + MinBlock <= HeapSize
      BY AllocatorAssumption
    <3> QED
      BY <3>1, Sizes DEF Addr, first_block
  <2>2. /\ [size |-> HeapSize - Header, is_free |-> TRUE, next |-> NULL, prev |-> NULL]
             \in Headers
        /\ NoHeader \in Headers
    BY <2>1 DEF Headers, NoHeader
  <2> QED
    BY <1>1, <2>1, <2>2 DEF Init
<1>3. End(m, first_block) = HeapSize
  BY <1>2, Sizes DEF End, first_block
<1>4. Linked(m, B, first_block)
  BY <1>2, <1>3 DEF Linked
<1>5. Chain(m, B)
  BY <1>2, <1>4 DEF Chain
<1>6. NoFreePair(m, B)
  BY <1>2 DEF NoFreePair, NextFree
<1>7. Bytes(m, B) = {} /\ used_memory = 0
  BY <1>2 DEF Bytes, Init
<1>8. Holders(m, B, owned)
  BY <1>2 DEF Holders, Used, Init
<1>9. List = B
  BY <1>1, <1>5, VisitsAll DEF List, Visited
<1> QED
  BY <1>1, <1>5, <1>6, <1>7, <1>8, <1>9, FS_EmptySet DEF HeapInv, HeapOf

LEMMA VisitedNext ==
  ASSUME NEW m, NEW B, m = mem', Chain(m, B) PROVE List' = B
BY VisitsAll DEF List, Visited

\* What kmalloc and kfree leave, and the blocks of it.
LEMMA MallocStep ==
  ASSUME HeapInv, NEW n \in 0..MaxRequest, kmalloc(n)
  PROVE  /\ HeapInv'
         /\ MaxRequest + Align <= WordMod /\ Roomy(mem, owned) => Roomy(mem, owned)'
<1> DEFINE r == RoundUp(n)
<1>1. PICK k \in 0..MaxBlocks :
         LET b == Block(mem, k)
             m == split_block(mem, b, r)
         IN /\ Fits(mem, b, r)
            /\ mem' = [m EXCEPT ![b].is_free = FALSE]
            /\ used_memory' = used_memory + m[b].size + Header
            /\ owned' = owned \cup {[ptr |-> b + Header, asked |-> n]}
  BY DEF kmalloc
<1>2. PICK b : b = Block(mem, k)
  OBVIOUS
<1>3. PICK s : s = split_block(mem, b, r)
  OBVIOUS
<1>4. PICK t : t = mem'
  OBVIOUS
<1>5. PICK o : o = [ptr |-> b + Header, asked |-> n]
  OBVIOUS
<1>6. /\ t = SetUsed(s, b)
      /\ used_memory' = used_memory + s[b].size + Header
      /\ owned' = owned \cup {o}
  BY <1>1, <1>2, <1>3, <1>4, <1>5 DEF SetUsed
<1>7. b \in List /\ mem[b].is_free /\ mem[b].size >= r
  BY <1>1, <1>2 DEF Fits, List
<1>8. HeapOf(mem, List, used_memory, owned) /\ Chain(mem, List) /\ NoFreePair(mem, List)
  BY DEF HeapInv, HeapOf
<1>9. n \in Nat /\ n <= MaxRequest /\ MaxRequest \in Nat
  BY AllocatorAssumption
<1>10. r \in Nat /\ (n + Align <= WordMod => r >= n)
  BY <1>9, RoundUpBounds
<1> HIDE DEF r
<1>11. mem[b].size \in Nat /\ r <= mem[b].size
  BY <1>7, <1>8, <1>10, ChainTypes
<1>12. PICK C : /\ Chain(t, C)
               /\ NoFreePair(t, C)
               /\ Takes(mem, List, t, C, b, r)
               /\ t[b].size = s[b].size
  BY <1>3, <1>6, <1>7, <1>8, <1>10, <1>11, SplitKeeps
<1>13. HeapOf(t, C, used_memory + t[b].size + Header, owned \cup {o})
  BY <1>5, <1>7, <1>8, <1>10, <1>12, TakeKeeps
<1>14. HeapOf(mem', C, used_memory', owned')
  BY <1>4, <1>6, <1>12, <1>13
<1>15. List' = C
  BY <1>4, <1>12, VisitedNext
<1>16. HeapInv'
  BY <1>14, <1>15 DEF HeapInv
<1>17. ASSUME MaxRequest + Align <= WordMod, Roomy(mem, owned) PROVE Roomy(mem, owned)'
  <2>1. r >= n
    <3>1. Align \in Nat /\ WordMod \in Nat
      BY AllocatorAssumption
    <3> QED
      BY <1>9, <1>10, <1>17, <3>1
  <2>2. b \in Nat
    BY <1>7, <1>8, ChainTypes
  <2>3. o.ptr - Header = b /\ o.asked = n
    BY <1>5, <2>2, Sizes
  <2>4. t[b].size \in Int /\ t[b].size >= n
    BY <1>9, <1>10, <1>11, <1>12, <2>1 DEF Takes
  <2>5. ASSUME NEW p \in owned
        PROVE  p.asked \in Nat /\ t[p.ptr - Header].size >= p.asked
    <3>1. Used(mem, List, p.ptr - Header) /\ p.ptr - Header # b
      BY <1>7, <1>8 DEF HeapOf, Holders, Used
    <3> QED
      BY <1>12, <1>17, <3>1 DEF Takes, Roomy
  <2>6. ASSUME NEW p \in owned \cup {o}
        PROVE  p.asked \in Nat /\ t[p.ptr - Header].size >= p.asked
    BY <1>9, <2>3, <2>4, <2>5
  <2> QED
    BY <1>4, <1>6, <2>6 DEF Roomy
<1> QED
  BY <1>16, <1>17

LEMMA FreeStep ==
  ASSUME HeapInv, NEW o \in owned, kfree(o)
  PROVE  HeapInv' /\ (Roomy(mem, owned) => Roomy(mem, owned)')
<1>1. PICK b : b = o.ptr - Header
  OBVIOUS
<1>2. PICK s : s = [mem EXCEPT ![b].is_free = TRUE]
  OBVIOUS
<1>3. PICK t : t = mem'
  OBVIOUS
<1>4. HeapOf(mem, List, used_memory, owned) /\ Chain(mem, List) /\ NoFreePair(mem, List)
      /\ Holders(mem, List, owned)
  BY DEF HeapInv, HeapOf
<1>5. b \in List /\ ~ mem[b].is_free
  BY <1>1, <1>4 DEF Holders, Used
<1>6. /\ t = merge_blocks(s, b)
      /\ used_memory' = used_memory - (mem[b].size + Header)
      /\ owned' = owned \ {o}
  BY <1>1, <1>2, <1>3, <1>5 DEF kfree
<1>7. Marked(mem, s, List, b) /\ s[b].is_free
  <2>1. mem \in [Addr -> Headers] /\ List \subseteq Addr
    BY <1>4 DEF Chain
  <2> QED
    BY <1>2, <1>5, <2>1 DEF Marked, OthersSame, Headers
<1>8. Chain(s, List)
  BY <1>4, <1>5, <1>7, MarkChain
<1>9. ApartFrom(s, List, b)
  <2> SUFFICES ASSUME NEW c \in List, s[c].is_free, NextFree(s, c), c # b, s[c].next # b
               PROVE  FALSE
    BY DEF ApartFrom
  <2>1. s[c] = mem[c] /\ s[c].next # NULL
    BY <1>7 DEF Marked, OthersSame, NextFree
  <2>2. s[c].next \in List
    BY <1>8, <2>1, NextOf
  <2>3. mem[mem[c].next].is_free
    BY <1>7, <2>1, <2>2 DEF Marked, OthersSame, NextFree
  <2> QED
    BY <1>4, <2>1, <2>3 DEF NoFreePair, NextFree
<1>10. PICK C : Chain(t, C) /\ SameUse(s, List, t, C) /\ NoFreePair(t, C)
  BY <1>5, <1>6, <1>7, <1>8, <1>9, MergeKeeps
<1>11. HeapOf(t, C, used_memory - (mem[b].size + Header), owned \ {o})
  BY <1>1, <1>4, <1>7, <1>10, GiveKeeps
<1>12. HeapOf(mem', C, used_memory', owned')
  BY <1>3, <1>6, <1>11
<1>13. List' = C
  BY <1>3, <1>10, VisitedNext
<1>14. HeapInv'
  BY <1>12, <1>13 DEF HeapInv
<1>15. ASSUME Roomy(mem, owned) PROVE Roomy(mem, owned)'
  <2>1. ASSUME NEW p \in owned \ {o}
        PROVE  p.asked \in Nat /\ t[p.ptr - Header].size >= p.asked
    <3>1. /\ Used(mem, List, p.ptr - Header) /\ p.ptr # o.ptr
          /\ p.ptr \in Int /\ o.ptr \in Int
      BY <1>4 DEF Holders
    <3>2. p.ptr - Header # b
      BY <1>1, <3>1, Sizes
    <3>3. /\ Used(s, List, p.ptr - Header)
          /\ s[p.ptr - Header].size = mem[p.ptr - Header].size
      BY <1>7, <3>1, <3>2 DEF Used, Marked, OthersSame
    <3> QED
      BY <1>10, <1>15, <3>3 DEF SameUse, Roomy
  <2> QED
    BY <1>3, <1>6, <2>1 DEF Roomy
<1> QED
  BY <1>14, <1>15

\* The inductive invariant of the heap.
THEOREM HeapHolds == Spec => []HeapInv
<1>1. HeapInv /\ [Next]_vars => HeapInv'
  <2> SUFFICES ASSUME HeapInv, [Next]_vars PROVE HeapInv'
    OBVIOUS
  <2>1. CASE UNCHANGED vars
    BY <2>1 DEF HeapInv, List, vars
  <2>2. CASE Next
    BY <2>2, MallocStep, FreeStep DEF Next
  <2> QED
    BY <2>1, <2>2
<1> QED
  BY <1>1, InitHeap, PTL DEF Spec

\* Splits and merges keep the heap tiled: no byte is lost, none is in two
\* blocks, and the list can be walked both ways.
THEOREM HeapTiled == Spec => []Tiled
<1>1. HeapInv => Tiled
  BY ChainTypes DEF HeapInv, HeapOf, Linked, End, Tiled, EndOf
<1> QED
  BY <1>1, HeapHolds, PTL

\* kfree never leaves two free blocks side by side.
THEOREM HeapCoalesced == Spec => []Coalesced
<1>1. HeapInv => Coalesced
  BY DEF HeapInv, HeapOf, NoFreePair, NextFree, Coalesced
<1> QED
  BY <1>1, HeapHolds, PTL

\* used_memory counts the bytes in use, headers included, whatever was split and
\* merged, also after requests whose rounded size overflows.
THEOREM UsedMemoryExact == Spec => []UsedIsExact
<1>1. HeapInv => UsedIsExact
  BY DEF HeapInv, HeapOf, UsedIsExact, InUse, Bytes, EndOf, End
<1> QED
  BY <1>1, HeapHolds, PTL

\* A client's block is its own, in use and as large as it asked for, if no
\* request is so large that rounding it up overflows.
THEOREM ClientsApart ==
  ASSUME MaxRequest + Align <= WordMod PROVE Spec => []OwnedAreUsed
<1>1. Init => Roomy(mem, owned)
  BY DEF Init, Roomy
<1>2. HeapInv /\ Roomy(mem, owned) /\ [Next]_vars => Roomy(mem, owned)'
  <2> SUFFICES ASSUME HeapInv, Roomy(mem, owned), [Next]_vars PROVE Roomy(mem, owned)'
    OBVIOUS
  <2>1. CASE UNCHANGED vars
    BY <2>1 DEF Roomy, vars
  <2>2. CASE Next
    BY <2>2, MallocStep, FreeStep DEF Next
  <2> QED
    BY <2>1, <2>2
<1>3. HeapInv /\ Roomy(mem, owned) => OwnedAreUsed
  <2> SUFFICES ASSUME HeapInv, Roomy(mem, owned) PROVE OwnedAreUsed
    OBVIOUS
  <2>1. Holders(mem, List, owned) /\ Chain(mem, List)
    BY DEF HeapInv, HeapOf
  <2>2. ASSUME NEW b \in List, ~ mem[b].is_free
        PROVE  \E o \in owned : o.ptr - Header = b
    <3>1. PICK o \in owned : o.ptr = b + Header
      BY <2>1, <2>2 DEF Holders, Used
    <3> QED
      BY <2>1, <3>1, ChainTypes, Sizes
  <2>3. {o.ptr - Header : o \in owned} = {b \in List : ~ mem[b].is_free}
    BY <2>1, <2>2 DEF Holders, Used
  <2> QED
    BY <2>1, <2>3 DEF OwnedAreUsed, Holders, Roomy
<1> QED
  BY <1>1, <1>2, <1>3, HeapHolds, PTL DEF Spec

=============================================================================
