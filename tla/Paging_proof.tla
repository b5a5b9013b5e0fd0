---------------------------- MODULE Paging_proof ----------------------------
(***************************************************************************)
(* The memory of stages 07 and 12, for any sizes: page tables cut from the *)
(* heap, physical pages, and the blocks of address spaces and processes.   *)
(***************************************************************************)
EXTENDS Paging, FiniteSetTheorems, WellFoundedInduction, TLAPS

----------------------------------------------------------------------------
\* Rounding to frames.

LEMMA Division ==
  ASSUME NEW a \in Nat, NEW n \in Nat \ {0}
  PROVE  /\ a \div n \in Nat
         /\ (a \div n) * n <= a
         /\ a < (a \div n) * n + n
BY Z3

LEMMA TimesOrder ==
  ASSUME NEW a \in Int, NEW b \in Int, NEW n \in Nat \ {0}
  PROVE  a * n <= b * n <=> a <= b
BY Z3

LEMMA FrameFromRounds ==
  ASSUME NEW a \in Nat
  PROVE  /\ FrameFrom(a) \in Nat
         /\ FrameFrom(a) * PAGE_SIZE >= a
         /\ FrameFrom(a) * PAGE_SIZE < a + PAGE_SIZE
<1>1. PAGE_SIZE \in Nat \ {0}
  BY PagingAssumption
<1>2. PICK x \in Nat : x = a + PAGE_SIZE - 1
  BY <1>1
<1>3. FrameFrom(a) = x \div PAGE_SIZE
  BY <1>2 DEF FrameFrom
<1>4. /\ x \div PAGE_SIZE \in Nat /\ (x \div PAGE_SIZE) * PAGE_SIZE <= x
      /\ x < (x \div PAGE_SIZE) * PAGE_SIZE + PAGE_SIZE
  BY <1>1, Division
<1>5. PICK f \in Nat : f = x \div PAGE_SIZE
  BY <1>4
<1>6. PICK y \in Int : y = f * PAGE_SIZE
  BY <1>1, <1>5
<1>7. y <= x /\ x < y + PAGE_SIZE
  BY <1>4, <1>5, <1>6
<1>8. y >= a /\ y < a + PAGE_SIZE
  BY <1>1, <1>2, <1>7
<1> QED
  BY <1>3, <1>5, <1>6, <1>8

----------------------------------------------------------------------------
\* Stage 07.  A frame that lies in the heap, and below where it is still free.
InHeap(f) == f \in Idx /\ f >= HeapStart /\ (f + 1) * PAGE_SIZE <= HeapEnd
Cut(f, top) == InHeap(f) /\ (f + 1) * PAGE_SIZE <= top

\* The directory and its tables are frames of the heap of their own, and they
\* say of every page what A says.
Shape(M, dir, top, A) ==
  /\ M \in [Idx \cup ClientFrames -> [Idx -> Int]]
  /\ A \in [VPages -> Int]
  /\ top \in (HeapStart * PAGE_SIZE)..HeapEnd
  /\ Cut(dir, top)
  /\ \A i \in Idx : M[dir][i] # None => Cut(M[dir][i], top) /\ M[dir][i] # dir
  /\ \A i, j \in Idx : i # j /\ M[dir][i] # None => M[dir][i] # M[dir][j]
  /\ \A v \in VPages : WalkIn(M, dir, v) = A[v]

\* The pages of the heap are where its addresses say.
HeapInPlace(A) == \A f \in Idx : InHeap(f) => A[<< 0, f >>] = f

TlbFollows ==
  /\ tlb \subseteq ClientPages \X Int
  /\ \A t \in tlb : t[2] = asked[t[1]]

InBlock(t) == t[1] * PAGE_SIZE >= t[2] /\ (t[1] + 1) * PAGE_SIZE <= t[2] + t[3]
AllInBlocks(T) == \A t \in T : InBlock(t)

TablesInv ==
  /\ starved \in BOOLEAN
  /\ ~ starved =>
       /\ AllInBlocks(tables)
       /\ ~ paging_on =>
            /\ mem \in [Idx \cup ClientFrames -> [Idx -> Int]]
            /\ heap_top = HeapStart * PAGE_SIZE
            /\ tlb = {}
       /\ paging_on => /\ Shape(mem, page_directory, heap_top, asked)
                       /\ HeapInPlace(asked)
                       /\ TlbFollows

\* The program reaches a frame of the heap under the address that is its own.
AtIsFrame == \A f \in Idx : InHeap(f) => At(f) = f

Taking(M, top, T, s) == [mem |-> M, top |-> top, tables |-> T, starved |-> s]

LEMMA KmallocMoves ==
  ASSUME NEW m, NEW n \in Nat \ {0}, m.top \in (HeapStart * PAGE_SIZE)..HeapEnd
  PROVE  /\ KmallocTop(m, n) \in m.top..HeapEnd
         /\ KmallocTop(m, n) \in (HeapStart * PAGE_SIZE)..HeapEnd
         /\ KmallocPtr(m, n) # NULL => /\ KmallocPtr(m, n) = m.top + 1
                                       /\ KmallocPtr(m, n) \in Nat
                                       /\ KmallocPtr(m, n) + n <= KmallocTop(m, n)
<1> DEFINE start == HeapStart * PAGE_SIZE
<1>1. start \in Nat
  BY PagingAssumption
<1>2. HeapEnd = start + HeapUnits /\ HeapUnits \in Nat
  BY PagingAssumption DEF HeapEnd
<1>3. m.top \in start..HeapEnd
  OBVIOUS
<1> HIDE DEF start
<1>4. KmallocTop(m, n) \in m.top..HeapEnd
  BY <1>1, <1>2, <1>3 DEF KmallocTop
<1>5. KmallocTop(m, n) \in start..HeapEnd
  BY <1>1, <1>2, <1>3, <1>4
<1>6. ASSUME KmallocPtr(m, n) # NULL
      PROVE  /\ KmallocPtr(m, n) = m.top + 1
             /\ KmallocPtr(m, n) \in Nat
             /\ KmallocPtr(m, n) + n <= KmallocTop(m, n)
  BY <1>1, <1>2, <1>3, <1>6 DEF KmallocTop, KmallocPtr
<1> QED
  BY <1>4, <1>5, <1>6 DEF start

\* The frame of a table: whole in the block, above all that was cut before.
LEMMA TableFrame ==
  ASSUME NEW m, m.top \in (HeapStart * PAGE_SIZE)..HeapEnd,
         KmallocPtr(m, 2 * PAGE_SIZE) # NULL,
         NEW f, f = FrameFrom(KmallocPtr(m, 2 * PAGE_SIZE))
  PROVE  /\ Cut(f, KmallocTop(m, 2 * PAGE_SIZE))
         /\ f * PAGE_SIZE > m.top
         /\ InBlock(<< f, KmallocPtr(m, 2 * PAGE_SIZE), 2 * PAGE_SIZE >>)
<1> DEFINE ptr == KmallocPtr(m, 2 * PAGE_SIZE)
           top == KmallocTop(m, 2 * PAGE_SIZE)
           start == HeapStart * PAGE_SIZE
<1>1. PAGE_SIZE \in Nat \ {0} /\ 2 * PAGE_SIZE \in Nat \ {0}
  BY PagingAssumption
<1>2. /\ ptr = m.top + 1 /\ ptr \in Nat /\ ptr + 2 * PAGE_SIZE <= top
      /\ top \in start..HeapEnd
  BY <1>1, KmallocMoves
<1>3. /\ start \in Nat /\ HeapEnd \in Nat /\ HeapEnd <= Entries * PAGE_SIZE
      /\ m.top \in start..HeapEnd
  BY PagingAssumption DEF HeapEnd
<1>4. /\ f \in Nat
      /\ f * PAGE_SIZE >= ptr
      /\ f * PAGE_SIZE < ptr + PAGE_SIZE
  BY <1>2, FrameFromRounds
<1>5. (f + 1) * PAGE_SIZE = f * PAGE_SIZE + PAGE_SIZE
  BY <1>1, <1>4
<1>6. f * PAGE_SIZE \in Nat /\ Entries \in Nat
  BY <1>1, <1>4, PagingAssumption
<1> HIDE DEF ptr, top, start
<1>7. (f + 1) * PAGE_SIZE <= ptr + 2 * PAGE_SIZE
  BY <1>1, <1>2, <1>4, <1>5, <1>6
<1>8. (f + 1) * PAGE_SIZE <= top /\ (f + 1) * PAGE_SIZE <= HeapEnd
  BY <1>1, <1>2, <1>3, <1>5, <1>6, <1>7
<1>9. f + 1 <= Entries
  <2>1. (f + 1) * PAGE_SIZE <= Entries * PAGE_SIZE
    BY <1>1, <1>3, <1>5, <1>6, <1>8
  <2> QED
    BY <2>1, <1>1, <1>4, <1>6, TimesOrder
<1>10. f >= HeapStart
  <2>1. HeapStart * PAGE_SIZE <= f * PAGE_SIZE
    BY <1>2, <1>3, <1>4, <1>6 DEF start
  <2> QED
    BY <2>1, <1>1, <1>4, PagingAssumption, TimesOrder
<1>11. f \in Idx
  BY <1>4, <1>6, <1>9 DEF Idx
<1>12. f * PAGE_SIZE > m.top
  BY <1>2, <1>3, <1>4, <1>6
<1> QED
  BY <1>2, <1>4, <1>7, <1>8, <1>10, <1>11, <1>12 DEF Cut, InHeap, InBlock, ptr, top

LEMMA AtSelf == ASSUME TablesInv, ~ starved PROVE AtIsFrame
<1> SUFFICES ASSUME NEW f \in Idx, InHeap(f) PROVE At(f) = f
  BY DEF AtIsFrame
<1>1. CASE ~ paging_on
  BY <1>1 DEF At
<1>2. CASE paging_on
  <2>1. /\ Shape(mem, page_directory, heap_top, asked)
        /\ HeapInPlace(asked) /\ TlbFollows
    BY <1>2 DEF TablesInv
  <2>2. 0 \in Idx
    BY PagingAssumption DEF Idx
  <2>3. << 0, f >> \in VPages
    BY <2>2 DEF VPages
  <2>4. << 0, f >> \notin ClientPages
    BY ClientsAssumption, PagingAssumption DEF InHeap, Idx, HeapEnd
  <2>5. {t \in tlb : t[1] = << 0, f >>} = {}
    BY <2>1, <2>4 DEF TlbFollows
  <2>6. Walk(<< 0, f >>) = f
    BY <2>1, <2>3 DEF Walk, Shape, HeapInPlace
  <2> QED
    BY <1>2, <2>5, <2>6 DEF At
<1> QED
  BY <1>1, <1>2

\* map_page makes a table where there is none; every page stays where it was.
LEMMA WithTableShape ==
  ASSUME NEW M, NEW dir, NEW top, NEW T, NEW s \in BOOLEAN, NEW A, NEW i \in Idx,
         NEW m, NEW w, m = Taking(M, top, T, s), w = WithTable(m, dir, i), ~ w.starved,
         AtIsFrame, Shape(M, dir, top, A), AllInBlocks(T)
  PROVE  /\ w = Taking(w.mem, w.top, w.tables, w.starved)
         /\ Shape(w.mem, dir, w.top, A)
         /\ w.mem[dir][i] # None
         /\ AllInBlocks(w.tables)
         /\ ~ s /\ w.starved \in BOOLEAN
<1> DEFINE ptr == KmallocPtr(m, 2 * PAGE_SIZE)
           top2 == KmallocTop(m, 2 * PAGE_SIZE)
           g == FrameFrom(ptr)
<1>1. m.mem = M /\ m.top = top /\ m.tables = T /\ m.starved = s
  BY DEF Taking
<1>2. dir \in Idx /\ Cut(dir, top) /\ At(dir) = dir
  BY DEF Shape, Cut, InHeap, AtIsFrame
<1>3. CASE M[dir][i] # None
  <2>1. w = m
    BY <1>1, <1>2, <1>3 DEF WithTable
  <2> QED
    BY <1>1, <1>3, <2>1 DEF Taking
<1>4. CASE M[dir][i] = None
  <2>1. w = new_table(m, dir, i)
    BY <1>1, <1>2, <1>4 DEF WithTable
  <2>2. w.starved = (s \/ ptr = NULL)
    BY <1>1, <2>1 DEF new_table, Taking
  <2>3. ptr # NULL /\ ~ s
    BY <2>2
  <2>4. top \in (HeapStart * PAGE_SIZE)..HeapEnd
    BY DEF Shape
  <2>5. /\ Cut(g, top2) /\ g * PAGE_SIZE > top
        /\ InBlock(<< g, ptr, 2 * PAGE_SIZE >>)
    BY <1>1, <2>3, <2>4, TableFrame
  <2>6. g \in Idx /\ At(g) = g
    BY <2>5 DEF Cut, InHeap, AtIsFrame
  <2>7. /\ w.mem = [M EXCEPT ![g] = Empty, ![dir][i] = g]
        /\ w.top = top2
        /\ w.tables = T \cup {<< g, ptr, 2 * PAGE_SIZE >>}
        /\ w = Taking(w.mem, w.top, w.tables, w.starved)
    BY <1>1, <1>2, <2>1, <2>6 DEF new_table, Taking
  <2>8. top2 \in top..HeapEnd /\ top2 \in (HeapStart * PAGE_SIZE)..HeapEnd
    BY <1>1, <2>4, KmallocMoves, PagingAssumption
  <2> HIDE DEF ptr, top2, g
  <2>9. \A f \in Idx : Cut(f, top) => f # g /\ Cut(f, top2)
    <3> SUFFICES ASSUME NEW f \in Idx, Cut(f, top) PROVE f # g /\ Cut(f, top2)
      OBVIOUS
    <3>1. (f + 1) * PAGE_SIZE = f * PAGE_SIZE + PAGE_SIZE
      BY PagingAssumption DEF Idx
    <3>2. f * PAGE_SIZE \in Nat /\ PAGE_SIZE \in Nat \ {0} /\ top \in Nat
      BY <2>4, PagingAssumption DEF Idx
    <3>3. top2 \in Nat /\ top <= top2
      BY <2>8, <3>2
    <3> QED
      BY <2>5, <3>1, <3>2, <3>3 DEF Cut
  <2>10. dir # g /\ Cut(dir, top2)
    BY <1>2, <2>9
  <2>11. Empty \in [Idx -> Int] /\ (\A j \in Idx : Empty[j] = None) /\ g \in Int
    BY <2>6 DEF Empty, None, Idx
  <2>12. M \in [Idx \cup ClientFrames -> [Idx -> Int]]
    BY DEF Shape
  <2>13. w.mem \in [Idx \cup ClientFrames -> [Idx -> Int]]
    <3> DEFINE N == [M EXCEPT ![g] = Empty]
    <3>1. N \in [Idx \cup ClientFrames -> [Idx -> Int]]
      BY <2>6, <2>11, <2>12
    <3>2. w.mem = [N EXCEPT ![dir] = [N[dir] EXCEPT ![i] = g]]
      BY <2>7
    <3> HIDE DEF N
    <3>3. [N[dir] EXCEPT ![i] = g] \in [Idx -> Int]
      BY <1>2, <2>11, <3>1
    <3> QED
      BY <1>2, <3>1, <3>2, <3>3
  <2>14. /\ w.mem[dir][i] = g
         /\ \A j \in Idx \ {i} : w.mem[dir][j] = M[dir][j]
         /\ w.mem[g] = Empty
         /\ \A f \in Idx \ {dir, g} : w.mem[f] = M[f]
    BY <1>2, <2>6, <2>7, <2>10, <2>12
  <2>15. \A j \in Idx : M[dir][j] # None =>
           M[dir][j] \in Idx \ {dir, g} /\ Cut(M[dir][j], top2)
    BY <2>9 DEF Shape, Cut, InHeap
  <2>16. \A v \in VPages : WalkIn(w.mem, dir, v) = WalkIn(M, dir, v)
    <3> SUFFICES ASSUME NEW v \in VPages
                 PROVE  WalkIn(w.mem, dir, v) = WalkIn(M, dir, v)
      OBVIOUS
    <3>1. v[1] \in Idx /\ v[2] \in Idx
      BY DEF VPages
    <3>2. CASE v[1] = i
      <4>1. WalkIn(w.mem, dir, v) = None
        BY <2>11, <2>14, <3>1, <3>2 DEF WalkIn
      <4>2. WalkIn(M, dir, v) = None
        BY <1>4, <3>2 DEF WalkIn
      <4> QED
        BY <4>1, <4>2
    <3>3. CASE v[1] # i
      BY <2>14, <2>15, <3>1, <3>3 DEF WalkIn
    <3> QED
      BY <3>2, <3>3
  <2>17. g # None
    BY <2>6 DEF Idx, None
  <2>18. \A j \in Idx : w.mem[dir][j] # None => Cut(w.mem[dir][j], top2) /\ w.mem[dir][j] # dir
    BY <2>5, <2>10, <2>14, <2>15
  <2>19. \A j, k \in Idx : j # k /\ w.mem[dir][j] # None => w.mem[dir][j] # w.mem[dir][k]
    <3> SUFFICES ASSUME NEW j \in Idx, NEW k \in Idx, j # k, w.mem[dir][j] # None,
                        w.mem[dir][j] = w.mem[dir][k]
                 PROVE  FALSE
      OBVIOUS
    <3>1. CASE j # i /\ k # i
      BY <2>14, <3>1 DEF Shape
    <3>2. CASE j = i \/ k = i
      BY <2>14, <2>15, <2>17, <3>2
    <3> QED
      BY <3>1, <3>2
  <2>20. Shape(w.mem, dir, w.top, A)
    BY <2>7, <2>8, <2>10, <2>13, <2>16, <2>18, <2>19 DEF Shape
  <2>21. AllInBlocks(w.tables)
    BY <2>5, <2>7 DEF ptr, g, AllInBlocks
  <2> QED
    BY <2>2, <2>3, <2>7, <2>14, <2>17, <2>20, <2>21
<1> QED
  BY <1>3, <1>4

\* The pages of entry i are where the table says, the others where they were.
Rewritten(A, i, row) == [v \in VPages |-> IF v[1] = i THEN row[v[2]] ELSE A[v]]

\* Writing a table changes the pages of its entry and no other.
LEMMA FillShape ==
  ASSUME NEW M, NEW dir, NEW top, NEW A, NEW i \in Idx, NEW row \in [Idx -> Int],
         NEW N, N = [M EXCEPT ![M[dir][i]] = row],
         NEW B, B = Rewritten(A, i, row),
         Shape(M, dir, top, A), M[dir][i] # None
  PROVE  Shape(N, dir, top, B)
<1> DEFINE t == M[dir][i]
<1>1. M \in [Idx \cup ClientFrames -> [Idx -> Int]] /\ A \in [VPages -> Int]
  BY DEF Shape
<1>2. dir \in Idx /\ t \in Idx /\ t # dir
  BY DEF Shape, Cut, InHeap
<1>3. /\ N \in [Idx \cup ClientFrames -> [Idx -> Int]]
      /\ N[t] = row /\ \A f \in Idx \ {t} : N[f] = M[f]
  BY <1>1, <1>2
<1>4. N[dir] = M[dir]
  BY <1>2, <1>3
<1>5. B \in [VPages -> Int]
  BY <1>1 DEF Rewritten, VPages
<1>6. ASSUME NEW v \in VPages PROVE WalkIn(N, dir, v) = B[v]
  <2>1. v[1] \in Idx /\ v[2] \in Idx
    BY DEF VPages
  <2>2. CASE v[1] = i
    BY <1>3, <1>4, <2>1, <2>2 DEF WalkIn, Rewritten
  <2>3. CASE v[1] # i
    <3>1. B[v] = WalkIn(M, dir, v)
      BY <2>3 DEF Shape, Rewritten
    <3>2. CASE M[dir][v[1]] = None
      BY <1>4, <3>1, <3>2 DEF WalkIn
    <3>3. CASE M[dir][v[1]] # None
      <4>1. M[dir][v[1]] # t /\ M[dir][v[1]] \in Idx
        BY <2>1, <2>3, <3>3 DEF Shape, Cut, InHeap
      <4> QED
        BY <1>3, <1>4, <3>1, <3>3, <4>1 DEF WalkIn
    <3> QED
      BY <3>2, <3>3
  <2> QED
    BY <2>2, <2>3
<1>7. /\ \A j \in Idx : N[dir][j] # None => Cut(N[dir][j], top) /\ N[dir][j] # dir
      /\ \A j, k \in Idx : j # k /\ N[dir][j] # None => N[dir][j] # N[dir][k]
  BY <1>4 DEF Shape
<1>8. top \in (HeapStart * PAGE_SIZE)..HeapEnd /\ Cut(dir, top)
  BY DEF Shape
<1> QED
  BY <1>3, <1>5, <1>6, <1>7, <1>8 DEF Shape

WithEntry(M, dir, v, f) == [M EXCEPT ![M[dir][v[1]]][v[2]] = f]

LEMMA EntryShape ==
  ASSUME NEW M, NEW dir, NEW top, NEW A, NEW v \in VPages, NEW f \in Int,
         NEW N, N = WithEntry(M, dir, v, f),
         NEW B, B = [A EXCEPT ![v] = f],
         Shape(M, dir, top, A), M[dir][v[1]] # None
  PROVE  Shape(N, dir, top, B)
<1> DEFINE table == M[dir][v[1]]
           row == [M[table] EXCEPT ![v[2]] = f]
<1>1. v[1] \in Idx /\ v[2] \in Idx /\ v = << v[1], v[2] >>
  BY DEF VPages
<1>2. table \in Idx
  BY <1>1 DEF Shape, Cut, InHeap
<1>3. M[table] \in [Idx -> Int] /\ A \in [VPages -> Int]
  BY <1>2 DEF Shape
<1>4. row \in [Idx -> Int] /\ row[v[2]] = f /\ \A j \in Idx \ {v[2]} : row[j] = M[table][j]
  BY <1>1, <1>3
<1>5. B = Rewritten(A, v[1], row)
  <2>1. \A u \in VPages : u[1] = v[1] => A[u] = M[table][u[2]]
    BY DEF Shape, WalkIn
  <2>2. \A u \in VPages : u[1] \in Idx /\ u[2] \in Idx /\ (u = v <=> u[1] = v[1] /\ u[2] = v[2])
    BY <1>1 DEF VPages
  <2>3. \A u \in VPages : B[u] = IF u = v THEN f ELSE A[u]
    BY <1>3
  <2>4. \A u \in VPages : B[u] = IF u[1] = v[1] THEN row[u[2]] ELSE A[u]
    BY <1>4, <2>1, <2>2, <2>3
  <2> QED
    BY <1>3, <2>4 DEF Rewritten
<1>6. N = [M EXCEPT ![M[dir][v[1]]] = row]
  BY DEF WithEntry
<1> HIDE DEF row, table
<1> QED
  BY <1>1, <1>4, <1>5, <1>6, FillShape

LEMMA MappedShape ==
  ASSUME NEW M, NEW dir, NEW top, NEW T, NEW s \in BOOLEAN, NEW A,
         NEW v \in VPages, NEW f \in Int,
         NEW m, NEW w, m = Taking(M, top, T, s), w = Mapped(m, dir, v, f), ~ w.starved,
         AtIsFrame, Shape(M, dir, top, A), AllInBlocks(T)
  PROVE  /\ Shape(w.mem, dir, w.top, [A EXCEPT ![v] = f])
         /\ AllInBlocks(w.tables)
         /\ ~ s /\ w.starved \in BOOLEAN
<1> DEFINE t == WithTable(m, dir, v[1])
           B == [A EXCEPT ![v] = f]
<1>1. v[1] \in Idx /\ v[2] \in Idx /\ v = << v[1], v[2] >>
  BY DEF VPages
<1>2. w = [t EXCEPT !.mem[At(t.mem[At(dir)][v[1]])][v[2]] = f]
  BY DEF Mapped
<1>3. w.starved = t.starved
  <2>1. CASE t = m
    BY <1>2, <2>1 DEF Taking
  <2>2. CASE t = new_table(m, dir, v[1])
    BY <1>2, <2>2 DEF new_table, Taking
  <2> QED
    BY <2>1, <2>2 DEF WithTable
<1>4. /\ t = Taking(t.mem, t.top, t.tables, t.starved)
      /\ Shape(t.mem, dir, t.top, A)
      /\ t.mem[dir][v[1]] # None
      /\ AllInBlocks(t.tables)
      /\ ~ s /\ t.starved \in BOOLEAN
  <2>1. ~ t.starved /\ t = WithTable(m, dir, v[1])
    BY <1>3
  <2> HIDE DEF t
  <2> QED
    BY <1>1, <2>1, WithTableShape
<1> HIDE DEF t
<1>5. dir \in Idx /\ At(dir) = dir
  BY <1>4 DEF Shape, Cut, InHeap, AtIsFrame
<1> DEFINE table == t.mem[dir][v[1]]
<1>6. table \in Idx /\ At(table) = table
  BY <1>1, <1>4 DEF Shape, Cut, InHeap, AtIsFrame
<1>7. /\ w.mem = [t.mem EXCEPT ![t.mem[dir][v[1]]][v[2]] = f]
      /\ w.top = t.top /\ w.tables = t.tables
  BY <1>2, <1>4, <1>5, <1>6 DEF Taking
<1>8. w.mem = WithEntry(t.mem, dir, v, f)
  BY <1>7 DEF WithEntry
<1> HIDE DEF table
<1>9. Shape(w.mem, dir, t.top, B)
  BY <1>4, <1>8, EntryShape
<1> QED
  BY <1>3, <1>4, <1>7, <1>9

LEMMA InitPaging == ASSUME TablesInv, paging_init_07 PROVE TablesInv'
<1> DEFINE size == 2 * PAGE_SIZE
           ptr == KmallocPtr(Machine, size)
           dir == FrameFrom(ptr)
           top == KmallocTop(Machine, size)
           N == [mem EXCEPT ![dir] = Empty]
           T == {<< dir, ptr, size >>}
           m == Taking(N, top, T, starved)
           w == WithTable(m, dir, 0)
           row == [i \in Idx |-> i]
           A == [v \in VPages |-> None]
<1>1. /\ ~ paging_on
      /\ mem' = [w.mem EXCEPT ![w.mem[dir][0]] = row]
      /\ heap_top' = w.top /\ tables' = w.tables /\ starved' = w.starved
  <2>2. /\ ~ paging_on
        /\ Install([w EXCEPT !.mem[w.mem[dir][0]] = row])
    BY DEF paging_init_07, Taking
  <2>3. w = Taking(w.mem, w.top, w.tables, w.starved)
    BY DEF WithTable, new_table, Taking
  <2> HIDE DEF w, row
  <2> QED
    BY <2>2, <2>3 DEF Install, Taking
<1>2. /\ page_directory' = dir /\ paging_on' = TRUE /\ tlb' = tlb
      /\ asked' = [v \in VPages |-> IF v[1] = 0 THEN v[2] ELSE None]
  BY DEF paging_init_07
<1>3. starved \in BOOLEAN /\ starved' \in BOOLEAN /\ (starved => starved')
  <2>1. starved \in BOOLEAN
    BY DEF TablesInv
  <2>2. w.starved = starved \/ w.starved = (starved \/ KmallocPtr(m, size) = NULL)
    BY DEF WithTable, new_table, Taking
  <2> QED
    BY <1>1, <2>1, <2>2
<1>4. SUFFICES ASSUME ~ starved' PROVE TablesInv'
  BY <1>3 DEF TablesInv
<1>5. ~ starved /\ ~ w.starved
  BY <1>1, <1>3, <1>4
<1>6. /\ mem \in [Idx \cup ClientFrames -> [Idx -> Int]]
      /\ heap_top = HeapStart * PAGE_SIZE /\ tlb = {}
      /\ Machine.top = heap_top
  BY <1>1, <1>5 DEF TablesInv, Machine
<1>7. /\ HeapStart * PAGE_SIZE \in Nat /\ HeapEnd \in Nat /\ heap_top \in (HeapStart * PAGE_SIZE)..HeapEnd
      /\ size \in Nat \ {0} /\ PAGE_SIZE \in Nat \ {0} /\ 0 \in Idx
  BY <1>6, PagingAssumption DEF HeapEnd, Idx
<1>8. Empty \in [Idx -> Int] /\ (\A j \in Idx : Empty[j] = None) /\ None \in Int
  BY DEF Empty, None
<1>9. AtIsFrame /\ At(dir) = dir
  BY <1>1, <1>5, AtSelf DEF At
<1>10. ptr # NULL
  <2> SUFFICES ASSUME ptr = NULL PROVE FALSE
    OBVIOUS
  <2>1. dir = 0
    <3>1. dir \in Nat /\ dir * PAGE_SIZE < PAGE_SIZE
      BY FrameFromRounds, <1>7 DEF NULL
    <3>2. dir # 0 => dir * PAGE_SIZE >= 1 * PAGE_SIZE
      BY <3>1, <1>7, TimesOrder
    <3> QED
      BY <3>1, <3>2, <1>7
  <2>2. m.mem[At(dir)][0] = None
    BY <1>6, <1>7, <1>8, <1>9, <2>1 DEF Taking
  <2>3. w = new_table(m, dir, 0)
    BY <2>2 DEF WithTable
  <2>4. KmallocPtr(m, size) = NULL
    <3>1. heap_top + 1 + size > HeapEnd
      BY <1>6, <1>7 DEF KmallocPtr, NULL
    <3>2. top = heap_top
      BY <1>6, <3>1 DEF KmallocTop
    <3>3. m.top = heap_top
      BY <3>2 DEF Taking
    <3>4. ~ m.top + 1 + size <= HeapEnd
      BY <1>7, <3>1, <3>3, PagingAssumption DEF HeapEnd
    <3> QED
      BY <3>4 DEF KmallocPtr
  <2>5. w.starved = (m.starved \/ KmallocPtr(m, size) = NULL)
    BY <2>3 DEF new_table, Taking
  <2> QED
    BY <1>5, <2>4, <2>5
<1>11. Cut(dir, top) /\ InBlock(<< dir, ptr, size >>) /\ top \in (HeapStart * PAGE_SIZE)..HeapEnd
  BY <1>6, <1>7, <1>10, TableFrame, KmallocMoves
<1>12. dir \in Idx
  BY <1>11 DEF Cut, InHeap
<1>13. Shape(N, dir, top, A)
  <2>1. N \in [Idx \cup ClientFrames -> [Idx -> Int]] /\ N[dir] = Empty
    BY <1>6, <1>8, <1>12
  <2>2. A \in [VPages -> Int]
    BY <1>8
  <2> HIDE DEF N
  <2>3. \A v \in VPages : WalkIn(N, dir, v) = A[v]
    BY <1>8, <2>1 DEF WalkIn, VPages
  <2> HIDE DEF A, top, dir
  <2> QED
    BY <1>8, <1>11, <2>1, <2>2, <2>3 DEF Shape
<1>14. AllInBlocks(T)
  BY <1>11 DEF AllInBlocks
<1>15. row \in [Idx -> Int]
  BY DEF Idx
<1>16. m = Taking(N, top, T, starved) /\ w = WithTable(m, dir, 0)
  OBVIOUS
<1> HIDE DEF m, w, N, T, dir, top, ptr, A, row
<1>17. /\ Shape(w.mem, dir, w.top, A) /\ w.mem[dir][0] # None /\ AllInBlocks(w.tables)
  BY <1>3, <1>5, <1>7, <1>9, <1>13, <1>14, <1>16, WithTableShape
<1> DEFINE B == Rewritten(A, 0, row)
<1>18. B = [v \in VPages |-> IF v[1] = 0 THEN v[2] ELSE None]
  BY DEF row, A, VPages, Rewritten
<1>19. PICK M2 : M2 = [w.mem EXCEPT ![w.mem[dir][0]] = row]
  OBVIOUS
<1> HIDE DEF B
<1>20. Shape(M2, dir, w.top, B)
  <2>1. B = Rewritten(A, 0, row)
    BY DEF B
  <2> QED
    BY <1>7, <1>15, <1>17, <1>19, <2>1, FillShape
<1>21. Shape(mem', page_directory', heap_top', asked')
  BY <1>1, <1>2, <1>18, <1>19, <1>20
<1>22. HeapInPlace(asked')
  BY <1>2, <1>7 DEF HeapInPlace, VPages
<1>23. TlbFollows'
  BY <1>2, <1>6 DEF TlbFollows
<1>24. AllInBlocks(tables')
  BY <1>1, <1>17
<1> QED
  BY <1>2, <1>3, <1>21, <1>22, <1>23, <1>24 DEF TablesInv

\* What map_page and alloc_page_at have in common.
LEMMA MapStep ==
  ASSUME TablesInv, paging_on, NEW v \in ClientPages, NEW f \in Int,
         NEW top \in heap_top..HeapEnd,
         NEW w, w = Mapped(Taking(mem, top, tables, starved), page_directory, v, f),
         Install(w), invlpg(v), asked' = [asked EXCEPT ![v] = f],
         page_directory' = page_directory, paging_on' = paging_on
  PROVE  TablesInv'
<1> DEFINE m == Taking(mem, top, tables, starved)
<1>1. /\ mem' = w.mem /\ heap_top' = w.top /\ tables' = w.tables /\ starved' = w.starved
      /\ tlb' = {t \in tlb : t[1] # v}
  BY DEF Install, invlpg
<1>2. starved \in BOOLEAN /\ starved' \in BOOLEAN /\ (starved => starved')
  <2>1. starved \in BOOLEAN
    BY DEF TablesInv
  <2>2. w.starved = starved \/ w.starved = (starved \/ KmallocPtr(m, 2 * PAGE_SIZE) = NULL)
    BY DEF Mapped, WithTable, new_table, Taking
  <2> QED
    BY <1>1, <2>1, <2>2
<1>3. SUFFICES ASSUME ~ starved' PROVE TablesInv'
  BY <1>2 DEF TablesInv
<1>4. ~ starved /\ ~ w.starved
  BY <1>1, <1>2, <1>3
<1>5. /\ Shape(mem, page_directory, heap_top, asked)
      /\ HeapInPlace(asked) /\ TlbFollows /\ AllInBlocks(tables)
  BY <1>4 DEF TablesInv
<1>6. v \in VPages /\ v[1] \in Idx /\ v[2] \in Idx /\ v = << v[1], v[2] >>
  BY ClientsAssumption DEF VPages
<1>7. \A g \in Idx : InHeap(g) => v # << 0, g >>
  BY ClientsAssumption, PagingAssumption DEF InHeap, Idx, HeapEnd
<1>8. Shape(mem, page_directory, top, asked)
  <2>a. HeapStart * PAGE_SIZE \in Nat /\ HeapEnd \in Nat
    BY PagingAssumption DEF HeapEnd
  <2>b. heap_top \in (HeapStart * PAGE_SIZE)..HeapEnd
    BY <1>5 DEF Shape
  <2>1. /\ HeapStart * PAGE_SIZE \in Nat /\ HeapEnd \in Nat
        /\ heap_top \in (HeapStart * PAGE_SIZE)..HeapEnd
    BY <2>a, <2>b
  <2>2. top \in (HeapStart * PAGE_SIZE)..HeapEnd
    BY <2>1
  <2>3. \A g \in Idx : Cut(g, heap_top) => Cut(g, top)
    <3> SUFFICES ASSUME NEW g \in Idx, Cut(g, heap_top) PROVE Cut(g, top)
      OBVIOUS
    <3>1. (g + 1) * PAGE_SIZE \in Int
      BY PagingAssumption DEF Idx
    <3> QED
      BY <2>1, <3>1 DEF Cut
  <2>4. \A g : Cut(g, heap_top) => g \in Idx
    BY DEF Cut, InHeap
  <2>5. Cut(page_directory, top)
    BY <1>5, <2>3, <2>4 DEF Shape
  <2>6. \A i \in Idx : mem[page_directory][i] # None =>
          Cut(mem[page_directory][i], top) /\ mem[page_directory][i] # page_directory
    BY <1>5, <2>3, <2>4 DEF Shape
  <2> QED
    BY <1>5, <2>2, <2>5, <2>6 DEF Shape
<1>9. AtIsFrame
  BY <1>4, AtSelf
<1>10. /\ Shape(w.mem, page_directory, w.top, [asked EXCEPT ![v] = f])
       /\ AllInBlocks(w.tables)
  <2>1. w = Mapped(m, page_directory, v, f) /\ m = Taking(mem, top, tables, starved)
    OBVIOUS
  <2> HIDE DEF m
  <2>2. starved \in BOOLEAN /\ ~ w.starved /\ v \in VPages /\ AllInBlocks(tables)
    BY <1>2, <1>4, <1>5, <1>6
  <2> QED
    BY <1>8, <1>9, <2>1, <2>2, MappedShape
<1>11. Shape(mem', page_directory', heap_top', asked') /\ AllInBlocks(tables')
  BY <1>1, <1>10
<1>12. asked \in [VPages -> Int]
  BY <1>5 DEF Shape
<1>13. HeapInPlace(asked')
  <2>1. \A g \in Idx : InHeap(g) => << 0, g >> \in VPages \ {v}
    BY <1>7, PagingAssumption DEF VPages, Idx
  <2> QED
    BY <1>5, <1>12, <2>1 DEF HeapInPlace
<1>14. TlbFollows'
  BY <1>1, <1>5, <1>12, ClientsAssumption DEF TlbFollows
<1> QED
  BY <1>2, <1>11, <1>13, <1>14 DEF TablesInv

LEMMA UnmapStep ==
  ASSUME TablesInv, NEW v \in ClientPages, unmap_page(v) PROVE TablesInv'
<1> DEFINE table == mem[At(page_directory)][v[1]]
<1>1. /\ paging_on /\ paging_on' = paging_on /\ page_directory' = page_directory
      /\ heap_top' = heap_top /\ tables' = tables /\ starved' = starved
      /\ asked' = [asked EXCEPT ![v] = None]
      /\ table # None => /\ mem' = [mem EXCEPT ![At(table)][v[2]] = None]
                         /\ tlb' = {t \in tlb : t[1] # v}
      /\ table = None => mem' = mem /\ tlb' = tlb
  BY DEF unmap_page, invlpg
<1>2. SUFFICES ASSUME ~ starved PROVE TablesInv'
  BY <1>1 DEF TablesInv
<1>3. /\ Shape(mem, page_directory, heap_top, asked)
      /\ HeapInPlace(asked) /\ TlbFollows /\ AllInBlocks(tables)
  BY <1>1, <1>2 DEF TablesInv
<1>4. v \in VPages /\ v[1] \in Idx /\ v[2] \in Idx /\ asked \in [VPages -> Int]
  BY <1>3, ClientsAssumption DEF VPages, Shape
<1>5. At(page_directory) = page_directory /\ (table # None => At(table) = table)
  BY <1>2, <1>3, <1>4, AtSelf DEF AtIsFrame, Shape, Cut, InHeap
<1>6. None \in Int
  BY DEF None
<1>7. Shape(mem', page_directory, heap_top, asked') /\ TlbFollows'
  <2>1. CASE table = None
    <3>1. asked[v] = None
      BY <1>3, <1>4, <1>5, <2>1 DEF Shape, WalkIn
    <3>2. asked' = asked
      BY <1>1, <1>4, <3>1
    <3> QED
      BY <1>1, <1>3, <2>1, <3>2 DEF TlbFollows
  <2>2. CASE table # None
    <3>0. PICK f \in Int : f = None
      BY <1>6
    <3>1. PICK N, B : /\ N = WithEntry(mem, page_directory, v, f)
                      /\ B = [asked EXCEPT ![v] = f]
      OBVIOUS
    <3>2. Shape(N, page_directory, heap_top, B)
      <4>1. mem[page_directory][v[1]] # None /\ Shape(mem, page_directory, heap_top, asked)
        BY <1>3, <1>5, <2>2
      <4>2. v \in VPages
        BY <1>4
      <4> HIDE DEF table
      <4> QED
        BY <3>1, <4>1, <4>2, EntryShape
    <3>3. mem' = N /\ asked' = B
      BY <1>1, <1>5, <2>2, <3>0, <3>1 DEF WithEntry
    <3>4. TlbFollows'
      BY <1>1, <1>3, <1>4, <2>2, ClientsAssumption DEF TlbFollows
    <3> QED
      BY <3>2, <3>3, <3>4
  <2> QED
    BY <2>1, <2>2
<1>8. HeapInPlace(asked')
  <2>1. \A g \in Idx : InHeap(g) => << 0, g >> \in VPages \ {v}
    BY ClientsAssumption, PagingAssumption DEF InHeap, Idx, HeapEnd, VPages
  <2> QED
    BY <1>1, <1>3, <1>4, <2>1 DEF HeapInPlace
<1> QED
  BY <1>1, <1>2, <1>3, <1>7, <1>8 DEF TablesInv

LEMMA AccessStep ==
  ASSUME TablesInv, NEW v \in ClientPages, Access(v) PROVE TablesInv'
<1>1. /\ paging_on /\ tlb' = tlb \cup {<< v, Walk(v) >>}
      /\ UNCHANGED << mem, heap_top, page_directory, paging_on, asked, tables, starved >>
  BY DEF Access
<1>2. SUFFICES ASSUME ~ starved PROVE TablesInv'
  BY <1>1 DEF TablesInv
<1>3. /\ Shape(mem, page_directory, heap_top, asked)
      /\ HeapInPlace(asked) /\ TlbFollows /\ AllInBlocks(tables)
  BY <1>1, <1>2 DEF TablesInv
<1>4. v \in VPages /\ Walk(v) = asked[v] /\ asked[v] \in Int
  BY <1>3, ClientsAssumption DEF Shape, Walk
<1>5. TlbFollows'
  BY <1>1, <1>3, <1>4 DEF TlbFollows
<1> QED
  BY <1>1, <1>3, <1>5 DEF TablesInv

LEMMA TableStepKeeps == ASSUME TablesInv, TableStep PROVE TablesInv'
<1>1. CASE paging_init_07
  BY <1>1, InitPaging
<1>2. ASSUME NEW v \in ClientPages, NEW f \in ClientFrames, map_page(v, f)
      PROVE  TablesInv'
  <2>1. CASE starved
    <3>1. starved' \in BOOLEAN /\ starved'
      BY <1>2, <2>1 DEF map_page, Install, Machine, Mapped, WithTable, new_table
    <3> QED
      BY <3>1 DEF TablesInv
  <2>2. CASE ~ starved
    <3>1. heap_top \in heap_top..HeapEnd
      <4>1. HeapStart * PAGE_SIZE \in Nat /\ HeapEnd \in Nat
        BY PagingAssumption DEF HeapEnd
      <4>2. heap_top \in (HeapStart * PAGE_SIZE)..HeapEnd
        BY <1>2, <2>2 DEF map_page, TablesInv, Shape
      <4> QED
        BY <4>1, <4>2
    <3>2. PICK w : w = Mapped(Taking(mem, heap_top, tables, starved), page_directory, v, f)
      OBVIOUS
    <3>3. f \in Int
      BY ClientsAssumption
    <3>4. /\ paging_on /\ Install(w) /\ invlpg(v) /\ asked' = [asked EXCEPT ![v] = f]
          /\ page_directory' = page_directory /\ paging_on' = paging_on
      BY <1>2, <3>2 DEF map_page, Machine, Taking
    <3> QED
      BY <3>1, <3>2, <3>3, <3>4, MapStep
  <2> QED
    BY <2>1, <2>2
<1>3. ASSUME NEW v \in ClientPages, unmap_page(v) PROVE TablesInv'
  BY <1>3, UnmapStep
<1>4. ASSUME NEW v \in ClientPages, alloc_page_at(v) PROVE TablesInv'
  <2>1. CASE starved
    <3>1. starved' \in BOOLEAN /\ starved'
      BY <1>4, <2>1 DEF alloc_page_at, Install, Machine, Mapped, WithTable, new_table
    <3> QED
      BY <3>1 DEF TablesInv
  <2>2. CASE ~ starved
    <3> DEFINE ptr == KmallocPtr(Machine, PAGE_SIZE)
               top == KmallocTop(Machine, PAGE_SIZE)
               f == FrameOf(ptr)
    <3>1. Machine.top = heap_top /\ heap_top \in (HeapStart * PAGE_SIZE)..HeapEnd
      BY <1>4, <2>2 DEF alloc_page_at, TablesInv, Shape, Machine
    <3>2. ptr # NULL /\ ptr \in Nat /\ top \in heap_top..HeapEnd
      BY <1>4, <3>1, PagingAssumption, KmallocMoves DEF alloc_page_at
    <3>3. f \in Int
      BY <3>2, Division, PagingAssumption DEF FrameOf
    <3>4. PICK w : w = Mapped(Taking(mem, top, tables, starved), page_directory, v, f)
      OBVIOUS
    <3>5. [Machine EXCEPT !.top = top] = Taking(mem, top, tables, starved)
      <4> HIDE DEF top
      <4> QED
        BY DEF Machine, Taking
    <3>6. /\ paging_on /\ Install(w) /\ invlpg(v) /\ asked' = [asked EXCEPT ![v] = f]
          /\ page_directory' = page_directory /\ paging_on' = paging_on
      BY <1>4, <3>4, <3>5 DEF alloc_page_at
    <3> HIDE DEF ptr, top, f
    <3> QED
      BY <3>2, <3>3, <3>4, <3>6, MapStep
  <2> QED
    BY <2>1, <2>2
<1>5. ASSUME NEW v \in ClientPages, Access(v) PROVE TablesInv'
  BY <1>5, AccessStep
<1> QED
  BY <1>1, <1>2, <1>3, <1>4, <1>5 DEF TableStep

----------------------------------------------------------------------------
\* Stage 12: physical pages.

PagesInv == TypeOK /\ MarkedIsHeld /\ HintSound

LEMMA AllocInv == ASSUME PagesInv, alloc_physical_page PROVE PagesInv'
<1>1. PICK i \in first_free_page..(Pages - 1) :
        /\ ~ physical_page_bitmap[i]
        /\ \A j \in first_free_page..(i - 1) : physical_page_bitmap[j]
        /\ physical_page_bitmap' = [physical_page_bitmap EXCEPT ![i] = TRUE]
        /\ first_free_page' = i + 1
        /\ held' = held \cup {i}
  BY DEF alloc_physical_page
<1>2. i \in PageNos /\ first_free_page \in 0..Pages
  BY PagesAssumption DEF PagesInv, TypeOK, PageNos
<1>3. TypeOK'
  BY <1>1, <1>2, PagesAssumption DEF PagesInv, TypeOK, PageNos
<1>4. MarkedIsHeld'
  <2>1. i >= Reserved
    BY <1>1, <1>2, PagesAssumption DEF PagesInv, MarkedIsHeld, PageNos
  <2>2. \A k \in PageNos : physical_page_bitmap'[k] <=> k = i \/ physical_page_bitmap[k]
    BY <1>1, <1>2 DEF PagesInv, TypeOK
  <2> QED
    BY <1>1, <2>1, <2>2 DEF PagesInv, MarkedIsHeld
<1>5. HintSound'
  <2> SUFFICES ASSUME NEW k \in 0..i PROVE physical_page_bitmap'[k]
    BY <1>1, <1>2 DEF HintSound, PageNos
  <2>1. CASE k = i
    BY <1>1, <1>2, <2>1 DEF PagesInv, TypeOK
  <2>2. CASE k < first_free_page
    BY <1>1, <1>2, <2>2, PagesAssumption DEF PagesInv, TypeOK, HintSound, PageNos
  <2>3. CASE k >= first_free_page /\ k < i
    BY <1>1, <1>2, <2>3, PagesAssumption DEF PagesInv, TypeOK, PageNos
  <2> QED
    BY <1>2, <2>1, <2>2, <2>3 DEF PageNos
<1> QED
  BY <1>3, <1>4, <1>5 DEF PagesInv

LEMMA FreeInv ==
  ASSUME PagesInv, NEW i \in PageNos, free_physical_page(i) PROVE PagesInv'
<1>1. /\ i \in held
      /\ physical_page_bitmap' = [physical_page_bitmap EXCEPT ![i] = FALSE]
      /\ first_free_page' = IF i < first_free_page THEN i ELSE first_free_page
      /\ held' = held \ {i}
  BY DEF free_physical_page
<1>2. TypeOK'
  BY <1>1, PagesAssumption DEF PagesInv, TypeOK, PageNos
<1>3. MarkedIsHeld'
  <2>1. \A k \in PageNos : physical_page_bitmap'[k] <=> k # i /\ physical_page_bitmap[k]
    BY <1>1 DEF PagesInv, TypeOK
  <2> QED
    BY <1>1, <2>1, PagesAssumption DEF PagesInv, MarkedIsHeld, PageNos
<1>4. HintSound'
  BY <1>1, PagesAssumption DEF PagesInv, TypeOK, HintSound, PageNos
<1> QED
  BY <1>2, <1>3, <1>4 DEF PagesInv

LEMMA InitPages == ASSUME Init PROVE PagesInv
<1>1. \A i \in PageNos : physical_page_bitmap[i] = (i < Reserved)
  BY DEF Init
<1>2. TypeOK
  BY PagesAssumption DEF Init, TypeOK, PageNos
<1>3. HintSound
  <2> SUFFICES ASSUME NEW i \in 0..(first_free_page - 1) PROVE physical_page_bitmap[i]
    BY DEF HintSound
  <2>1. i \in PageNos /\ i < Reserved
    BY PagesAssumption DEF Init, PageNos
  <2> QED
    BY <1>1, <2>1
<1> QED
  BY <1>1, <1>2, <1>3 DEF Init, PagesInv, MarkedIsHeld

----------------------------------------------------------------------------
\* Stage 12: the blocks of address spaces and processes.

Of(o) == {o.pcb, o.space, o.directory} \ {NULL}

SpacesInv ==
  /\ blocks \subseteq 1..Blocks
  /\ owners \subseteq [pcb : 0..Blocks, space : 1..Blocks, directory : 1..Blocks]
  /\ BlocksHaveOneOwner

\* Every set of numbers that is not empty has a least one.
LEMMA LeastNat ==
  ASSUME NEW T \in SUBSET Nat, T # {}
  PROVE  \E i \in T : \A j \in T : i <= j
<1> DEFINE R == OpToRel(<, Nat)
<1>1. IsWellFoundedOn(R, Nat)
  BY NatLessThanWellFounded
<1>2. \A x, y \in Nat : << x, y >> \in R <=> x < y
  BY DEF OpToRel
<1> HIDE DEF R
<1>3. PICK i \in T : \A j \in T : ~ << j, i >> \in R
  BY <1>1, WFMin
<1>4. i \in Nat /\ \A j \in T : j \in Nat /\ ~ j < i
  BY <1>2, <1>3
<1>5. \A j \in T : i <= j
  BY <1>4
<1> QED
  BY <1>5

\* kmalloc's answer is NULL or a block that nobody has.
LEMMA TakenIsFree ==
  ASSUME NEW b PROVE Taken(b) = NULL \/ Taken(b) \in (1..Blocks) \ b
<1>1. CASE 1..Blocks \subseteq b
  BY <1>1 DEF Taken
<1>2. CASE ~ 1..Blocks \subseteq b
  <2> DEFINE T == (1..Blocks) \ b
  <2>1. T # {} /\ T \in SUBSET Nat
    BY <1>2, PagingAssumption
  <2>2. Taken(b) = CHOOSE i \in T : \A j \in T : i <= j
    BY <1>2 DEF Taken
  <2> HIDE DEF T
  <2>3. Taken(b) \in T
    BY <2>1, <2>2, LeastNat
  <2> QED
    BY <2>3 DEF T
<1> QED
  BY <1>1, <1>2

LEMMA CreateKeeps == ASSUME SpacesInv, process_create PROVE SpacesInv'
<1> DEFINE p == Taken(blocks)
           a == address_space_create(blocks \cup {p})
           s == Taken(blocks \cup {p})
           d == Taken((blocks \cup {p}) \cup {s})
           new == [pcb |-> p, space |-> s, directory |-> d]
<1>1. /\ p # NULL
      /\ blocks' = IF a.ok THEN a.used ELSE a.used \ {p}
      /\ owners' = IF a.ok THEN owners \cup {[pcb |-> p, space |-> a.space, directory |-> a.directory]}
                   ELSE owners
      /\ current_space' = current_space
  BY DEF process_create
<1>2. /\ a.space = s
      /\ a.directory = IF s = NULL THEN NULL ELSE d
      /\ a.ok = (a.directory # NULL)
      /\ a.used = IF a.directory = NULL THEN blocks \cup {p}
                  ELSE (blocks \cup {p}) \cup {s, a.directory}
  <2> HIDE DEF p, s
  <2> QED
    BY DEF address_space_create, s
<1>3. /\ p \in (1..Blocks) \ blocks
      /\ s = NULL \/ s \in (1..Blocks) \ (blocks \cup {p})
      /\ d = NULL \/ d \in (1..Blocks) \ ((blocks \cup {p}) \cup {s})
  BY <1>1, TakenIsFree
<1> HIDE DEF p, s, d, a
<1>4. CASE ~ a.ok
  <2>1. blocks' = blocks /\ owners' = owners
    BY <1>1, <1>2, <1>3, <1>4
  <2> QED
    BY <1>1, <2>1 DEF SpacesInv, BlocksHaveOneOwner
<1>5. CASE a.ok
  <2>1. s # NULL /\ a.directory = d /\ d # NULL
    BY <1>2, <1>5
  <2>2. blocks' = blocks \cup {p, s, d} /\ owners' = owners \cup {new}
    BY <1>1, <1>2, <1>5, <2>1
  <2>3. /\ new \in [pcb : 0..Blocks, space : 1..Blocks, directory : 1..Blocks]
        /\ Of(new) = {p, s, d}
    BY <1>1, <1>3, <2>1, PagingAssumption DEF Of
  <2>4. /\ blocks = UNION {Of(o) : o \in owners}
        /\ \A x, y \in owners : x # y => Of(x) \cap Of(y) = {}
        /\ \E o \in owners : o.space = current_space
    BY DEF SpacesInv, BlocksHaveOneOwner, Of
  <2>5. \A o \in owners : Of(o) \cap Of(new) = {}
    <3>1. \A o \in owners : Of(o) \subseteq blocks
      BY <2>4
    <3>2. p \notin blocks /\ s \notin blocks /\ d \notin blocks
      BY <1>3, <2>1
    <3> QED
      BY <2>3, <3>1, <3>2
  <2> HIDE DEF new
  <2>6. /\ blocks' = UNION {Of(o) : o \in owners'}
        /\ \A x, y \in owners' : x # y => Of(x) \cap Of(y) = {}
        /\ \E o \in owners' : o.space = current_space'
    BY <1>1, <2>2, <2>3, <2>4, <2>5
  <2>7. BlocksHaveOneOwner'
    BY <2>6 DEF BlocksHaveOneOwner, Of
  <2>8. /\ blocks' \subseteq 1..Blocks
        /\ owners' \subseteq [pcb : 0..Blocks, space : 1..Blocks, directory : 1..Blocks]
    BY <1>3, <2>1, <2>2, <2>3 DEF SpacesInv
  <2> QED
    BY <2>7, <2>8 DEF SpacesInv
<1> QED
  BY <1>4, <1>5

LEMMA DestroyKeeps ==
  ASSUME SpacesInv, NEW o \in owners, process_destroy(o) PROVE SpacesInv'
<1>1. /\ o.space # current_space /\ current_space' = current_space
      /\ blocks' = (blocks \ {o.directory, o.space}) \ {o.pcb}
      /\ owners' = owners \ {o}
  BY DEF process_destroy, address_space_destroy
<1>2. /\ blocks = UNION {Of(x) : x \in owners}
      /\ \A x, y \in owners : x # y => Of(x) \cap Of(y) = {}
      /\ \E x \in owners : x.space = current_space
  BY DEF SpacesInv, BlocksHaveOneOwner, Of
<1>3. blocks' = blocks \ Of(o)
  <2>1. NULL \notin blocks
    BY DEF SpacesInv, NULL
  <2> QED
    BY <1>1, <2>1 DEF Of
<1>4. /\ blocks' = UNION {Of(x) : x \in owners'}
      /\ \A x, y \in owners' : x # y => Of(x) \cap Of(y) = {}
      /\ \E x \in owners' : x.space = current_space'
  BY <1>1, <1>2, <1>3
<1>5. BlocksHaveOneOwner'
  BY <1>4 DEF BlocksHaveOneOwner, Of
<1> QED
  BY <1>1, <1>5 DEF SpacesInv

----------------------------------------------------------------------------
MemoryInv == TablesInv /\ PagesInv /\ SpacesInv

LEMMA InitMemory == PagingInit => MemoryInv
<1> SUFFICES ASSUME PagingInit PROVE MemoryInv
  OBVIOUS
<1>1. PagesInv
  BY InitPages DEF PagingInit
<1>2. TablesInv
  <2>1. PICK junk \in {None} \cup ClientFrames :
          mem = [f \in Idx \cup ClientFrames |-> [i \in Idx |-> junk]]
    BY DEF PagingInit
  <2>2. junk \in Int
    BY ClientsAssumption DEF None
  <2>3. mem \in [Idx \cup ClientFrames -> [Idx -> Int]]
    BY <2>1, <2>2
  <2>4. /\ starved = FALSE /\ paging_on = FALSE /\ tables = {} /\ tlb = {}
        /\ heap_top = HeapStart * PAGE_SIZE
    BY DEF PagingInit
  <2> QED
    BY <2>3, <2>4 DEF TablesInv, AllInBlocks
<1>3. SpacesInv
  <2>1. blocks = {1, 2} /\ owners = {kernel_space} /\ current_space = kernel_space.space
    BY DEF PagingInit
  <2>2. /\ kernel_space \in [pcb : 0..Blocks, space : 1..Blocks, directory : 1..Blocks]
        /\ Of(kernel_space) = {1, 2} /\ {1, 2} \subseteq 1..Blocks
    BY PagingAssumption DEF kernel_space, Of, NULL
  <2> HIDE DEF kernel_space
  <2>3. UNION {Of(o) : o \in {kernel_space}} = Of(kernel_space)
    OBVIOUS
  <2>4. BlocksHaveOneOwner
    BY <2>1, <2>2, <2>3 DEF BlocksHaveOneOwner, Of
  <2> QED
    BY <2>1, <2>2, <2>4 DEF SpacesInv
<1> QED
  BY <1>1, <1>2, <1>3 DEF MemoryInv

LEMMA NextMemory == MemoryInv /\ [PagingNext]_pagingVars => MemoryInv'
<1> SUFFICES ASSUME MemoryInv, [PagingNext]_pagingVars PROVE MemoryInv'
  OBVIOUS
<1>1. TablesInv /\ PagesInv /\ SpacesInv
  BY DEF MemoryInv
<1>2. UNCHANGED vars => PagesInv'
  BY <1>1 DEF PagesInv, TypeOK, MarkedIsHeld, HintSound, vars
<1>3. UNCHANGED tableVars => TablesInv'
  <2> SUFFICES ASSUME UNCHANGED tableVars PROVE TablesInv'
    OBVIOUS
  <2> QED
    BY <1>1 DEF TablesInv, TlbFollows, tableVars
<1>4. UNCHANGED spaceVars => SpacesInv'
  BY <1>1 DEF SpacesInv, BlocksHaveOneOwner, spaceVars
<1>5. CASE TableStep /\ UNCHANGED << vars, spaceVars >>
  BY <1>1, <1>2, <1>4, <1>5, TableStepKeeps DEF MemoryInv
<1>6. CASE Next /\ UNCHANGED << tableVars, spaceVars >>
  BY <1>1, <1>3, <1>4, <1>6, AllocInv, FreeInv DEF MemoryInv, Next
<1>7. CASE SpaceStep /\ UNCHANGED << vars, tableVars >>
  <2>1. ASSUME NEW o \in owners, address_space_switch(o) PROVE SpacesInv'
    <3>1. blocks' = blocks /\ owners' = owners /\ current_space' = o.space
      BY <2>1 DEF address_space_switch
    <3> QED
      BY <1>1, <3>1 DEF SpacesInv, BlocksHaveOneOwner
  <2>2. SpacesInv'
    BY <1>1, <1>7, <2>1, CreateKeeps, DestroyKeeps DEF SpaceStep
  <2> QED
    BY <1>2, <1>3, <1>7, <2>2 DEF MemoryInv
<1>8. CASE UNCHANGED pagingVars
  BY <1>2, <1>3, <1>4, <1>8 DEF MemoryInv, pagingVars
<1> QED
  BY <1>5, <1>6, <1>7, <1>8 DEF PagingNext

\* Page tables, address spaces and the page bitmap keep their shape and their
\* owners through every call of paging.c and process.c.
THEOREM MemoryHolds == PagingSpec => []MemoryInv
BY InitMemory, NextMemory, PTL DEF PagingSpec

\* As long as the heap has tables to give, every page is where callers last put
\* it, for the CPU with its cached translations and for get_physical_address,
\* whatever was in memory when map_page made a table of it.
THEOREM TranslationFollows == PagingSpec => []CpuSeesWhatWasAsked
<1>1. MemoryInv => CpuSeesWhatWasAsked
  <2> SUFFICES ASSUME TablesInv, paging_on, ~ starved PROVE CpuSeesWhatWasAsked
    BY DEF MemoryInv, CpuSeesWhatWasAsked
  <2>1. Shape(mem, page_directory, heap_top, asked) /\ TlbFollows /\ AtIsFrame
    BY AtSelf DEF TablesInv
  <2>2. ASSUME NEW v \in VPages
        PROVE  /\ Walk(v) = asked[v]
               /\ get_physical_address(v) = IF asked[v] = None THEN 0 ELSE asked[v]
    <3> DEFINE table == mem[page_directory][v[1]]
    <3>1. Walk(v) = asked[v]
      BY <2>1 DEF Shape, Walk
    <3>2. v[1] \in Idx
      BY DEF VPages
    <3>3. At(page_directory) = page_directory /\ (table # None => At(table) = table)
      BY <2>1, <3>2 DEF AtIsFrame, Shape, Cut, InHeap
    <3>4. get_physical_address(v) = IF table = None \/ mem[table][v[2]] = None THEN 0
                                   ELSE mem[table][v[2]]
      BY <3>3 DEF get_physical_address
    <3>5. asked[v] = IF table = None THEN None ELSE mem[table][v[2]]
      BY <3>1 DEF Walk, WalkIn
    <3> HIDE DEF table
    <3> QED
      BY <3>1, <3>4, <3>5
  <2> QED
    BY <2>1, <2>2 DEF CpuSeesWhatWasAsked, TlbFollows
<1> QED
  BY <1>1, MemoryHolds, PTL

\* paging_init and map_page ask for a page more than they need, so the directory
\* and the tables are whole in their blocks whatever the heap's alignment.
THEOREM TablesFit == PagingSpec => []TablesInTheirBlocks
<1>1. MemoryInv => TablesInTheirBlocks
  BY DEF MemoryInv, TablesInv, TablesInTheirBlocks, AllInBlocks, InBlock
<1> QED
  BY <1>1, MemoryHolds, PTL

\* process_create gives back what it took when a later allocation fails, and
\* process_destroy all of it: no block is lost and none has two owners.
THEOREM SpacesOwnTheirBlocks == PagingSpec => []BlocksHaveOneOwner
<1>1. MemoryInv => BlocksHaveOneOwner
  BY DEF MemoryInv, SpacesInv
<1> QED
  BY <1>1, MemoryHolds, PTL

\* alloc_physical_page never hands out a page that somebody holds or that was
\* reserved at start, and free_physical_page loses no page.
THEOREM PagesNotShared == PagingSpec => []MarkedIsHeld
<1>1. MemoryInv => MarkedIsHeld
  BY DEF MemoryInv, PagesInv
<1> QED
  BY <1>1, MemoryHolds, PTL

\* first_free_page never passes a free page, so 0 is returned only when all
\* pages are taken.
THEOREM HintNeverSkips == PagingSpec => []HintSound
<1>1. MemoryInv => HintSound
  BY DEF MemoryInv, PagesInv
<1> QED
  BY <1>1, MemoryHolds, PTL
=============================================================================
