---------------------------- MODULE Shell_proof ----------------------------
(***************************************************************************)
(* The commands of shell.c, for any disk, line and number of power         *)
(* failures: whichever call fails, no command leaves a file open, and all  *)
(* keep to the rules that the theorems about FileSystem assume.  So these  *)
(* hold of the shell without an assumption on its calls.                   *)
(***************************************************************************)
EXTENDS Shell, FileSystem_proof

----------------------------------------------------------------------------
(***************************************************************************)
(* The invariant.  After a failure of the power in fs_delete the chains    *)
(* may be anything, so it says nothing of clusters: a directory entry has  *)
(* the size of one cluster at most, and a descriptor is in use while the   *)
(* command that opened it is on its way.                                   *)
(***************************************************************************)
FdLike(f) ==
  f \in [in_use : BOOLEAN, name : Names \cup {NoName}, first : {f.first}, size : 0..ClusterSize,
         pos : Int, cur : {f.cur}, mode : Modes, modified : BOOLEAN]
FdsLike(T) == T = [d \in Fds |-> T[d]] /\ \A d \in Fds : FdLike(T[d])

EntryLike(e) == e \in [name : Names \cup {NoName}, first : {e.first}, size : 0..ClusterSize]
DirLike(D) == D = [s \in DirSlots |-> D[s]] /\ \A s \in DirSlots : EntryLike(D[s])

\* The writes in q, begun at position p, stay in one cluster.
Total(q) == IF Len(q) = 0 THEN 0 ELSE IF Len(q) = 1 THEN q[1] ELSE q[1] + q[2]
Fits(q, p) ==
  q \in Seq(Nat \ {0}) /\ Len(q) <= 2 /\ p \in Nat /\ p + Total(q) <= ClusterSize

Steps == {"prompt", "cat", "create", "reopen", "data", "exec", "loaded"}
NotOpened == {"prompt", "create", "reopen"}

OnlyOpen(T, d) == d \in Fds /\ T[d].in_use /\ \A e \in Fds : T[e].in_use => e = d
NoneOpen(T) == \A e \in Fds : ~ T[e].in_use

\* What holds at p, with descriptors T, opened descriptor d and writes q to come.
AtStep(p, T, d, q) ==
  /\ p \in Steps
  /\ p \in NotOpened => NoneOpen(T)
  /\ p \notin NotOpened => OnlyOpen(T, d)
  /\ p \in {"create", "reopen"} => Fits(q, 0)
  /\ p = "data" => Fits(q, T[d].pos)

ShellInv ==
  /\ FdsLike(fd_table) /\ DirLike(root_dir) /\ DirLike(disk.dir)
  /\ failures \in Nat /\ name \in Names
  /\ AtStep(pc, fd_table, fd, todo)

LEMMA ShellSizes ==
  /\ ClusterSize \in Nat /\ MaxFileSize \in Nat /\ ClusterSize > 0 /\ ClusterSize <= MaxFileSize
  /\ Line \in 1..ClusterSize /\ Chunk \in 1..MaxFileSize /\ MaxFailures \in Nat
BY FileSystemAssumption, ShellAssumption

LEMMA BlankShapes ==
  /\ FdsLike(Closed) /\ NoneOpen(Closed) /\ DirLike(NoFiles)
<1>1. /\ FdLike(ClosedFd) /\ ~ ClosedFd.in_use
  BY ShellSizes DEF FdLike, ClosedFd, Modes, READ
<1>2. EntryLike(FreeEntry)
  BY ShellSizes DEF EntryLike, FreeEntry
<1> QED
  BY <1>1, <1>2 DEF FdsLike, DirLike, Closed, NoFiles, NoneOpen

----------------------------------------------------------------------------
(***************************************************************************)
(* Single calls.                                                           *)
(***************************************************************************)
\* A call ends with the memory it computed, or at the prompt after a failure.
LEMMA FinishShapes ==
  ASSUME NEW op, NEW m, NEW ws, Finish(op, m, ws), failures \in Nat,
         DirLike(m.dir), DirLike(disk.dir)
  PROVE  /\ DirLike(root_dir') /\ DirLike(disk'.dir) /\ failures' \in Nat
         /\ \/ failures' = failures /\ fd_table' = m.fd
            \/ failures' # failures /\ fd_table' = Closed
<1>1. \A v : DirLike(Written(m, v).dir)
  BY DEF Written
<1>2. CASE Become(m) /\ disk' = Written(m, ws) /\ UNCHANGED failures
  BY <1>1, <1>2 DEF Become
<1>3. CASE /\ failures' = failures + 1
           /\ \E k \in 0..Len(ws) :
                disk' = Written(m, SubSeq(ws, 1, k)) /\ Become(Mounted(disk'))
  <2>1. failures' \in Nat /\ failures' # failures
    BY <1>3
  <2>2. root_dir' = disk'.dir /\ fd_table' = Closed
    BY <1>3 DEF Become, Mounted
  <2>3. DirLike(disk'.dir)
    BY <1>1, <1>3
  <2> QED
    BY <2>1, <2>2, <2>3
<1> QED
  BY <1>2, <1>3 DEF Finish

LEMMA CreateShapes ==
  ASSUME NEW n \in Names, NEW s, DirLike(root_dir)
  PROVE  LET m == [Mem EXCEPT !.dir[s] = [name |-> n, first |-> 0, size |-> 0]]
         IN  DirLike(m.dir) /\ m.fd = fd_table
<1> DEFINE e == [name |-> n, first |-> 0, size |-> 0]
           m == [Mem EXCEPT !.dir[s] = e]
<1>1. m.dir = [root_dir EXCEPT ![s] = e] /\ m.fd = fd_table
  BY DEF Mem
<1>2. EntryLike(e)
  BY ShellSizes DEF EntryLike
<1> HIDE DEF e
<1>3. DirLike([root_dir EXCEPT ![s] = e])
  BY <1>2 DEF DirLike
<1> QED
  BY <1>1, <1>3 DEF e

----------------------------------------------------------------------------
(***************************************************************************)
(* The loops, without what FileSystem_proof knows of the chains.           *)
(***************************************************************************)
Turn(op, w, d) ==
  IF op = "read" THEN ReadTurn(w) ELSE IF op = "write" THEN WriteTurn(w, d) ELSE WalkStep(w)
IsLoop(h, op, d, a, n) ==
  h = [k \in 0..n |-> IF k = 0 THEN a ELSE Turn(op, h[k - 1], d)]

LEMMA LoopExists ==
  ASSUME NEW op, NEW d, NEW a, NEW n \in Nat
  PROVE  \E h : IsLoop(h, op, d, a, n)
<1> DEFINE T == {i \in Nat : ~ \E h : IsLoop(h, op, d, a, i)}
<1>1. SUFFICES ASSUME T # {} PROVE FALSE
  OBVIOUS
<1>2. PICK i \in T : \A j \in T : i <= j
  BY <1>1, LeastNat
<1>3. i # 0
  <2> DEFINE f == [k \in 0..0 |-> a]
  <2>1. f = [k \in 0..0 |-> IF k = 0 THEN a ELSE Turn(op, f[k - 1], d)]
    OBVIOUS
  <2> HIDE DEF f
  <2> QED
    BY <1>2, <2>1 DEF IsLoop
<1>4. i - 1 \in Nat /\ i - 1 \notin T
  BY <1>2, <1>3
<1>5. PICK f : IsLoop(f, op, d, a, i - 1)
  BY <1>4
<1> DEFINE g == [k \in 0..i |-> IF k = i THEN Turn(op, f[i - 1], d) ELSE f[k]]
<1>6. ASSUME NEW k \in 0..i
      PROVE  g[k] = IF k = 0 THEN a ELSE Turn(op, g[k - 1], d)
  <2>1. CASE k = i
    <3>1. g[k - 1] = f[i - 1]
      BY <1>2, <1>4, <2>1
    <3> QED
      BY <1>3, <2>1, <3>1
  <2>2. CASE k # i
    <3>1. k \in 0..(i - 1) /\ g[k] = f[k]
      BY <1>2, <2>2
    <3>2. k # 0 => k - 1 \in 0..i /\ k - 1 # i
      BY <1>2, <3>1
    <3>3. k # 0 => g[k - 1] = f[k - 1]
      BY <3>2
    <3>4. f[k] = IF k = 0 THEN a ELSE Turn(op, f[k - 1], d)
      BY <1>5, <3>1 DEF IsLoop
    <3> QED
      BY <3>1, <3>3, <3>4
  <2> QED
    BY <2>1, <2>2
<1>7. g = [k \in 0..i |-> g[k]]
  OBVIOUS
<1> HIDE DEF g
<1>8. g = [k \in 0..i |-> IF k = 0 THEN a ELSE Turn(op, g[k - 1], d)]
  BY <1>6, <1>7
<1>9. IsLoop(g, op, d, a, i)
  BY <1>8 DEF IsLoop
<1> QED
  BY <1>2, <1>9

\* A set of turns that has the first and with each the next has all of them.
LEMMA AllTurns ==
  ASSUME NEW n \in Nat, NEW T \in SUBSET Nat, 0 \in T, \A k \in 1..n : k - 1 \in T => k \in T
  PROVE  n \in T
<1>1. SUFFICES ASSUME n \notin T PROVE FALSE
  OBVIOUS
<1> DEFINE U == {k \in 0..n : k \notin T}
<1>2. U \in SUBSET Nat /\ U # {}
  BY <1>1
<1>3. PICK k \in U : \A j \in U : k <= j
  BY <1>2, LeastNat
<1>4. k # 0 /\ k \in 1..n
  BY <1>3
<1>5. k - 1 \in 0..n /\ k - 1 \notin U
  BY <1>3, <1>4
<1> QED
  BY <1>3, <1>4, <1>5

LEMMA MovedShape ==
  ASSUME NEW f, FdLike(f), NEW x, NEW c, NEW p \in Int,
         NEW g, g = [in_use |-> f.in_use, name |-> f.name, first |-> x, size |-> f.size,
                     pos |-> p, cur |-> c, mode |-> f.mode, modified |-> f.modified]
  PROVE  FdLike(g) /\ g.in_use = f.in_use /\ g.pos = p
<1>1. /\ f.in_use \in BOOLEAN /\ f.name \in Names \cup {NoName} /\ f.size \in 0..ClusterSize
      /\ f.mode \in Modes /\ f.modified \in BOOLEAN
  BY DEF FdLike
<1>2. g.first = x /\ g.cur = c /\ g.pos = p /\ g.in_use = f.in_use
  OBVIOUS
<1> QED
  BY <1>1, <1>2 DEF FdLike

LEMMA MovedIs ==
  ASSUME NEW f, FdLike(f), NEW c, NEW p
  PROVE  [f EXCEPT !.cur = c, !.pos = p]
           = [in_use |-> f.in_use, name |-> f.name, first |-> f.first, size |-> f.size,
              pos |-> p, cur |-> c, mode |-> f.mode, modified |-> f.modified]
<1>1. PICK g : g = [f EXCEPT !.cur = c, !.pos = p]
  OBVIOUS
<1>2. f \in [in_use : {f.in_use}, name : {f.name}, first : {f.first}, size : {f.size},
            pos : {f.pos}, cur : {f.cur}, mode : {f.mode}, modified : {f.modified}]
  BY DEF FdLike
<1>3. g \in [in_use : {f.in_use}, name : {f.name}, first : {f.first}, size : {f.size},
            pos : {p}, cur : {c}, mode : {f.mode}, modified : {f.modified}]
  BY <1>1, <1>2
<1>4. g = [in_use |-> f.in_use, name |-> f.name, first |-> f.first, size |-> f.size,
           pos |-> p, cur |-> c, mode |-> f.mode, modified |-> f.modified]
  BY <1>3
<1> QED
  BY <1>1, <1>4

\* fs_read changes position and cluster of its descriptor.
LEMMA ReadShapes ==
  ASSUME NEW d \in Fds, NEW count \in Nat, FdLike(fd_table[d])
  PROVE  /\ FdLike(ReadLoop(d, count))
         /\ ReadLoop(d, count).in_use = fd_table[d].in_use
<1> DEFINE a == ReadFrom(d, count)
           h == CHOOSE h : IsReading(h, d, count)
           Good(w) == /\ w = [f |-> w.f, left |-> w.left] /\ w.left \in Int
                      /\ FdLike(w.f) /\ w.f.in_use = fd_table[d].in_use
<1>1. \E g : IsReading(g, d, count)
  <2>1. PICK g : IsLoop(g, "read", d, a, count)
    BY LoopExists
  <2> QED
    BY <2>1 DEF IsLoop, IsReading, Turn
<1>2. IsReading(h, d, count)
  BY <1>1
<1>3. ReadLoop(d, count) = h[count].f
  BY DEF ReadLoop, IsReading, ReadTurn, ReadFrom
<1> HIDE DEF h
<1>4. h[0] = a /\ \A k \in 1..count : h[k] = ReadTurn(h[k - 1])
  BY <1>2 DEF IsReading
<1>5. Good(a)
  <2>1. fd_table[d].size \in Nat /\ fd_table[d].pos \in Int
    BY ShellSizes DEF FdLike
  <2>2. Min2(count, fd_table[d].size - fd_table[d].pos) \in Int
    BY <2>1 DEF Min2
  <2> QED
    BY <2>2 DEF ReadFrom
<1>6. ASSUME NEW w, Good(w) PROVE Good(ReadTurn(w))
  <2> DEFINE c == IF AtBoundary(w.f) THEN fat_read(Mem, w.f.cur) ELSE w.f.cur
             chunk == Min2(w.left, ClusterSize - (w.f.pos % ClusterSize))
  <2>1. CASE w.left = 0 \/ c >= FAT_EOF
    <3>1. ReadTurn(w) = [w EXCEPT !.left = 0]
      BY <2>1 DEF ReadTurn
    <3> QED
      BY <1>6, <3>1
  <2>2. CASE ~ (w.left = 0 \/ c >= FAT_EOF)
    <3>1. chunk \in Int
      <4>1. w.f.pos \in Int
        BY <1>6 DEF FdLike
      <4>2. w.f.pos % ClusterSize \in Int
        BY <4>1, ShellSizes
      <4> QED
        BY <1>6, <4>2, ShellSizes DEF Min2
    <3>2. ReadTurn(w) = [f |-> [w.f EXCEPT !.cur = c, !.pos = @ + chunk], left |-> w.left - chunk]
      BY <2>2 DEF ReadTurn
    <3> HIDE DEF c, chunk
    <3>3. w.f.pos + chunk \in Int
      BY <1>6, <3>1 DEF FdLike
    <3>4. PICK v : v = w.f
      OBVIOUS
    <3>5. PICK p \in Int : p = w.f.pos + chunk
      BY <3>3
    <3>6. FdLike(v)
      BY <1>6, <3>4
    <3>7. PICK g : g = [in_use |-> v.in_use, name |-> v.name, first |-> v.first, size |-> v.size,
                        pos |-> p, cur |-> c, mode |-> v.mode, modified |-> v.modified]
      OBVIOUS
    <3>8. [v EXCEPT !.cur = c, !.pos = p] = g
      BY <3>6, <3>7, MovedIs
    <3>9. FdLike(g) /\ g.in_use = w.f.in_use
      <4>1. FdLike(g) /\ g.in_use = v.in_use
        BY <3>6, <3>7, MovedShape
      <4> QED
        BY <3>4, <4>1
    <3>10. ReadTurn(w) = [f |-> g, left |-> w.left - chunk]
      BY <3>2, <3>4, <3>5, <3>8
    <3> QED
      BY <1>6, <3>1, <3>9, <3>10
  <2> QED
    BY <2>1, <2>2
<1> HIDE DEF a
<1> DEFINE T == {k \in 0..count : Good(h[k])}
<1>7. 0 \in T
  BY <1>4, <1>5
<1>8. ASSUME NEW k \in 1..count, k - 1 \in T PROVE k \in T
  BY <1>4, <1>6, <1>8
<1>9. T \in SUBSET Nat
  OBVIOUS
<1> HIDE DEF T
<1>10. count \in T
  BY <1>7, <1>8, <1>9, AllTurns
<1> QED
  BY <1>3, <1>10 DEF T

\* Memory in the middle of an operation.
MemLike(m) ==
  m = [super |-> m.super, fat |-> m.fat, dir |-> m.dir, fd |-> m.fd, data |-> m.data]

\* t differs from m in descriptor d and in what no descriptor is about.
Kin(t, m, d) ==
  /\ MemLike(t) /\ t.dir = m.dir /\ FdsLike(t.fd)
  /\ \A e \in Fds : t.fd[e].in_use = m.fd[e].in_use

LEMMA StoreShapes ==
  ASSUME NEW m, MemLike(m), FdsLike(m.fd), NEW d \in Fds, NEW n \in Int
  PROVE  Kin(Store(m, d, n), m, d) /\ Store(m, d, n).fd[d].pos = m.fd[d].pos + n
<1> DEFINE f == m.fd[d]
           p == f.pos + n
<1>1. PICK dt : Store(m, d, n) = [super |-> m.super, fat |-> m.fat, dir |-> m.dir,
                                  fd |-> [m.fd EXCEPT ![d] = [f EXCEPT !.pos = p]], data |-> dt]
  <2> DEFINE off == f.pos % ClusterSize
             page == [m.data EXCEPT ![f.cur] = [b \in Bytes |->
                                  IF b \in off..(off + n - 1)
                                  THEN << f.name, f.pos + b - off >> ELSE @[b]]]
  <2>1. Store(m, d, n) = [m EXCEPT !.data = page, !.fd = [m.fd EXCEPT ![d] = [f EXCEPT !.pos = p]]]
    BY DEF Store
  <2> HIDE DEF page
  <2> QED
    BY <2>1 DEF MemLike
<1>2. FdLike(f) /\ p \in Int
  BY DEF FdsLike, FdLike
<1>3. PICK g : g = [in_use |-> f.in_use, name |-> f.name, first |-> f.first, size |-> f.size,
                    pos |-> p, cur |-> f.cur, mode |-> f.mode, modified |-> f.modified]
  OBVIOUS
<1>4. FdLike(g) /\ g.in_use = f.in_use /\ g.pos = p
  <2> HIDE DEF f, p
  <2> QED
    BY <1>2, <1>3, MovedShape
<1>5. [f EXCEPT !.pos = p] = g
  BY <1>2, <1>3 DEF FdLike
<1>6. PICK t : t = Store(m, d, n)
  OBVIOUS
<1>7. t = [super |-> m.super, fat |-> m.fat, dir |-> m.dir, fd |-> [m.fd EXCEPT ![d] = g],
           data |-> dt]
  BY <1>1, <1>5, <1>6
<1>8. t.fd = [m.fd EXCEPT ![d] = g] /\ t.dir = m.dir /\ MemLike(t)
  BY <1>7 DEF MemLike
<1> HIDE DEF f, p
<1>9. FdsLike(t.fd) /\ t.fd[d] = g /\ \A e \in Fds : e # d => t.fd[e] = m.fd[e]
  BY <1>4, <1>8 DEF FdsLike
<1> QED
  BY <1>4, <1>6, <1>8, <1>9 DEF Kin, f, p

LEMMA ExtendShapes ==
  ASSUME NEW m, MemLike(m), FdsLike(m.fd), NEW d \in Fds, NEW c
  PROVE  Kin(Extend(m, d, c), m, d) /\ Extend(m, d, c).fd[d].pos = m.fd[d].pos
<1> DEFINE f == m.fd[d]
<1>1. PICK t : t = Extend(m, d, c)
  OBVIOUS
<1>2. FdLike(f)
  BY DEF FdsLike
<1>3. PICK a : a = alloc_cluster(m, c)
  OBVIOUS
<1>4. MemLike(a) /\ a.dir = m.dir /\ a.fd = m.fd
  <2>1. a = [m EXCEPT !.fat = [m.fat EXCEPT ![c] = FAT_EOF],
                      !.super = [m.super EXCEPT !.free = m.super.free - 1]]
    BY <1>3 DEF alloc_cluster, MemLike
  <2> QED
    BY <2>1 DEF MemLike
<1>5. PICK b : b = fat_write(a, f.cur, c)
  OBVIOUS
<1>6. MemLike(b) /\ b.dir = m.dir /\ b.fd = m.fd
  <2>1. b = a \/ b = [a EXCEPT !.fat = [a.fat EXCEPT ![f.cur] = c]]
    BY <1>5 DEF fat_write
  <2> QED
    BY <1>4, <2>1 DEF MemLike
<1>7. PICK z \in {a, b}, g \in {[f EXCEPT !.cur = c], [f EXCEPT !.first = c, !.cur = c]} :
        t = [z EXCEPT !.fd = [m.fd EXCEPT ![d] = g]]
  <2>1. CASE f.first = 0
    <3>1. t = [a EXCEPT !.fd[d].first = c, !.fd[d].cur = c]
      BY <1>1, <1>3, <2>1 DEF Extend
    <3>2. t = [a EXCEPT !.fd = [m.fd EXCEPT ![d] = [f EXCEPT !.first = c, !.cur = c]]]
      BY <1>2, <1>4, <3>1 DEF MemLike, FdsLike
    <3> QED
      BY <3>2
  <2>2. CASE f.first # 0
    <3>1. t = [b EXCEPT !.fd[d].cur = c]
      BY <1>1, <1>3, <1>5, <2>2 DEF Extend
    <3>2. t = [b EXCEPT !.fd = [m.fd EXCEPT ![d] = [f EXCEPT !.cur = c]]]
      BY <1>6, <3>1 DEF MemLike, FdsLike
    <3> QED
      BY <3>2
  <2> QED
    BY <2>1, <2>2
<1>8. FdLike(g) /\ g.in_use = f.in_use /\ g.pos = f.pos
  <2>1. PICK x : g = [in_use |-> f.in_use, name |-> f.name, first |-> x, size |-> f.size,
                      pos |-> f.pos, cur |-> c, mode |-> f.mode, modified |-> f.modified]
    BY <1>2, <1>7 DEF FdLike
  <2>2. f.pos \in Int
    BY <1>2 DEF FdLike
  <2> HIDE DEF f
  <2> QED
    BY <1>2, <2>1, <2>2, MovedShape
<1>9. t.fd = [m.fd EXCEPT ![d] = g] /\ t.dir = m.dir /\ MemLike(t)
  BY <1>4, <1>6, <1>7 DEF MemLike
<1> HIDE DEF f
<1>10. FdsLike(t.fd) /\ t.fd[d] = g /\ \A e \in Fds : e # d => t.fd[e] = m.fd[e]
  BY <1>8, <1>9 DEF FdsLike
<1> QED
  BY <1>1, <1>8, <1>9, <1>10 DEF Kin, f

\* What fs_write has done after some turns: the position is never more than
\* count behind where it was.
LEMMA KinOfKin ==
  ASSUME NEW t, NEW x, NEW m, NEW d, Kin(t, x, d), Kin(x, m, d)
  PROVE  Kin(t, m, d)
BY DEF Kin

LEMMA WriteShapes ==
  ASSUME NEW d \in Fds, NEW count \in Nat, FdsLike(fd_table), fd_table[d].pos \in Nat
  PROVE  /\ Kin(AfterWrite(d, count), Mem, d)
         /\ AfterWrite(d, count).fd[d].pos \in Nat
         /\ AfterWrite(d, count).fd[d].pos <= fd_table[d].pos + count
<1> DEFINE a == WriteFrom(count)
           h == CHOOSE h : IsWriting(h, d, count)
           Good(w) == /\ w = [m |-> w.m, left |-> w.left] /\ w.left \in Nat
                      /\ Kin(w.m, Mem, d) /\ w.m.fd[d].pos \in Nat
                      /\ w.m.fd[d].pos + w.left <= fd_table[d].pos + count
<1>1. \E g : IsWriting(g, d, count)
  <2>1. PICK g : IsLoop(g, "write", d, a, count)
    BY LoopExists
  <2> QED
    BY <2>1 DEF IsLoop, IsWriting, Turn
<1>2. IsWriting(h, d, count)
  BY <1>1
<1>3. AfterWrite(d, count) = h[count].m
  BY DEF AfterWrite, IsWriting, WriteTurn, WriteFrom
<1> HIDE DEF h
<1>4. h[0] = a /\ \A k \in 1..count : h[k] = WriteTurn(h[k - 1], d)
  BY <1>2 DEF IsWriting
<1>5. Good(a)
  <2>1. MemLike(Mem) /\ Mem.fd = fd_table
    BY DEF MemLike, Mem
  <2>2. Kin(Mem, Mem, d)
    BY <2>1 DEF Kin
  <2> QED
    BY <2>1, <2>2 DEF WriteFrom
<1>6. ASSUME NEW w, Good(w) PROVE Good(WriteTurn(w, d))
  <2>1. PICK f : f = w.m.fd[d]
    OBVIOUS
  <2>2. PICK n \in Nat : n = Min2(w.left, ClusterSize - (f.pos % ClusterSize)) /\ n <= w.left
    <3>1. f.pos \in Nat
      BY <1>6, <2>1
    <3>2. f.pos % ClusterSize \in 0..(ClusterSize - 1)
      BY <3>1, ShellSizes
    <3> QED
      BY <1>6, <3>2, ShellSizes DEF Min2
  <2>3. PICK v : v = Extend(w.m, d, Least(FreeClusters(w.m.fat)))
    OBVIOUS
  <2>4. WriteTurn(w, d) \in {w, [w EXCEPT !.left = 0], [m |-> Store(w.m, d, n), left |-> w.left - n],
                             [m |-> Store(v, d, n), left |-> w.left - n]}
    BY <2>1, <2>2, <2>3 DEF WriteTurn
  <2>5. MemLike(w.m) /\ FdsLike(w.m.fd)
    BY <1>6 DEF Kin
  <2>6. Kin(v, w.m, d) /\ v.fd[d].pos = w.m.fd[d].pos
    BY <2>3, <2>5, ExtendShapes
  <2>7. MemLike(v) /\ FdsLike(v.fd)
    BY <2>6 DEF Kin
  <2>8. ASSUME NEW x \in {w.m, v}
        PROVE  Good([m |-> Store(x, d, n), left |-> w.left - n])
    <3>1. MemLike(x) /\ FdsLike(x.fd) /\ x.fd[d].pos = w.m.fd[d].pos
      BY <2>5, <2>6, <2>7
    <3>2. Kin(x, Mem, d)
      BY <1>6, <2>6, KinOfKin
    <3>3. Kin(Store(x, d, n), x, d) /\ Store(x, d, n).fd[d].pos = x.fd[d].pos + n
      BY <2>2, <3>1, StoreShapes
    <3>4. Kin(Store(x, d, n), Mem, d)
      BY <3>2, <3>3, KinOfKin
    <3>5. PICK p \in Nat, l \in Nat : p = w.m.fd[d].pos /\ l = w.left
      BY <1>6
    <3>6. p + n \in Nat /\ l - n \in Nat /\ (p + n) + (l - n) = p + l
      BY <2>2, <3>5
    <3> QED
      BY <1>6, <3>1, <3>3, <3>4, <3>5, <3>6
  <2>9. Good([w EXCEPT !.left = 0])
    BY <1>6
  <2> QED
    BY <1>6, <2>4, <2>8, <2>9
<1> HIDE DEF a
<1> DEFINE T == {k \in 0..count : Good(h[k])}
<1>7. 0 \in T
  BY <1>4, <1>5
<1>8. ASSUME NEW k \in 1..count, k - 1 \in T PROVE k \in T
  BY <1>4, <1>6, <1>8
<1>9. T \in SUBSET Nat
  OBVIOUS
<1> HIDE DEF T
<1>10. count \in T
  BY <1>7, <1>8, <1>9, AllTurns
<1> QED
  BY <1>3, <1>10 DEF T

\* What fs_delete frees is in no descriptor and no entry.
LEMMA FreeShapes ==
  ASSUME NEW m, MemLike(m), NEW start
  PROVE  LET t == free_cluster_chain(m, start) IN MemLike(t) /\ t.dir = m.dir /\ t.fd = m.fd
<1> DEFINE a == [m |-> m, at |-> start]
           h == CHOOSE h : IsWalk(h, m, start)
           Good(w) == MemLike(w.m) /\ w.m.dir = m.dir /\ w.m.fd = m.fd
<1>1. Clusters \in Nat
  BY Sizes
<1>2. \E g : IsWalk(g, m, start)
  <2>1. PICK g : IsLoop(g, "free", 0, a, Clusters)
    BY <1>1, LoopExists
  <2> QED
    BY <2>1 DEF IsLoop, IsWalk, Turn
<1>3. IsWalk(h, m, start)
  BY <1>2
<1>4. free_cluster_chain(m, start) = h[Clusters].m
  BY DEF free_cluster_chain, IsWalk, WalkStep
<1> HIDE DEF h
<1>5. h[0] = a /\ \A k \in 1..Clusters : h[k] = WalkStep(h[k - 1])
  BY <1>1, <1>3 DEF IsWalk
<1>6. Good(a)
  OBVIOUS
<1>7. ASSUME NEW w, Good(w) PROVE Good(WalkStep(w))
  <2>1. PICK x : x = free_cluster(w.m, w.at)
    OBVIOUS
  <2>2. WalkStep(w) \in {w, [m |-> x, at |-> fat_read(w.m, w.at)]}
    BY <2>1 DEF WalkStep
  <2>3. MemLike(x) /\ x.dir = w.m.dir /\ x.fd = w.m.fd
    <3>1. x = [w.m EXCEPT !.fat = [w.m.fat EXCEPT ![w.at] = FAT_FREE],
                          !.super = [w.m.super EXCEPT !.free = w.m.super.free + 1],
                          !.data = [w.m.data EXCEPT ![w.at] = Blank]]
      BY <1>7, <2>1 DEF free_cluster, MemLike
    <3> QED
      BY <1>7, <3>1 DEF MemLike
  <2> QED
    BY <1>7, <2>2, <2>3
<1> HIDE DEF a
<1> DEFINE T == {k \in 0..Clusters : Good(h[k])}
<1>8. 0 \in T
  BY <1>1, <1>5, <1>6
<1>9. ASSUME NEW k \in 1..Clusters, k - 1 \in T PROVE k \in T
  BY <1>1, <1>5, <1>7, <1>9
<1>10. T \in SUBSET Nat
  OBVIOUS
<1> HIDE DEF T
<1>11. Clusters \in T
  BY <1>1, <1>8, <1>9, <1>10, AllTurns
<1> QED
  BY <1>4, <1>11 DEF T

LEMMA GrownShapes ==
  ASSUME NEW m, MemLike(m), FdsLike(m.fd), NEW d \in Fds, m.fd[d].pos \in 0..ClusterSize
  PROVE  Kin(Grown(m, d), m, d) /\ Grown(m, d).fd[d].pos = m.fd[d].pos
<1>1. PICK f : f = m.fd[d]
  OBVIOUS
<1>2. PICK z : z = IF f.pos > f.size THEN f.pos ELSE f.size
  OBVIOUS
<1>3. FdLike(f) /\ f.pos \in 0..ClusterSize
  BY <1>1 DEF FdsLike
<1>4. PICK g : g = [f EXCEPT !.size = z, !.modified = TRUE]
  OBVIOUS
<1>5. z \in 0..ClusterSize
  BY <1>2, <1>3 DEF FdLike
<1>6. f \in [in_use : BOOLEAN, name : Names \cup {NoName}, first : {f.first}, size : 0..ClusterSize,
             pos : {f.pos}, cur : {f.cur}, mode : Modes, modified : BOOLEAN]
  BY <1>3 DEF FdLike
<1>7. g \in [in_use : BOOLEAN, name : Names \cup {NoName}, first : {f.first}, size : 0..ClusterSize,
             pos : {f.pos}, cur : {f.cur}, mode : Modes, modified : BOOLEAN]
      /\ g.in_use = f.in_use
  BY <1>4, <1>5, <1>6
<1>8. FdLike(g) /\ g.pos = f.pos
  BY <1>3, <1>7 DEF FdLike
<1>9. PICK t : t = Grown(m, d)
  OBVIOUS
<1>10. t = [m EXCEPT !.fd = [m.fd EXCEPT ![d] = g]]
  <2>1. t = [m EXCEPT !.fd[d].size = z, !.fd[d].modified = TRUE]
    BY <1>1, <1>2, <1>9 DEF Grown
  <2> QED
    BY <1>1, <1>4, <2>1 DEF MemLike, FdsLike
<1>11. t.fd = [m.fd EXCEPT ![d] = g] /\ t.dir = m.dir /\ MemLike(t)
  BY <1>10 DEF MemLike
<1>12. FdsLike(t.fd) /\ t.fd[d] = g /\ \A e \in Fds : e # d => t.fd[e] = m.fd[e]
  BY <1>8, <1>11 DEF FdsLike
<1> QED
  BY <1>1, <1>7, <1>8, <1>9, <1>11, <1>12 DEF Kin

----------------------------------------------------------------------------
(***************************************************************************)
(* The calls.                                                              *)
(***************************************************************************)
Shapes ==
  FdsLike(fd_table) /\ DirLike(root_dir) /\ DirLike(disk.dir) /\ failures \in Nat

LEMMA FormatCall == ASSUME Shapes, fs_format PROVE Shapes' /\ NoneOpen(fd_table')
<1>1. PICK m : /\ m = [Mem EXCEPT !.super = [valid |-> TRUE, free |-> Clusters],
                         !.fat = [c \in ClusterNos |-> IF c \in {0, 1} THEN FAT_EOF ELSE FAT_FREE],
                         !.dir = NoFiles, !.fd = Closed]
               /\ Finish("format", m, << "super", "fat", "dir" >>)
  BY DEF fs_format
<1>2. m.dir = NoFiles /\ m.fd = Closed
  BY <1>1 DEF Mem
<1>3. DirLike(m.dir)
  BY <1>2, BlankShapes
<1>4. /\ DirLike(root_dir') /\ DirLike(disk'.dir) /\ failures' \in Nat
      /\ fd_table' = Closed
  BY <1>1, <1>2, <1>3, FinishShapes DEF Shapes
<1> QED
  BY <1>4, BlankShapes DEF Shapes

LEMMA CreateCall ==
  ASSUME Shapes, NEW n \in Names, fs_create(n), NoneOpen(fd_table)
  PROVE  Shapes' /\ NoneOpen(fd_table')
<1>1. PICK s : Finish("create", [Mem EXCEPT !.dir[s] = [name |-> n, first |-> 0, size |-> 0]],
                      << "dir", "super" >>)
  BY DEF fs_create
<1>2. PICK m : m = [Mem EXCEPT !.dir[s] = [name |-> n, first |-> 0, size |-> 0]]
  OBVIOUS
<1>3. DirLike(m.dir) /\ m.fd = fd_table
  BY <1>2, CreateShapes DEF Shapes
<1>4. /\ DirLike(root_dir') /\ DirLike(disk'.dir) /\ failures' \in Nat
      /\ fd_table' \in {fd_table, Closed}
  BY <1>1, <1>2, <1>3, FinishShapes DEF Shapes
<1> QED
  BY <1>4, BlankShapes DEF Shapes

LEMMA DeleteCall ==
  ASSUME Shapes, NEW n \in Names, fs_delete(n), NoneOpen(fd_table)
  PROVE  Shapes' /\ NoneOpen(fd_table')
<1>1. PICK s \in DirSlots :
        LET first == root_dir[s].first
            m == IF first = 0 THEN Mem ELSE free_cluster_chain(Mem, first)
        IN Finish("delete", [m EXCEPT !.dir[s] = FreeEntry], << "fat", "dir", "super" >>)
  BY DEF fs_delete, find_file_by_name
<1>2. PICK m : m = IF root_dir[s].first = 0 THEN Mem ELSE free_cluster_chain(Mem, root_dir[s].first)
  OBVIOUS
<1>3. MemLike(Mem) /\ Mem.dir = root_dir /\ Mem.fd = fd_table
  BY DEF MemLike, Mem
<1>4. MemLike(m) /\ m.dir = root_dir /\ m.fd = fd_table
  BY <1>2, <1>3, FreeShapes
<1>5. PICK t : t = [m EXCEPT !.dir[s] = FreeEntry]
  OBVIOUS
<1>6. Finish("delete", t, << "fat", "dir", "super" >>)
  BY <1>1, <1>2, <1>5
<1>7. t.dir = [root_dir EXCEPT ![s] = FreeEntry] /\ t.fd = fd_table
  BY <1>4, <1>5 DEF MemLike
<1>8. EntryLike(FreeEntry)
  BY ShellSizes DEF EntryLike, FreeEntry
<1>9. DirLike(t.dir)
  BY <1>7, <1>8 DEF Shapes, DirLike
<1>10. /\ DirLike(root_dir') /\ DirLike(disk'.dir) /\ failures' \in Nat
       /\ fd_table' \in {fd_table, Closed}
  BY <1>6, <1>7, <1>9, FinishShapes DEF Shapes
<1> QED
  BY <1>10, BlankShapes DEF Shapes

LEMMA OpenCall ==
  ASSUME Shapes, NEW n \in Names, NEW mode \in {READ, WRITE}, fs_open(n, mode), NoneOpen(fd_table),
         NEW d, d = Least(FreeFds(Mem))
  PROVE  Shapes' /\ OnlyOpen(fd_table', d) /\ fd_table'[d].pos = 0
<1>1. d \in Fds
  <2>1. FreeFds(Mem) # {} /\ FreeFds(Mem) \in SUBSET Fds
    BY DEF fs_open, FreeFds
  <2>2. FreeFds(Mem) \in SUBSET Nat
    BY <2>1, SlotsAre
  <2> QED
    BY <2>1, <2>2, LeastIs
<1>2. mode # APPEND /\ mode \in Modes
  BY DEF READ, WRITE, APPEND, Modes
<1>10. PICK s \in DirSlots :
         fd_table' = [fd_table EXCEPT ![d] =
           [in_use |-> TRUE, name |-> n, first |-> root_dir[s].first, size |-> root_dir[s].size,
            pos |-> 0, cur |-> root_dir[s].first, mode |-> mode, modified |-> FALSE]]
  BY <1>2 DEF fs_open, find_file_by_name
<1>3. PICK g :
        /\ g = [in_use |-> TRUE, name |-> n, first |-> root_dir[s].first, size |-> root_dir[s].size,
                pos |-> 0, cur |-> root_dir[s].first, mode |-> mode, modified |-> FALSE]
        /\ fd_table' = [fd_table EXCEPT ![d] = g]
  BY <1>10
<1>4. UNCHANGED << superblock, fat, root_dir, data, disk, failures >>
  BY DEF fs_open
<1>5. root_dir[s].size \in 0..ClusterSize
  BY DEF Shapes, DirLike, EntryLike
<1>6. FdLike(g) /\ g.in_use /\ g.pos = 0
  <2>1. g.first = root_dir[s].first /\ g.cur = root_dir[s].first /\ g.in_use = TRUE /\ g.pos = 0
    BY <1>3
  <2> QED
    BY <1>2, <1>3, <1>5, <2>1 DEF FdLike
<1>7. FdsLike(fd_table') /\ fd_table'[d] = g /\ \A e \in Fds : e # d => fd_table'[e] = fd_table[e]
  BY <1>1, <1>3, <1>6 DEF Shapes, FdsLike
<1>8. OnlyOpen(fd_table', d) /\ fd_table'[d].pos = 0
  BY <1>1, <1>6, <1>7 DEF OnlyOpen, NoneOpen
<1> QED
  BY <1>4, <1>7, <1>8 DEF Shapes

LEMMA ReadCall ==
  ASSUME Shapes, NEW d \in Fds, NEW count \in Nat, fs_read(d, count), OnlyOpen(fd_table, d)
  PROVE  Shapes' /\ OnlyOpen(fd_table', d)
<1>1. PICK g : g = ReadLoop(d, count)
  OBVIOUS
<1>2. fd_table' = [fd_table EXCEPT ![d] = g] /\ UNCHANGED << root_dir, disk, failures >>
  BY <1>1 DEF fs_read, AfterRead
<1>3. FdLike(g) /\ g.in_use = fd_table[d].in_use
  BY <1>1, ReadShapes DEF Shapes, FdsLike
<1>4. FdsLike(fd_table') /\ fd_table'[d] = g /\ \A e \in Fds : e # d => fd_table'[e] = fd_table[e]
  BY <1>2, <1>3 DEF Shapes, FdsLike
<1> QED
  BY <1>2, <1>3, <1>4 DEF Shapes, OnlyOpen

LEMMA WriteCall ==
  ASSUME Shapes, NEW d \in Fds, NEW count \in Nat, fs_write(d, count), OnlyOpen(fd_table, d),
         fd_table[d].pos \in Nat, fd_table[d].pos + count <= ClusterSize
  PROVE  /\ Shapes'
         /\ \/ failures' # failures /\ NoneOpen(fd_table')
            \/ /\ failures' = failures /\ OnlyOpen(fd_table', d)
               /\ fd_table'[d].pos \in Nat /\ fd_table'[d].pos <= fd_table[d].pos + count
<1>1. PICK n \in Nat : n = Allowed(d, count) /\ n <= count
  <2>1. PICK p \in Nat : p = fd_table[d].pos
    OBVIOUS
  <2>2. MaxFileSize - p \in Nat
    BY <2>1, ShellSizes
  <2> QED
    BY <2>1, <2>2 DEF Allowed, Min2
<1>2. PICK w : w = AfterWrite(d, n)
  OBVIOUS
<1>3. Kin(w, Mem, d) /\ w.fd[d].pos \in Nat /\ w.fd[d].pos <= fd_table[d].pos + n
  BY <1>2, WriteShapes DEF Shapes
<1>4. w.fd[d].pos <= fd_table[d].pos + count /\ w.fd[d].pos \in 0..ClusterSize
  BY <1>1, <1>3, ShellSizes
<1>5. PICK m : m = Grown(w, d)
  OBVIOUS
<1>6. MemLike(w) /\ FdsLike(w.fd)
  BY <1>3 DEF Kin
<1>7. Kin(m, w, d) /\ m.fd[d].pos = w.fd[d].pos
  BY <1>4, <1>5, <1>6, GrownShapes
<1>8. Kin(m, Mem, d)
  BY <1>3, <1>7, KinOfKin
<1>9. Finish("write", m, << "fat", "super" >>)
  BY <1>1, <1>2, <1>5 DEF fs_write
<1>10. m.dir = root_dir /\ FdsLike(m.fd) /\ \A e \in Fds : m.fd[e].in_use = fd_table[e].in_use
  BY <1>8 DEF Kin, Mem
<1>11. /\ DirLike(root_dir') /\ DirLike(disk'.dir) /\ failures' \in Nat
       /\ \/ failures' = failures /\ fd_table' = m.fd
          \/ failures' # failures /\ fd_table' = Closed
  BY <1>9, <1>10, FinishShapes DEF Shapes
<1>12. CASE failures' = failures /\ fd_table' = m.fd
  BY <1>3, <1>4, <1>7, <1>10, <1>11, <1>12 DEF Shapes, OnlyOpen
<1>13. CASE failures' # failures /\ fd_table' = Closed
  BY <1>11, <1>13, BlankShapes DEF Shapes
<1> QED
  BY <1>11, <1>12, <1>13

LEMMA CloseCall ==
  ASSUME Shapes, NEW d, fs_close(d), OnlyOpen(fd_table, d)
  PROVE  Shapes' /\ NoneOpen(fd_table')
<1> DEFINE f == fd_table[d]
           S == IF f.modified THEN find_file_by_name(Mem, f.name) ELSE {}
           dir == [s \in DirSlots |-> IF s \in S
                                      THEN [root_dir[s] EXCEPT !.first = f.first, !.size = f.size]
                                      ELSE root_dir[s]]
<1>1. PICK ws, m : m = [Mem EXCEPT !.fd[d] = ClosedFd, !.dir = dir] /\ Finish("close", m, ws)
  BY DEF fs_close, Mem
<1>2. d \in Fds
  BY DEF OnlyOpen
<1>3. m.dir = dir /\ m.fd = [fd_table EXCEPT ![d] = ClosedFd]
  BY <1>1 DEF Mem
<1>4. DirLike(dir)
  <2>1. ASSUME NEW s \in DirSlots PROVE EntryLike(dir[s])
    <3>1. PICK x : x = root_dir[s]
      OBVIOUS
    <3>2. EntryLike(x)
      BY <3>1 DEF Shapes, DirLike
    <3>3. PICK y : y = [x EXCEPT !.first = f.first, !.size = f.size]
      OBVIOUS
    <3>4. f.size \in 0..ClusterSize
      BY <1>2 DEF Shapes, FdsLike, FdLike
    <3>5. y.first = f.first
      BY <3>2, <3>3 DEF EntryLike
    <3> HIDE DEF f
    <3>6. EntryLike(y)
      BY <3>2, <3>3, <3>4, <3>5 DEF EntryLike
    <3>7. dir[s] \in {x, y}
      BY <3>1, <3>3
    <3> QED
      BY <3>2, <3>6, <3>7
  <2>2. dir = [s \in DirSlots |-> dir[s]]
    OBVIOUS
  <2> HIDE DEF dir
  <2> QED
    BY <2>1, <2>2 DEF DirLike
<1>5. FdsLike(m.fd) /\ NoneOpen(m.fd)
  <2>1. FdLike(ClosedFd) /\ ~ ClosedFd.in_use
    BY <1>2, BlankShapes DEF FdsLike, Closed, ClosedFd
  <2>2. FdsLike([fd_table EXCEPT ![d] = ClosedFd])
    BY <1>2, <2>1 DEF Shapes, FdsLike
  <2>3. \A e \in Fds : ~ [fd_table EXCEPT ![d] = ClosedFd][e].in_use
    BY <1>2, <2>1 DEF Shapes, FdsLike, OnlyOpen
  <2> QED
    BY <1>3, <2>2, <2>3 DEF NoneOpen
<1>6. DirLike(m.dir)
  BY <1>3, <1>4
<1>7. /\ DirLike(root_dir') /\ DirLike(disk'.dir) /\ failures' \in Nat
      /\ fd_table' \in {m.fd, Closed}
  BY <1>1, <1>6, FinishShapes DEF Shapes
<1> QED
  BY <1>5, <1>7, BlankShapes DEF Shapes

----------------------------------------------------------------------------
(***************************************************************************)
(* The commands.                                                           *)
(***************************************************************************)
LEMMA InvParts == ShellInv <=> Shapes /\ name \in Names /\ AtStep(pc, fd_table, fd, todo)
BY DEF ShellInv, Shapes

\* Back at the prompt.
LEMMA Back ==
  ASSUME Shapes', NoneOpen(fd_table'), name' \in Names, pc' = "prompt"
  PROVE  ShellInv'
BY DEF ShellInv, Shapes, AtStep, Steps, NotOpened

LEMMA StartShapes == ShellInit => ShellInv
<1> SUFFICES ASSUME ShellInit PROVE ShellInv
  OBVIOUS
<1>1. /\ fd_table = Closed /\ root_dir = NoFiles /\ disk.dir = root_dir /\ failures = 0
      /\ pc = "prompt" /\ name \in Names
  BY DEF ShellInit, Init
<1> QED
  BY <1>1, BlankShapes DEF ShellInv, AtStep, Steps, NotOpened

LEMMA Singles ==
  /\ \A count \in 1..ClusterSize : Fits(<< count >>, 0)
  /\ ClusterSize > 1 => Fits(<< 1, ClusterSize - 1 >>, 0)
<1>1. ASSUME NEW count \in 1..ClusterSize PROVE Fits(<< count >>, 0)
  BY ShellSizes DEF Fits, Total
<1>2. ASSUME ClusterSize > 1 PROVE Fits(<< 1, ClusterSize - 1 >>, 0)
  <2>1. PICK n \in Nat \ {0} : n = ClusterSize - 1
    BY <1>2, ShellSizes
  <2>2. Fits(<< 1, n >>, 0)
    BY <2>1, ShellSizes DEF Fits, Total
  <2> QED
    BY <2>1, <2>2
<1> QED
  BY <1>1, <1>2

\* After the first write the others still fit, wherever it stopped.
LEMMA FitsOn ==
  ASSUME NEW q, NEW p, Fits(q, p), q # << >>
  PROVE  /\ Head(q) \in Nat \ {0} /\ p \in Nat /\ p + Head(q) <= ClusterSize
         /\ \A x \in Nat : x <= p + Head(q) => Fits(Tail(q), x)
<1>1. PICK S : S = Nat \ {0}
  OBVIOUS
<1>2. q \in Seq(S) /\ Len(q) <= 2 /\ p \in Nat /\ p + Total(q) <= ClusterSize
  BY <1>1 DEF Fits
<1>3. PICK r : r = Tail(q)
  OBVIOUS
<1>4. /\ r \in Seq(S) /\ Len(q) \in Nat /\ Len(q) # 0 /\ Len(r) = Len(q) - 1
      /\ Head(q) = q[1] /\ \A i \in 1..Len(r) : r[i] = q[i + 1]
  BY <1>2, <1>3
<1>5. \A i \in 1..Len(q) : q[i] \in S
  BY <1>2
<1>6. Len(q) = 1 \/ Len(q) = 2
  BY <1>2, <1>4
<1>7. CASE Len(q) = 1
  <2>1. Len(r) = 0 /\ q[1] \in Nat \ {0}
    BY <1>1, <1>4, <1>5, <1>7
  <2>2. Total(q) = q[1] /\ Total(r) = 0
    BY <1>7, <2>1 DEF Total
  <2>3. ASSUME NEW x \in Nat, x <= p + q[1] PROVE Fits(r, x)
    BY <1>1, <1>2, <1>4, <2>1, <2>2, <2>3, ShellSizes DEF Fits
  <2> QED
    BY <1>2, <1>3, <1>4, <2>1, <2>2, <2>3
<1>8. CASE Len(q) = 2
  <2>1. 1 \in 1..Len(q) /\ 2 \in 1..Len(q) /\ Len(r) = 1 /\ 1 \in 1..Len(r)
    BY <1>4, <1>8
  <2>2. q[1] \in S /\ q[2] \in S
    BY <1>5, <2>1
  <2>3. r[1] = q[2]
    BY <1>4, <2>1
  <2>4. PICK a \in Nat \ {0}, b \in Nat \ {0} : a = q[1] /\ b = q[2]
    BY <1>1, <2>2
  <2>5. Total(q) = a + b /\ Total(r) = b
    BY <1>8, <2>1, <2>3, <2>4 DEF Total
  <2>6. p + (a + b) <= ClusterSize
    BY <1>2, <2>5
  <2>7. ASSUME NEW x \in Nat, x <= p + a PROVE Fits(r, x)
    <3>1. x + b <= ClusterSize
      BY <1>2, <2>4, <2>6, <2>7, ShellSizes
    <3>2. Len(r) <= 2
      BY <2>1
    <3> QED
      BY <1>1, <1>4, <2>5, <3>1, <3>2 DEF Fits
  <2>8. p + a <= ClusterSize
    BY <1>2, <2>4, <2>6, ShellSizes
  <2> QED
    BY <1>2, <1>3, <1>4, <2>4, <2>7, <2>8
<1> QED
  BY <1>6, <1>7, <1>8

LEMMA ClosesOK ==
  ASSUME ShellInv, pc \notin NotOpened, Closes
  PROVE  ShellInv'
<1>1. Shapes /\ OnlyOpen(fd_table, fd)
  BY InvParts DEF AtStep
<1>2. fs_close(fd) /\ pc' = "prompt" /\ UNCHANGED << name, fd, todo >>
  BY DEF Closes, Goes
<1>3. Shapes' /\ NoneOpen(fd_table')
  BY <1>1, <1>2, CloseCall
<1> QED
  BY <1>2, <1>3, Back DEF ShellInv

LEMMA OpensOK ==
  ASSUME ShellInv, pc \in NotOpened, NEW n \in Names, NEW mode \in {READ, WRITE},
         NEW p \in {"cat", "data", "exec"}, Opens(n, mode, p), name' \in Names,
         p = "data" => Fits(todo', 0)
  PROVE  ShellInv'
<1>1. Shapes /\ NoneOpen(fd_table)
  BY InvParts DEF AtStep
<1>2. fs_open(n, mode) /\ fd' = Least(FreeFds(Mem)) /\ pc' = p
  BY DEF Opens
<1>3. PICK d : d = Least(FreeFds(Mem))
  OBVIOUS
<1>4. Shapes' /\ OnlyOpen(fd_table', d) /\ fd_table'[d].pos = 0
  BY <1>1, <1>2, <1>3, OpenCall
<1>5. AtStep(p, fd_table', d, todo')
  BY <1>4 DEF AtStep, Steps, NotOpened
<1> QED
  BY <1>2, <1>3, <1>4, <1>5 DEF ShellInv, Shapes

LEMMA AtPrompt ==
  ASSUME ShellInv, pc = "prompt"
  PROVE  Shapes /\ NoneOpen(fd_table) /\ pc \in NotOpened /\ name \in Names
BY InvParts DEF AtStep, NotOpened

LEMMA BeginOK ==
  ASSUME ShellInv, NEW n \in Names, NEW q, Fits(q, 0), Begin(n, q)
  PROVE  ShellInv'
<1>1. pc = "prompt" /\ name' = n /\ todo' = q
  BY DEF Begin
<1>2. CASE CanOpen(n)
  <2>1. Opens(n, WRITE, "data")
    BY <1>2 DEF Begin
  <2> QED
    BY <1>1, <2>1, AtPrompt, OpensOK
<1>3. CASE ~ CanOpen(n)
  <2>1. pc' = "create" /\ UNCHANGED << vars, fd >>
    BY <1>3 DEF Begin
  <2>2. UNCHANGED << root_dir, fd_table, disk, failures >>
    BY <2>1 DEF vars, memory
  <2> QED
    BY <1>1, <2>1, <2>2, AtPrompt DEF ShellInv, Shapes, AtStep, Steps, NotOpened
<1> QED
  BY <1>2, <1>3

LEMMA CommandOK == ASSUME ShellInv, execute_command PROVE ShellInv'
<1>1. PICK n \in Names :
        cmd_touch(n) \/ cmd_rm(n) \/ cmd_cat(n) \/ cmd_write(n) \/ cmd_mkexec(n) \/ cmd_mkbin(n)
          \/ cmd_exec(n)
  BY DEF execute_command
<1>2. CASE cmd_touch(n)
  <2>1. pc = "prompt" /\ fs_create(n) /\ pc' = "prompt" /\ name' = name
    BY <1>2 DEF cmd_touch, Goes
  <2>2. Shapes' /\ NoneOpen(fd_table')
    BY <2>1, AtPrompt, CreateCall
  <2> QED
    BY <2>1, <2>2, AtPrompt, Back
<1>3. CASE cmd_rm(n)
  <2>1. pc = "prompt" /\ fs_delete(n) /\ pc' = "prompt" /\ name' = name
    BY <1>3 DEF cmd_rm, Goes
  <2>2. Shapes' /\ NoneOpen(fd_table')
    BY <2>1, AtPrompt, DeleteCall
  <2> QED
    BY <2>1, <2>2, AtPrompt, Back
<1>4. CASE cmd_cat(n)
  <2>1. pc = "prompt" /\ Opens(n, READ, "cat") /\ name' = name
    BY <1>4 DEF cmd_cat
  <2> QED
    BY <2>1, AtPrompt, OpensOK
<1>5. CASE cmd_write(n)
  <2>1. PICK count \in 1..Line : Begin(n, << count >>)
    BY <1>5 DEF cmd_write
  <2>2. Fits(<< count >>, 0)
    BY ShellSizes, Singles
  <2> QED
    BY <2>1, <2>2, BeginOK
<1>6. CASE cmd_mkexec(n)
  <2>1. Begin(n, << 1 >>)
    BY <1>6 DEF cmd_mkexec
  <2>2. Fits(<< 1 >>, 0)
    BY ShellSizes, Singles
  <2> QED
    BY <2>1, <2>2, BeginOK
<1>7. CASE cmd_mkbin(n)
  <2>1. ClusterSize > 1 /\ Begin(n, << 1, ClusterSize - 1 >>)
    BY <1>7 DEF cmd_mkbin
  <2> QED
    BY <2>1, Singles, BeginOK
<1>8. CASE cmd_exec(n)
  <2>1. pc = "prompt" /\ Opens(n, READ, "exec") /\ name' = name
    BY <1>8 DEF cmd_exec
  <2> QED
    BY <2>1, AtPrompt, OpensOK
<1> QED
  BY <1>1, <1>2, <1>3, <1>4, <1>5, <1>6, <1>7, <1>8

LEMMA CatOK == ASSUME ShellInv, CatLoop PROVE ShellInv'
<1>1. pc = "cat" /\ pc \notin NotOpened /\ Shapes /\ OnlyOpen(fd_table, fd) /\ name \in Names
  BY InvParts DEF AtStep, CatLoop, NotOpened
<1>2. CASE AtEnd(Chunk)
  BY <1>1, <1>2, ClosesOK DEF CatLoop
<1>3. CASE ~ AtEnd(Chunk)
  <2>1. fs_read(fd, Chunk) /\ pc' = pc /\ name' = name /\ fd' = fd /\ todo' = todo
    BY <1>3 DEF CatLoop, shellVars
  <2>2. fd \in Fds /\ Chunk \in Nat
    BY <1>1, ShellSizes DEF OnlyOpen
  <2>3. Shapes' /\ OnlyOpen(fd_table', fd)
    BY <1>1, <2>1, <2>2, ReadCall
  <2> QED
    BY <1>1, <2>1, <2>3 DEF ShellInv, Shapes, AtStep, Steps, NotOpened
<1> QED
  BY <1>2, <1>3

LEMMA CreateStepOK == ASSUME ShellInv, Create PROVE ShellInv'
<1>1. /\ pc = "create" /\ Shapes /\ NoneOpen(fd_table) /\ Fits(todo, 0) /\ name \in Names
      /\ name' = name /\ fd' = fd /\ todo' = todo
  BY InvParts DEF AtStep, Create, NotOpened
<1>2. CASE fs_create(name) /\ Goes("reopen")
  <2>1. Shapes' /\ NoneOpen(fd_table')
    BY <1>1, <1>2, CreateCall
  <2>2. pc' \in {"prompt", "reopen"}
    BY <1>2 DEF Goes
  <2> QED
    BY <1>1, <2>1, <2>2 DEF ShellInv, Shapes, AtStep, Steps, NotOpened
<1>3. CASE pc' = "reopen" /\ UNCHANGED vars
  <2>1. UNCHANGED << root_dir, fd_table, disk, failures >>
    BY <1>3 DEF vars, memory
  <2> QED
    BY <1>1, <1>3, <2>1 DEF ShellInv, Shapes, AtStep, Steps, NotOpened
<1> QED
  BY <1>2, <1>3 DEF Create

LEMMA ReopenOK == ASSUME ShellInv, Reopen PROVE ShellInv'
<1>1. /\ pc = "reopen" /\ pc \in NotOpened /\ Shapes /\ NoneOpen(fd_table) /\ Fits(todo, 0)
      /\ name \in Names /\ name' = name /\ todo' = todo
  BY InvParts DEF AtStep, Reopen, NotOpened
<1>2. CASE CanOpen(name)
  <2>1. Opens(name, WRITE, "data")
    BY <1>2 DEF Reopen
  <2> QED
    BY <1>1, <2>1, OpensOK
<1>3. CASE ~ CanOpen(name)
  <2>1. pc' = "prompt" /\ UNCHANGED << vars, fd >>
    BY <1>3 DEF Reopen
  <2>2. UNCHANGED << root_dir, fd_table, disk, failures >>
    BY <2>1 DEF vars, memory
  <2> QED
    BY <1>1, <2>1, <2>2 DEF ShellInv, Shapes, AtStep, Steps, NotOpened
<1> QED
  BY <1>2, <1>3

LEMMA DataOK == ASSUME ShellInv, Data PROVE ShellInv'
<1>1. /\ pc = "data" /\ Shapes /\ OnlyOpen(fd_table, fd) /\ Fits(todo, fd_table[fd].pos)
      /\ name \in Names /\ todo # << >> /\ fd \in Fds
  BY InvParts DEF AtStep, Data, NotOpened, OnlyOpen
<1>2. /\ fs_write(fd, Head(todo)) /\ Goes("data")
      /\ name' = name /\ fd' = fd /\ todo' = Tail(todo)
  BY DEF Data
<1>3. PICK p : p = fd_table[fd].pos
  OBVIOUS
<1>4. Fits(todo, p)
  BY <1>1, <1>3
<1>5. /\ Head(todo) \in Nat \ {0} /\ p \in Nat /\ p + Head(todo) <= ClusterSize
      /\ \A x \in Nat : x <= p + Head(todo) => Fits(Tail(todo), x)
  BY <1>1, <1>4, FitsOn
<1>6. PICK count \in Nat : count = Head(todo)
  BY <1>5
<1>7. fs_write(fd, count) /\ fd_table[fd].pos \in Nat /\ fd_table[fd].pos + count <= ClusterSize
  BY <1>2, <1>3, <1>5, <1>6
<1>8. /\ Shapes'
      /\ \/ failures' # failures /\ NoneOpen(fd_table')
         \/ /\ failures' = failures /\ OnlyOpen(fd_table', fd)
            /\ fd_table'[fd].pos \in Nat /\ fd_table'[fd].pos <= fd_table[fd].pos + count
  BY <1>1, <1>7, WriteCall
<1>9. CASE failures' # failures /\ NoneOpen(fd_table')
  <2>1. pc' = "prompt" /\ name' \in Names
    BY <1>1, <1>2, <1>9 DEF Goes
  <2> QED
    BY <1>8, <1>9, <2>1, Back
<1>10. CASE /\ failures' = failures /\ OnlyOpen(fd_table', fd)
            /\ fd_table'[fd].pos \in Nat /\ fd_table'[fd].pos <= fd_table[fd].pos + count
  <2>1. pc' = "data"
    BY <1>2, <1>10 DEF Goes
  <2>2. Fits(todo', fd_table'[fd].pos)
    BY <1>2, <1>3, <1>5, <1>6, <1>10
  <2>3. AtStep(pc', fd_table', fd', todo')
    BY <1>2, <1>10, <2>1, <2>2 DEF AtStep, Steps, NotOpened
  <2> QED
    BY <1>1, <1>2, <1>8, <2>3 DEF ShellInv, Shapes
<1> QED
  BY <1>8, <1>9, <1>10

LEMMA ExecOK == ASSUME ShellInv, ExecRead PROVE ShellInv'
<1>1. pc = "exec" /\ pc \notin NotOpened /\ Shapes /\ OnlyOpen(fd_table, fd) /\ name \in Names
  BY InvParts DEF AtStep, ExecRead, NotOpened
<1>2. CASE fd_table[fd].size = 0
  BY <1>1, <1>2, ClosesOK DEF ExecRead
<1>3. CASE fd_table[fd].size # 0
  <2>1. fs_read(fd, fd_table[fd].size) /\ pc' = "loaded" /\ UNCHANGED << name, fd, todo >>
    BY <1>3 DEF ExecRead
  <2>2. fd \in Fds /\ fd_table[fd].size \in Nat
    BY <1>1, ShellSizes DEF OnlyOpen, Shapes, FdsLike, FdLike
  <2>3. Shapes' /\ OnlyOpen(fd_table', fd)
    BY <1>1, <2>1, <2>2, ReadCall
  <2> QED
    BY <1>1, <2>1, <2>3 DEF ShellInv, Shapes, AtStep, Steps, NotOpened
<1> QED
  BY <1>2, <1>3

LEMMA ShellStep == ShellInv /\ [ShellNext]_allVars => ShellInv'
<1>1. ASSUME ShellInv, Format PROVE ShellInv'
  <2>1. fs_format /\ pc' = "prompt" /\ name' \in Names
    BY <1>1, InvParts DEF Format, Goes
  <2>2. Shapes' /\ NoneOpen(fd_table')
    BY <1>1, <2>1, InvParts, FormatCall
  <2> QED
    BY <2>1, <2>2, Back
<1>2. ASSUME ShellInv, CloseWritten \/ ExecClose PROVE ShellInv'
  <2>1. pc \in {"data", "loaded"} /\ Closes
    BY <1>2 DEF CloseWritten, ExecClose
  <2> QED
    BY <1>2, <2>1, ClosesOK DEF NotOpened
<1>3. ASSUME ShellInv, UNCHANGED allVars PROVE ShellInv'
  <2>1. UNCHANGED << root_dir, fd_table, disk, failures, pc, name, fd, todo >>
    BY <1>3 DEF allVars, shellVars, vars, memory
  <2> QED
    BY <1>3, <2>1 DEF ShellInv
<1> QED
  BY <1>1, <1>2, <1>3, CommandOK, CatOK, CreateStepOK, ReopenOK, DataOK, ExecOK DEF ShellNext

\* What ShellInv says holds of every behaviour of the shell.
THEOREM ShellHolds == ShellSpec => []ShellInv
<1> QED
  BY StartShapes, ShellStep, PTL DEF ShellSpec

\* Whichever of its calls fail, no command comes back to the prompt with a
\* descriptor in use (cmd_cat, cmd_write, cmd_mkexec, cmd_mkbin, SYS_EXEC).
THEOREM NothingIsLeftOpen == ShellSpec => []NothingLeftOpen
<1>1. ShellInv => NothingLeftOpen
  BY DEF ShellInv, AtStep, NotOpened, NoneOpen, NothingLeftOpen, FreeFds, Mem
<1> QED
  BY <1>1, ShellHolds, PTL

----------------------------------------------------------------------------
(***************************************************************************)
(* The rules.  A call of the shell is the same call under Rules: the two   *)
(* differ only in what programs may open and delete.                       *)
(***************************************************************************)
LEMMA RulesInit == Init => Rules!Init
BY DEF READ, Rules!READ, WRITE, Rules!WRITE, APPEND, Rules!APPEND, NoName, Rules!NoName,
       FAT_FREE, Rules!FAT_FREE, ClusterNos, Rules!ClusterNos, Bytes, Rules!Bytes,
       DirSlots, Rules!DirSlots, Fds, Rules!Fds, FreeEntry, Rules!FreeEntry, ClosedFd,
       Rules!ClosedFd, Blank, Rules!Blank, NoFiles, Rules!NoFiles, Closed, Rules!Closed,
       Init, Rules!Init

LEMMA RulesFormat == fs_format => Rules!fs_format
BY DEF READ, Rules!READ, WRITE, Rules!WRITE, APPEND, Rules!APPEND, NoName, Rules!NoName,
       FAT_FREE, Rules!FAT_FREE, FAT_EOF, Rules!FAT_EOF, ClusterNos, Rules!ClusterNos,
       Bytes, Rules!Bytes, DirSlots, Rules!DirSlots, Fds, Rules!Fds, FreeEntry,
       Rules!FreeEntry, ClosedFd, Rules!ClosedFd, Blank, Rules!Blank, NoFiles,
       Rules!NoFiles, Closed, Rules!Closed, Mem, Rules!Mem, Become, Rules!Become, Written,
       Rules!Written, Mounted, Rules!Mounted, Finish, Rules!Finish, fs_format,
       Rules!fs_format

LEMMA RulesCreate ==
  ASSUME NEW n, fs_create(n) PROVE Rules!fs_create(n)
BY DEF READ, Rules!READ, WRITE, Rules!WRITE, APPEND, Rules!APPEND, NoName, Rules!NoName,
       FAT_FREE, Rules!FAT_FREE, ClusterNos, Rules!ClusterNos, Bytes, Rules!Bytes,
       DirSlots, Rules!DirSlots, Fds, Rules!Fds, ClosedFd, Rules!ClosedFd, Blank,
       Rules!Blank, Closed, Rules!Closed, Mem, Rules!Mem, Become, Rules!Become, Written,
       Rules!Written, Mounted, Rules!Mounted, Finish, Rules!Finish, Least, Rules!Least,
       find_file_by_name, Rules!find_file_by_name, FreeSlots, Rules!FreeSlots, Valid,
       Rules!Valid, fs_create, Rules!fs_create

LEMMA RulesClose ==
  ASSUME NEW d, fs_close(d) PROVE Rules!fs_close(d)
BY DEF READ, Rules!READ, WRITE, Rules!WRITE, APPEND, Rules!APPEND, NoName, Rules!NoName,
       FAT_FREE, Rules!FAT_FREE, ClusterNos, Rules!ClusterNos, Bytes, Rules!Bytes,
       DirSlots, Rules!DirSlots, Fds, Rules!Fds, ClosedFd, Rules!ClosedFd, Blank,
       Rules!Blank, Closed, Rules!Closed, Mem, Rules!Mem, Become, Rules!Become, Written,
       Rules!Written, Mounted, Rules!Mounted, Finish, Rules!Finish, find_file_by_name,
       Rules!find_file_by_name, Valid, Rules!Valid, fs_close, Rules!fs_close

LEMMA RulesRead ==
  ASSUME NEW d, NEW count, fs_read(d, count) PROVE Rules!fs_read(d, count)
BY DEF READ, Rules!READ, FAT_EOF, Rules!FAT_EOF, FAT_BAD, Rules!FAT_BAD, Mem, Rules!Mem,
       fat_read, Rules!fat_read, Valid, Rules!Valid, AtBoundary, Rules!AtBoundary, Min2,
       Rules!Min2, ReadLoop, Rules!ReadLoop, AfterRead, Rules!AfterRead, fs_read,
       Rules!fs_read

\* With every file closed, and none longer than a cluster, the shell may open and
\* delete what it likes.
LEMMA RulesOpen ==
  ASSUME NEW n, NEW mode, fs_open(n, mode), Shapes, NoneOpen(fd_table)
  PROVE  Rules!fs_open(n, mode)
<1>1. Rules!MayOpen(n, mode)
  BY DEF NoneOpen, Rules!MayOpen, Rules!OpenFds, Rules!Fds, Fds
<1>2. \A s \in DirSlots : Rules!MayReopen(root_dir[s], mode)
  BY ShellSizes DEF Shapes, DirLike, EntryLike, Rules!MayReopen
<1> QED
  BY <1>1, <1>2
  DEF READ, Rules!READ, APPEND, Rules!APPEND, DirSlots, Rules!DirSlots, Fds, Rules!Fds,
       Mem, Rules!Mem, Least, Rules!Least, find_file_by_name, Rules!find_file_by_name,
       FreeFds, Rules!FreeFds, Valid, Rules!Valid, fs_open, Rules!fs_open

LEMMA RulesDelete ==
  ASSUME NEW n, fs_delete(n), NoneOpen(fd_table)
  PROVE  Rules!fs_delete(n)
<1>1. Rules!MayDelete(n)
  BY DEF NoneOpen, Rules!MayDelete, Rules!OpenFds, Rules!Fds, Fds
<1> QED
  BY <1>1
  DEF READ, Rules!READ, WRITE, Rules!WRITE, APPEND, Rules!APPEND, NoName, Rules!NoName,
       FAT_FREE, Rules!FAT_FREE, FAT_BAD, Rules!FAT_BAD, ClusterNos, Rules!ClusterNos,
       Bytes, Rules!Bytes, DirSlots, Rules!DirSlots, Fds, Rules!Fds, FreeEntry,
       Rules!FreeEntry, ClosedFd, Rules!ClosedFd, Blank, Rules!Blank, Closed,
       Rules!Closed, Mem, Rules!Mem, Become, Rules!Become, Written, Rules!Written,
       Mounted, Rules!Mounted, Finish, Rules!Finish, find_file_by_name,
       Rules!find_file_by_name, fat_read, Rules!fat_read, free_cluster,
       Rules!free_cluster, free_cluster_chain, Rules!free_cluster_chain, Valid,
       Rules!Valid, fs_delete, Rules!fs_delete

\* fs_write, whose loop is compared turn by turn.
LEMMA RulesFinish ==
  ASSUME NEW op, NEW m, NEW ws, Finish(op, m, ws) PROVE Rules!Finish(op, m, ws)
BY DEF READ, Rules!READ, WRITE, Rules!WRITE, APPEND, Rules!APPEND, NoName, Rules!NoName,
       FAT_FREE, Rules!FAT_FREE, ClusterNos, Rules!ClusterNos, Bytes, Rules!Bytes, Fds,
       Rules!Fds, ClosedFd, Rules!ClosedFd, Blank, Rules!Blank, Closed, Rules!Closed,
       Become, Rules!Become, Written, Rules!Written, Mounted, Rules!Mounted, Finish,
       Rules!Finish

LEMMA RulesValues ==
  /\ Rules!READ = READ /\ Rules!Mem = Mem
  /\ \A f : Rules!AtBoundary(f) <=> AtBoundary(f)
  /\ \A f : Rules!NeedsCluster(f) <=> NeedsCluster(f)
  /\ \A a, b : Rules!Min2(a, b) = Min2(a, b)
  /\ \A m : Rules!CanAlloc(m) <=> CanAlloc(m)
  /\ \A m : Rules!Least(Rules!FreeClusters(m.fat)) = Least(FreeClusters(m.fat))
BY DEF READ, Rules!READ, Mem, Rules!Mem, AtBoundary, Rules!AtBoundary, NeedsCluster,
       Rules!NeedsCluster, Min2, Rules!Min2, CanAlloc, Rules!CanAlloc, Least, Rules!Least,
       FreeClusters, Rules!FreeClusters, ClusterNos, Rules!ClusterNos, FAT_FREE, Rules!FAT_FREE

LEMMA RulesStore ==
  ASSUME NEW m, NEW d, NEW n PROVE Rules!Store(m, d, n) = Store(m, d, n)
BY DEF Store, Rules!Store, Bytes, Rules!Bytes

LEMMA RulesExtend ==
  ASSUME NEW m, NEW d, NEW c PROVE Rules!Extend(m, d, c) = Extend(m, d, c)
BY DEF Extend, Rules!Extend, alloc_cluster, Rules!alloc_cluster, fat_write, Rules!fat_write,
       FAT_EOF, Rules!FAT_EOF

LEMMA RulesGrown ==
  ASSUME NEW m, NEW d PROVE Rules!Grown(m, d) = Grown(m, d)
BY DEF Grown, Rules!Grown

RulesTurn(w, d) ==
  LET f == w.m.fd[d]
      n == Rules!Min2(w.left, ClusterSize - (f.pos % ClusterSize))
  IN IF w.left = 0 THEN w
     ELSE IF ~ Rules!NeedsCluster(f) THEN [m |-> Rules!Store(w.m, d, n), left |-> w.left - n]
     ELSE IF ~ Rules!CanAlloc(w.m) THEN [w EXCEPT !.left = 0]
     ELSE [m |-> Rules!Store(Rules!Extend(w.m, d, Rules!Least(Rules!FreeClusters(w.m.fat))), d, n),
           left |-> w.left - n]
RulesWriting(h, d, count) ==
  h = [k \in 0..count |-> IF k = 0 THEN [m |-> Rules!Mem, left |-> count]
                          ELSE RulesTurn(h[k - 1], d)]

LEMMA RulesTurnIs ==
  ASSUME NEW w, NEW d PROVE RulesTurn(w, d) = WriteTurn(w, d)
<1>1. PICK f, n : f = w.m.fd[d] /\ n = Min2(w.left, ClusterSize - (f.pos % ClusterSize))
  OBVIOUS
<1>2. PICK x : x = Extend(w.m, d, Least(FreeClusters(w.m.fat)))
  OBVIOUS
<1>3. PICK y, z : y = Store(w.m, d, n) /\ z = Store(x, d, n)
  OBVIOUS
<1>4. WriteTurn(w, d) = IF w.left = 0 THEN w
                        ELSE IF ~ NeedsCluster(f) THEN [m |-> y, left |-> w.left - n]
                        ELSE IF ~ CanAlloc(w.m) THEN [w EXCEPT !.left = 0]
                        ELSE [m |-> z, left |-> w.left - n]
  BY <1>1, <1>2, <1>3 DEF WriteTurn
<1>5. n = Rules!Min2(w.left, ClusterSize - (f.pos % ClusterSize))
  BY <1>1, RulesValues
<1>6. x = Rules!Extend(w.m, d, Rules!Least(Rules!FreeClusters(w.m.fat)))
  BY <1>2, RulesValues, RulesExtend
<1>7. y = Rules!Store(w.m, d, n) /\ z = Rules!Store(x, d, n)
  BY <1>3, RulesStore
<1>8. (Rules!NeedsCluster(f) <=> NeedsCluster(f)) /\ (Rules!CanAlloc(w.m) <=> CanAlloc(w.m))
  BY RulesValues
<1>9. RulesTurn(w, d) = IF w.left = 0 THEN w
                        ELSE IF ~ Rules!NeedsCluster(f) THEN [m |-> y, left |-> w.left - n]
                        ELSE IF ~ Rules!CanAlloc(w.m) THEN [w EXCEPT !.left = 0]
                        ELSE [m |-> z, left |-> w.left - n]
  BY <1>1, <1>5, <1>6, <1>7 DEF RulesTurn
<1> QED
  BY <1>4, <1>8, <1>9

LEMMA RulesWritingIs ==
  ASSUME NEW h, NEW d, NEW count PROVE RulesWriting(h, d, count) <=> IsWriting(h, d, count)
<1>1. WriteFrom(count) = [m |-> Rules!Mem, left |-> count]
  BY RulesValues DEF WriteFrom
<1> QED
  BY <1>1, RulesTurnIs DEF RulesWriting, IsWriting

\* A loop has one outcome.
LEMMA LoopUnique ==
  ASSUME NEW d, NEW count \in Nat, NEW g, IsWriting(g, d, count), NEW h, IsWriting(h, d, count)
  PROVE  g[count] = h[count]
<1> DEFINE T == {k \in 0..count : g[k] = h[k]}
<1>1. /\ g[0] = WriteFrom(count) /\ \A k \in 1..count : g[k] = WriteTurn(g[k - 1], d)
      /\ h[0] = WriteFrom(count) /\ \A k \in 1..count : h[k] = WriteTurn(h[k - 1], d)
  BY DEF IsWriting
<1>2. 0 \in T /\ T \in SUBSET Nat
  BY <1>1
<1>3. \A k \in 1..count : k - 1 \in T => k \in T
  BY <1>1
<1> HIDE DEF T
<1>4. count \in T
  BY <1>2, <1>3, AllTurns
<1> QED
  BY <1>4 DEF T

LEMMA RulesAfterWrite ==
  ASSUME NEW d, NEW count \in Nat PROVE Rules!AfterWrite(d, count) = AfterWrite(d, count)
<1> DEFINE g == CHOOSE g : RulesWriting(g, d, count)
           h == CHOOSE h : IsWriting(h, d, count)
<1>1. \E x : IsWriting(x, d, count)
  <2>1. PICK x : IsLoop(x, "write", d, WriteFrom(count), count)
    BY LoopExists
  <2> QED
    BY <2>1 DEF IsLoop, IsWriting, Turn
<1>2. IsWriting(h, d, count)
  BY <1>1
<1>3. RulesWriting(g, d, count)
  BY <1>1, RulesWritingIs
<1>4. AfterWrite(d, count) = h[count].m
  BY DEF AfterWrite, IsWriting, WriteTurn, WriteFrom
<1>5. Rules!AfterWrite(d, count) = g[count].m
  BY DEF Rules!AfterWrite, RulesWriting, RulesTurn
<1> HIDE DEF g, h
<1>6. IsWriting(g, d, count)
  BY <1>3, RulesWritingIs
<1>7. g[count] = h[count]
  BY <1>2, <1>6, LoopUnique
<1> QED
  BY <1>4, <1>5, <1>7

LEMMA RulesWrite ==
  ASSUME NEW d, NEW count \in Nat, fs_write(d, count), fd_table[d].pos \in Nat,
         fd_table[d].pos <= MaxFileSize
  PROVE  Rules!fs_write(d, count)
<1>1. PICK n \in Nat : n = Allowed(d, count)
  BY ShellSizes DEF Allowed, Min2
<1>2. Rules!Allowed(d, count) = n
  BY <1>1, RulesValues DEF Allowed, Rules!Allowed
<1>3. Rules!Writable(d) /\ n # 0
  BY <1>1, RulesValues DEF fs_write, Writable, Rules!Writable, Valid, Rules!Valid
<1>4. PICK m : m = Grown(AfterWrite(d, n), d)
  OBVIOUS
<1>5. m = Rules!Grown(Rules!AfterWrite(d, n), d)
  BY <1>4, RulesGrown, RulesAfterWrite
<1>6. Finish("write", m, << "fat", "super" >>)
  BY <1>1, <1>4 DEF fs_write
<1>7. Rules!Finish("write", m, << "fat", "super" >>)
  BY <1>6, RulesFinish
<1> QED
  BY <1>2, <1>3, <1>5, <1>7 DEF Rules!fs_write

----------------------------------------------------------------------------
\* Each step of the shell is a call that keeps to the rules, or none.
Call ==
  \/ fs_format
  \/ \E n \in Names :
       \/ fs_create(n)
       \/ NoneOpen(fd_table) /\ fs_delete(n)
       \/ NoneOpen(fd_table) /\ \E mode \in {READ, WRITE} : fs_open(n, mode)
  \/ \E d \in Fds :
       \/ fs_close(d)
       \/ \E count \in 1..MaxFileSize :
            \/ fs_read(d, count)
            \/ fs_write(d, count) /\ fd_table[d].pos \in 0..MaxFileSize
  \/ UNCHANGED vars

LEMMA CommandCalls ==
  ASSUME ShellInv, execute_command PROVE Call
<1>1. PICK n \in Names :
        cmd_touch(n) \/ cmd_rm(n) \/ cmd_cat(n) \/ cmd_write(n) \/ cmd_mkexec(n) \/ cmd_mkbin(n)
          \/ cmd_exec(n)
  BY DEF execute_command
<1>2. Shapes /\ (pc = "prompt" => NoneOpen(fd_table))
  BY InvParts, AtPrompt
<1>3. CASE cmd_touch(n)
  BY <1>3 DEF Call, cmd_touch
<1>4. CASE cmd_rm(n)
  BY <1>2, <1>4 DEF Call, cmd_rm
<1>5. ASSUME NEW q, Begin(n, q) PROVE Call
  <2>1. pc = "prompt" /\ (fs_open(n, WRITE) \/ UNCHANGED vars)
    BY <1>5 DEF Begin, Opens
  <2> QED
    BY <1>2, <2>1 DEF Call
<1>6. CASE cmd_cat(n) \/ cmd_exec(n)
  <2>1. pc = "prompt" /\ fs_open(n, READ)
    BY <1>6 DEF cmd_cat, cmd_exec, Opens
  <2> QED
    BY <1>2, <2>1 DEF Call
<1>7. CASE cmd_write(n) \/ cmd_mkexec(n) \/ cmd_mkbin(n)
  <2>1. \E q : Begin(n, q)
    BY <1>7 DEF cmd_write, cmd_mkexec, cmd_mkbin
  <2> QED
    BY <1>5, <2>1
<1> QED
  BY <1>1, <1>3, <1>4, <1>6, <1>7

LEMMA StepCalls ==
  ASSUME ShellInv, [ShellNext]_allVars PROVE Call
<1>1. Shapes /\ (pc \notin NotOpened => OnlyOpen(fd_table, fd))
      /\ (pc \in NotOpened => NoneOpen(fd_table)) /\ name \in Names
  BY InvParts DEF AtStep
<1>2. CASE UNCHANGED allVars
  BY <1>2 DEF allVars, Call
<1>3. CASE Format
  BY <1>3 DEF Call, Format
<1>4. CASE execute_command
  BY <1>4, CommandCalls
<1>5. ASSUME pc \notin NotOpened, Closes PROVE Call
  <2>1. fd \in Fds /\ fs_close(fd)
    BY <1>1, <1>5 DEF Closes, OnlyOpen
  <2> QED
    BY <2>1 DEF Call
<1>6. CASE CatLoop
  <2>1. pc \notin NotOpened /\ (Closes \/ fs_read(fd, Chunk))
    BY <1>6 DEF CatLoop, NotOpened
  <2>2. fd \in Fds /\ Chunk \in 1..MaxFileSize
    BY <1>1, <2>1, ShellSizes DEF OnlyOpen
  <2> QED
    BY <1>5, <2>1, <2>2 DEF Call
<1>7. CASE Create
  BY <1>1, <1>7 DEF Call, Create
<1>8. CASE Reopen
  <2>1. pc \in NotOpened /\ (fs_open(name, WRITE) \/ UNCHANGED vars)
    BY <1>8 DEF Reopen, Opens, NotOpened
  <2> QED
    BY <1>1, <2>1 DEF Call
<1>9. CASE Data
  <2>1. pc = "data" /\ todo # << >> /\ fs_write(fd, Head(todo)) /\ fd \in Fds
        /\ Fits(todo, fd_table[fd].pos)
    BY <1>1, <1>9, InvParts DEF Data, AtStep, OnlyOpen, NotOpened
  <2>2. PICK p : p = fd_table[fd].pos
    OBVIOUS
  <2>3. Head(todo) \in Nat \ {0} /\ p \in Nat /\ p + Head(todo) <= ClusterSize
    BY <2>1, <2>2, FitsOn
  <2>4. PICK count \in Nat \ {0} : count = Head(todo)
    BY <2>3
  <2>5. count \in 1..MaxFileSize /\ p <= MaxFileSize
    BY <2>3, <2>4, ShellSizes
  <2> QED
    BY <2>1, <2>2, <2>3, <2>4, <2>5 DEF Call
<1>10. CASE CloseWritten \/ ExecClose
  <2>1. pc \notin NotOpened /\ Closes
    BY <1>10 DEF CloseWritten, ExecClose, NotOpened
  <2> QED
    BY <1>5, <2>1
<1>11. CASE ExecRead
  <2>1. pc \notin NotOpened /\ (Closes \/ (fs_read(fd, fd_table[fd].size) /\ fd_table[fd].size # 0))
    BY <1>11 DEF ExecRead, NotOpened
  <2>2. fd \in Fds /\ fd_table[fd].size \in 0..ClusterSize
    BY <1>1, <2>1 DEF OnlyOpen, Shapes, FdsLike, FdLike
  <2>3. fd_table[fd].size # 0 => fd_table[fd].size \in 1..MaxFileSize
    BY <2>2, ShellSizes
  <2> QED
    BY <1>5, <2>1, <2>2, <2>3 DEF Call
<1> QED
  BY <1>2, <1>3, <1>4, <1>6, <1>7, <1>8, <1>9, <1>10, <1>11 DEF ShellNext

LEMMA RulesCall ==
  ASSUME Shapes, Call PROVE Rules!Next \/ UNCHANGED vars
<1>1. Rules!Fds = Fds /\ READ \in Rules!Modes /\ WRITE \in Rules!Modes
  BY DEF Rules!Fds, Fds, Rules!Modes, Rules!READ, Rules!WRITE, READ, WRITE
<1>2. fs_format => Rules!Next
  BY RulesFormat DEF Rules!Next
<1>3. ASSUME NEW n \in Names, fs_create(n) PROVE Rules!Next
  BY <1>3, RulesCreate DEF Rules!Next
<1>4. ASSUME NEW n \in Names, fs_delete(n), NoneOpen(fd_table) PROVE Rules!Next
  BY <1>4, RulesDelete DEF Rules!Next
<1>5. ASSUME NEW n \in Names, NEW mode \in {READ, WRITE}, fs_open(n, mode), NoneOpen(fd_table)
      PROVE  Rules!Next
  <2>1. Rules!fs_open(n, mode)
    BY <1>5, RulesOpen
  <2>2. mode \in Rules!Modes
    BY <1>1
  <2> QED
    BY <2>1, <2>2 DEF Rules!Next
<1>6. ASSUME NEW d \in Fds, fs_close(d) PROVE Rules!Next
  BY <1>1, <1>6, RulesClose DEF Rules!Next
<1>7. ASSUME NEW d \in Fds, NEW count \in 1..MaxFileSize, fs_read(d, count) PROVE Rules!Next
  BY <1>1, <1>7, RulesRead DEF Rules!Next
<1>8. ASSUME NEW d \in Fds, NEW count \in 1..MaxFileSize, fs_write(d, count),
             fd_table[d].pos \in 0..MaxFileSize
      PROVE  Rules!Next
  <2>1. count \in Nat /\ fd_table[d].pos \in Nat /\ fd_table[d].pos <= MaxFileSize
    BY <1>8, ShellSizes
  <2>2. Rules!fs_write(d, count)
    BY <1>8, <2>1, RulesWrite
  <2> QED
    BY <1>1, <2>2 DEF Rules!Next
<1> QED
  BY <1>2, <1>3, <1>4, <1>5, <1>6, <1>7, <1>8 DEF Call

LEMMA RulesStep == ShellInv /\ [ShellNext]_allVars => [Rules!Next]_Rules!vars
<1> SUFFICES ASSUME ShellInv, [ShellNext]_allVars PROVE Rules!Next \/ UNCHANGED vars
  BY DEF vars, memory, Rules!vars, Rules!memory
<1> QED
  BY InvParts, StepCalls, RulesCall

\* The shell never opens a file twice, deletes an open one or opens one longer
\* than a cluster for writing: its behaviours are behaviours of FileSystem under
\* the rules, wherever the power fails.
THEOREM ShellKeepsRules == ShellSpec => KeepsTheRules
<1>1. ShellInit => Rules!Init
  BY RulesInit DEF ShellInit
<1> QED
  BY <1>1, RulesStep, ShellHolds, PTL DEF ShellSpec, KeepsTheRules, Rules!Spec

----------------------------------------------------------------------------
(***************************************************************************)
(* What FileSystem_proof shows of programs that keep to the rules holds of *)
(* the shell, whose calls Shell does not restrict.                         *)
(***************************************************************************)
LEMMA FilesStep ==
  ASSUME SafeCuts, ShellInv, FilesInv, [ShellNext]_allVars PROVE FilesInv'
<1>1. Shapes /\ Call
  BY InvParts, StepCalls
<1>2. CASE fs_format
  BY <1>2, FormatOK
<1>3. ASSUME NEW n \in Names, fs_create(n) PROVE FilesInv'
  BY <1>3, CreateOK
<1>4. ASSUME NEW n \in Names, fs_delete(n), NoneOpen(fd_table) PROVE FilesInv'
  <2>1. OpenFds(n) = {}
    BY <1>4 DEF OpenFds, NoneOpen
  <2> QED
    BY <1>4, <2>1, DeleteOK
<1>5. ASSUME NEW n \in Names, NEW mode \in {READ, WRITE}, fs_open(n, mode), NoneOpen(fd_table)
      PROVE  FilesInv'
  <2>1. OpenFds(n) = {} /\ mode \in Modes
    BY <1>5 DEF OpenFds, NoneOpen, Modes
  <2>2. \A s \in find_file_by_name(Mem, n) : root_dir[s].size <= ClusterSize
    BY <1>1, ShellSizes DEF Shapes, DirLike, EntryLike, find_file_by_name
  <2> QED
    BY <1>5, <2>1, <2>2, OpenOK
<1>6. ASSUME NEW d \in Fds, fs_close(d) PROVE FilesInv'
  BY <1>6, CloseOK
<1>7. ASSUME NEW d \in Fds, NEW count \in 1..MaxFileSize, fs_read(d, count) PROVE FilesInv'
  BY <1>7, ReadOK
<1>8. ASSUME NEW d \in Fds, NEW count \in 1..MaxFileSize, fs_write(d, count) PROVE FilesInv'
  BY <1>8, WriteOK
<1>9. CASE UNCHANGED vars
  BY <1>9, SameFiles
<1> QED
  BY <1>1, <1>2, <1>3, <1>4, <1>5, <1>6, <1>7, <1>8, <1>9 DEF Call

\* No command of the shell, whatever fails in it, makes two files share a cluster,
\* moves a byte, loses a cluster or miscounts the free ones; the power may fail in
\* touch, write, mkexec, mkbin and the close at the end of each, not in rm.
THEOREM ShellKeepsFiles ==
  ASSUME SafeCuts
  PROVE  ShellSpec => [](/\ TypeOK /\ ChainsSound /\ BytesInPlace /\ CursorOnChain
                         /\ NoClusterLost /\ FreeCountFollows)
<1>1. ShellInit => FilesInv
  BY InitOK DEF ShellInit
<1>2. ShellInv /\ FilesInv /\ [ShellNext]_allVars => FilesInv'
  BY FilesStep
<1>3. ShellSpec => []FilesInv
  BY <1>1, <1>2, ShellHolds, PTL DEF ShellSpec
<1>4. FilesInv => /\ TypeOK /\ ChainsSound /\ BytesInPlace /\ CursorOnChain
                  /\ NoClusterLost /\ FreeCountFollows
  BY TypesFromInv, ChainsFromInv, BytesFromInv, CursorFromInv, ClustersFromInv, CounterFromInv
<1> QED
  BY <1>3, <1>4, PTL
=============================================================================
