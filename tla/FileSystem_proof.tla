-------------------------- MODULE FileSystem_proof --------------------------
(***************************************************************************)
(* Files of filesystem.c, for any disk, cluster and file size, any number  *)
(* of names, directory slots and descriptors and any number of power       *)
(* failures: no two files share a cluster, every byte is where a reader    *)
(* looks for it, every cursor is on its chain, and while the power does    *)
(* not fail no cluster is lost and the counter is right.                   *)
(*                                                                         *)
(* The theorems are about programs that keep to one writer per file and    *)
(* rewrite no file of several clusters (Shell_proof shows that the shell   *)
(* does), and about a power that fails in none of format and delete.       *)
(***************************************************************************)
EXTENDS FileSystem, FiniteSetTheorems, WellFoundedInduction, TLAPS

SafeCuts == Cuts \subseteq {"create", "close", "write", "sync"}
KeepsRules == ~ Overlap /\ LongModes = {} /\ SafeCuts

----------------------------------------------------------------------------
(***************************************************************************)
(* Positions and clusters.                                                 *)
(***************************************************************************)
LEMMA LeastNat ==
  ASSUME NEW T \in SUBSET Nat, T # {}
  PROVE  \E i \in T : \A j \in T : i <= j
<1> DEFINE R == OpToRel(<, Nat)
<1>1. IsWellFoundedOn(R, Nat)
  BY NatLessThanWellFounded
<1>2. \A x, y \in Nat : << x, y >> \in R <=> x < y
  BY DEF OpToRel
<1> HIDE DEF R
<1>3. PICK i \in T : \A j \in T : ~ << j, i >> \in R
  BY <1>1, WFMin
<1>4. i \in Nat /\ \A j \in T : j \in Nat /\ ~ j < i
  BY <1>2, <1>3
<1>5. \A j \in T : i <= j
  BY <1>4
<1> QED
  BY <1>5

LEMMA Sizes ==
  /\ ClusterSize \in Nat /\ ClusterSize > 0
  /\ MaxFileSize \in Nat /\ MaxFileSize > 0
  /\ MaxFiles \in Nat /\ MaxOpen \in Nat
  /\ Clusters \in Nat /\ Clusters > 2
<1>1. \A n \in {MaxFiles, MaxOpen, ClusterSize, MaxFileSize} : n \in Nat /\ n # 0
  BY FileSystemAssumption
<1>2. /\ ClusterSize \in Nat /\ ClusterSize # 0 /\ MaxFileSize \in Nat /\ MaxFileSize # 0
      /\ MaxFiles \in Nat /\ MaxOpen \in Nat
  BY <1>1
<1>3. Clusters \in Nat /\ Clusters > 2
  BY FileSystemAssumption
<1> QED
  BY <1>2, <1>3

\* The place of the i-th byte: in which cluster of the chain, from 0, and where
\* in it.  Need(p): how many clusters hold p bytes.
At(i) == i \div ClusterSize
Off(i) == i % ClusterSize
Need(p) == IF p = 0 THEN 0 ELSE At(p - 1) + 1

LEMMA Division ==
  ASSUME NEW a \in Nat, NEW n \in Nat, n > 0
  PROVE  /\ a \div n \in Nat /\ a % n \in 0..(n - 1)
         /\ a = n * (a \div n) + (a % n)
BY Z3

LEMMA Quotient ==
  ASSUME NEW n \in Nat, n > 0, NEW k \in Nat, NEW b \in 0..(n - 1)
  PROVE  /\ (n * k + b) \div n = k /\ (n * k + b) % n = b
BY Z3

LEMMA Times ==
  ASSUME NEW n \in Nat, n > 0, NEW k \in Nat
  PROVE  n * k \in Nat /\ n * (k + 1) = n * k + n
OBVIOUS

LEMMA TimesOrder ==
  ASSUME NEW n \in Nat, n > 0, NEW j \in Nat, NEW k \in Nat
  PROVE  n * j <= n * k <=> j <= k
BY Z3

LEMMA Place ==
  ASSUME NEW i \in Nat
  PROVE  At(i) \in Nat /\ Off(i) \in Bytes /\ i = ClusterSize * At(i) + Off(i)
BY Division, Sizes DEF At, Off, Bytes

LEMMA PlaceIs ==
  ASSUME NEW i \in Nat, NEW k \in Nat, NEW b \in Bytes, i = ClusterSize * k + b
  PROVE  At(i) = k /\ Off(i) = b
BY Quotient, Sizes DEF At, Off, Bytes

LEMMA NeedIs ==
  ASSUME NEW p \in Nat
  PROVE  /\ Need(p) \in Nat /\ (Need(p) = 0 <=> p = 0)
         /\ p <= ClusterSize * Need(p) /\ ClusterSize * Need(p) < p + ClusterSize
<1>1. CASE p = 0
  BY <1>1, Sizes DEF Need
<1>2. CASE p # 0
  <2>1. p - 1 \in Nat
    BY <1>2
  <2>2. At(p - 1) \in Nat /\ Off(p - 1) \in 0..(ClusterSize - 1)
        /\ p - 1 = ClusterSize * At(p - 1) + Off(p - 1)
    BY <2>1, Place DEF Bytes
  <2>3. PICK k \in Nat, x \in Nat : k = At(p - 1) /\ x = ClusterSize * k
    BY <2>2, Times, Sizes
  <2>4. ClusterSize * (k + 1) = x + ClusterSize
    BY <2>3, Times, Sizes
  <2>5. Need(p) = k + 1
    BY <1>2, <2>3 DEF Need
  <2> QED
    BY <1>2, <2>2, <2>3, <2>4, <2>5, Sizes
<1> QED
  BY <1>1, <1>2

LEMMA NeedFits ==
  ASSUME NEW p \in Nat, NEW k \in Nat
  PROVE  /\ p <= ClusterSize * k <=> Need(p) <= k
         /\ ClusterSize * k < p + ClusterSize <=> k <= Need(p)
<1>1. PICK n \in Nat : n = Need(p)
  BY NeedIs
<1>2. p <= ClusterSize * n /\ ClusterSize * n < p + ClusterSize
  BY <1>1, NeedIs
<1>3. /\ ClusterSize * n <= ClusterSize * k <=> n <= k
      /\ ClusterSize * (k + 1) <= ClusterSize * n <=> k + 1 <= n
      /\ ClusterSize * k <= ClusterSize * n <=> k <= n
      /\ ClusterSize * (n + 1) <= ClusterSize * k <=> n + 1 <= k
  BY TimesOrder, Sizes
<1>4. /\ ClusterSize * (k + 1) = ClusterSize * k + ClusterSize
      /\ ClusterSize * (n + 1) = ClusterSize * n + ClusterSize
      /\ ClusterSize * k \in Nat /\ ClusterSize * n \in Nat
  BY Times, Sizes
<1>5. PICK x \in Nat, y \in Nat : x = ClusterSize * k /\ y = ClusterSize * n
  BY <1>4
<1> QED
  BY <1>1, <1>2, <1>3, <1>4, <1>5, Sizes

LEMMA NeedGrows ==
  ASSUME NEW p \in Nat, NEW r \in Nat, p <= r
  PROVE  Need(p) <= Need(r)
<1>1. Need(r) \in Nat /\ r <= ClusterSize * Need(r)
  BY NeedIs
<1>2. PICK x \in Nat : x = ClusterSize * Need(r)
  BY <1>1, Times, Sizes
<1>3. p <= ClusterSize * Need(r)
  BY <1>1, <1>2
<1> QED
  BY <1>1, <1>3, NeedFits

\* Byte i lies in a cluster that i + 1 bytes need.
LEMMA ByteFits ==
  ASSUME NEW i \in Nat, NEW n \in Nat, i < n
  PROVE  At(i) \in Nat /\ At(i) + 1 <= Need(n) /\ Off(i) \in Bytes
<1>1. i + 1 \in Nat /\ i + 1 # 0 /\ (i + 1) - 1 = i
  OBVIOUS
<1>2. Need(i + 1) = At(i) + 1
  BY <1>1 DEF Need
<1>3. Need(i + 1) <= Need(n)
  BY <1>1, NeedGrows
<1> QED
  BY <1>2, <1>3, Place

\* n more bytes behind position p that stay within p's cluster.
LEMMA NeedAfter ==
  ASSUME NEW p \in Nat, NEW n \in Nat, n > 0, n <= ClusterSize - Off(p)
  PROVE  /\ Need(p + n) = At(p) + 1
         /\ Need(p) = IF Off(p) = 0 THEN At(p) ELSE At(p) + 1
         /\ \A x \in p..(p + n - 1) : At(x) = At(p) /\ Off(x) = Off(p) + (x - p)
<1>1. PICK k \in Nat, b \in 0..(ClusterSize - 1) : k = At(p) /\ b = Off(p)
  BY Place DEF Bytes
<1>2. p = ClusterSize * k + b /\ ClusterSize * k \in Nat
  BY <1>1, Place, Times, Sizes
<1>3. PICK z \in Nat : z = ClusterSize * k
  BY <1>2
<1>4. p = z + b /\ n <= ClusterSize - b
  BY <1>1, <1>2, <1>3
<1>5. \A x \in p..(p + n - 1) : At(x) = k /\ Off(x) = b + (x - p)
  <2> SUFFICES ASSUME NEW x \in p..(p + n - 1) PROVE At(x) = k /\ Off(x) = b + (x - p)
    OBVIOUS
  <2>1. x \in Nat /\ b + (x - p) \in 0..(ClusterSize - 1) /\ x = z + (b + (x - p))
    BY <1>4, Sizes
  <2> QED
    BY <1>3, <2>1, PlaceIs DEF Bytes
<1>6. Need(p + n) = k + 1
  <2>1. p + n # 0 /\ (p + n) - 1 \in p..(p + n - 1)
    OBVIOUS
  <2> QED
    BY <1>5, <2>1 DEF Need
<1>7. Need(p) = IF b = 0 THEN k ELSE k + 1
  <2>1. CASE b # 0
    <3>1. p # 0 /\ p - 1 \in Nat /\ b - 1 \in 0..(ClusterSize - 1) /\ p - 1 = z + (b - 1)
      BY <1>4, <2>1, Sizes
    <3>2. At(p - 1) = k
      BY <1>3, <3>1, PlaceIs DEF Bytes
    <3> QED
      BY <2>1, <3>1, <3>2 DEF Need
  <2>2. CASE b = 0
    <3>1. p = ClusterSize * k
      BY <1>2, <1>3, <2>2
    <3>2. p <= ClusterSize * k /\ ClusterSize * k < p + ClusterSize
      BY <1>2, <3>1, Sizes
    <3>3. Need(p) <= k /\ k <= Need(p) /\ Need(p) \in Nat
      BY <3>2, NeedFits, NeedIs
    <3> QED
      BY <2>2, <3>3
  <2> QED
    BY <2>1, <2>2
<1> QED
  BY <1>1, <1>5, <1>6, <1>7

----------------------------------------------------------------------------
(***************************************************************************)
(* The invariant.  m is what an operation computes with (Mem), Q gives the *)
(* chain of every directory slot's file as a sequence.                     *)
(***************************************************************************)
FdType ==
  [in_use : BOOLEAN, name : Names \cup {NoName}, first : ClusterNos, size : 0..MaxFileSize,
   pos : 0..MaxFileSize, cur : ClusterNos, mode : Modes, modified : BOOLEAN]
EntryType == [name : Names \cup {NoName}, first : ClusterNos, size : 0..MaxFileSize]
Marks == (Names \cup {NoName}) \X (0..MaxFileSize)
DataType == [ClusterNos -> [Bytes -> Marks]]

MemType ==
  [super : SuperType, fat : FatType, dir : DirType, fd : [Fds -> FdType], data : DataType]

\* Clusters a file may have: all but the reserved ones.
UserClusters == 2..(Clusters - 1)
ChainsType == [DirSlots -> Seq(UserClusters)]

\* f leads along q to its end.
Leads(f, q) ==
  \A i \in 1..Len(q) : f[q[i]] = IF i = Len(q) THEN FAT_EOF ELSE q[i + 1]
Linked(f, Q) == \A s \in DirSlots : Leads(f, Q[s])
Apart(Q) ==
  \A s, t \in DirSlots : \A i \in 1..Len(Q[s]), j \in 1..Len(Q[t]) :
    Q[s][i] = Q[t][j] => s = t /\ i = j
ReservedOK(f) == f[0] # FAT_FREE /\ f[1] # FAT_FREE

\* The file has the cluster chain q from first on, and its bytes are there.
Starts(q, first) == first = IF Len(q) = 0 THEN 0 ELSE q[1]
BytesAt(dt, q, name, size) ==
  \A i \in 0..(size - 1) : dt[q[At(i) + 1]][Off(i)] = << name, i >>
Holds(dt, q, name, first, size) ==
  Starts(q, first) /\ Need(size) <= Len(q) /\ BytesAt(dt, q, name, size)

InUse(m, s) == m.dir[s].name # NoName
HasFd(m, d, s) == m.fd[d].in_use /\ m.fd[d].name = m.dir[s].name
Writes(m, d, s) == HasFd(m, d, s) /\ m.fd[d].mode # READ
Unwritten(m, s) == InUse(m, s) /\ \A d \in Fds : ~ Writes(m, d, s)

\* In the middle of fs_write the position may be behind the size.
Extent(f) == IF f.size < f.pos THEN f.pos ELSE f.size

SlotOK(m, q, s) ==
  /\ ~ InUse(m, s) => Len(q) = 0
  /\ Unwritten(m, s) => Holds(m.data, q, m.dir[s].name, m.dir[s].first, m.dir[s].size)
  /\ \A d \in Fds : Writes(m, d, s) =>
       Holds(m.data, q, m.dir[s].name, m.fd[d].first, Extent(m.fd[d]))
SlotsOK(m, Q) == \A s \in DirSlots : SlotOK(m, Q[s], s)

\* A descriptor f of a file with entry e and chain q.  What the directory has
\* of a file that is being written is an earlier state of it.
CursorOK(f, q) ==
  Need(f.pos) <= Len(q) /\ f.cur = IF f.pos = 0 THEN f.first ELSE q[Need(f.pos)]
Agrees(f, e) == f.first = e.first /\ f.size = e.size
Behind(f, e) ==
  /\ f.size <= ClusterSize \/ f.size <= f.pos
  /\ e.first \in {0, f.first} /\ e.size <= f.size /\ (e.first = 0 => e.size = 0)
FdOK(f, e, q) ==
  /\ CursorOK(f, q)
  /\ f.mode = READ => Agrees(f, e)
  /\ f.mode # READ => Behind(f, e)
FdsOK(m, Q) ==
  \A d \in Fds, s \in DirSlots : HasFd(m, d, s) => FdOK(m.fd[d], m.dir[s], Q[s])

\* One slot per name, one writer per name, and a file behind each descriptor.
OneSlot(m) == \A s, t \in DirSlots : InUse(m, s) /\ m.dir[s].name = m.dir[t].name => s = t
OneWriter(m) ==
  \A d, e \in Fds :
    m.fd[d].in_use /\ m.fd[e].in_use /\ m.fd[d].name = m.fd[e].name /\ m.fd[d].mode # READ => d = e
Housed(m) ==
  \A d \in Fds : m.fd[d].in_use =>
    m.fd[d].name # NoName /\ \E s \in DirSlots : m.dir[s].name = m.fd[d].name

Files(m, Q) ==
  /\ m \in MemType /\ Q \in ChainsType
  /\ Apart(Q) /\ Linked(m.fat, Q) /\ ReservedOK(m.fat)
  /\ OneSlot(m) /\ OneWriter(m) /\ Housed(m)
  /\ SlotsOK(m, Q) /\ FdsOK(m, Q)

\* Between two operations.
Settled(f, e) == f.pos <= f.size /\ (~ f.modified => Agrees(f, e))
AtRest(m) ==
  \A d \in Fds, s \in DirSlots : HasFd(m, d, s) => Settled(m.fd[d], m.dir[s])

\* While the power does not fail.
Tight(m, Q) ==
  \A s \in DirSlots :
    /\ Unwritten(m, s) => Len(Q[s]) <= Need(m.dir[s].size)
    /\ \A d \in Fds : Writes(m, d, s) => Len(Q[s]) <= Need(Extent(m.fd[d]))
Kept(f, Q) ==
  \A c \in UserClusters : f[c] # FAT_FREE => \E s \in DirSlots : \E i \in 1..Len(Q[s]) : Q[s][i] = c
Counted(m) == m.super.free = Cardinality(FreeClusters(m.fat)) + 2
Clean(m, Q) == Tight(m, Q) /\ Kept(m.fat, Q) /\ Counted(m)

Durable == disk = [super |-> superblock, fat |-> fat, dir |-> root_dir]

FilesInv ==
  /\ Durable /\ Mem \in MemType /\ failures \in 0..MaxFailures
  /\ ~ Valid => failures = 0 /\ fd_table = Closed
  /\ Valid => \E Q : Files(Mem, Q) /\ AtRest(Mem) /\ (failures = 0 => Clean(Mem, Q))

LEMMA MemIs ==
  /\ Mem.super = superblock /\ Mem.fat = fat /\ Mem.dir = root_dir
  /\ Mem.fd = fd_table /\ Mem.data = data
BY DEF Mem

LEMMA NosFinite == IsFiniteSet(ClusterNos)
<1>1. 0 \in Int /\ Clusters - 1 \in Int
  BY Sizes
<1>2. IsFiniteSet(0..(Clusters - 1))
  BY <1>1, FS_Interval
<1> QED
  BY <1>2 DEF ClusterNos

LEMMA FatValues ==
  /\ UserClusters \subseteq ClusterNos /\ 0 \in ClusterNos /\ 1 \in ClusterNos
  /\ 0 \notin UserClusters /\ 1 \notin UserClusters
  /\ FAT_EOF \notin ClusterNos /\ FAT_EOF \in 0..FAT_EOF /\ ClusterNos \subseteq 0..FAT_EOF
  /\ FAT_EOF # FAT_FREE /\ FAT_FREE \notin UserClusters
BY Sizes DEF UserClusters, ClusterNos, FAT_EOF, FAT_FREE

----------------------------------------------------------------------------
(***************************************************************************)
(* Chains: Link and Chain find what Leads describes.                       *)
(***************************************************************************)
IsLink(at, f, c, k) ==
  at = [i \in 0..k |->
          IF i = 0 THEN c ELSE IF at[i - 1] \in ClusterNos THEN f[at[i - 1]] ELSE FAT_EOF]

Along(q, i) == IF i < Len(q) THEN q[i + 1] ELSE FAT_EOF

LEMMA LinkIs ==
  ASSUME NEW f, NEW q \in Seq(UserClusters), Len(q) # 0, Leads(f, q), NEW k \in Nat
  PROVE  Link(f, q[1], k) = Along(q, k)
<1> DEFINE c == q[1]
           g == [i \in 0..k |-> Along(q, i)]
           h == CHOOSE at : IsLink(at, f, c, k)
<1>1. Len(q) \in Nat /\ \A i \in 1..Len(q) : q[i] \in ClusterNos
  <2>1. Len(q) \in Nat /\ \A i \in 1..Len(q) : q[i] \in UserClusters
    OBVIOUS
  <2> QED
    BY <2>1, FatValues
<1>2. \A i \in 0..k : i # 0 =>
        Along(q, i) = IF Along(q, i - 1) \in ClusterNos THEN f[Along(q, i - 1)] ELSE FAT_EOF
  <2> SUFFICES ASSUME NEW i \in 0..k, i # 0
               PROVE  Along(q, i) = IF Along(q, i - 1) \in ClusterNos
                                    THEN f[Along(q, i - 1)] ELSE FAT_EOF
    OBVIOUS
  <2>1. CASE i - 1 < Len(q)
    <3>1. i \in 1..Len(q) /\ Along(q, i - 1) = q[i]
      BY <1>1, <2>1 DEF Along
    <3>2. f[q[i]] = IF i = Len(q) THEN FAT_EOF ELSE q[i + 1]
      BY <3>1 DEF Leads
    <3> QED
      BY <1>1, <3>1, <3>2 DEF Along
  <2>2. CASE ~ i - 1 < Len(q)
    <3>1. ~ i < Len(q) /\ Along(q, i - 1) = FAT_EOF
      BY <1>1, <2>2 DEF Along
    <3> QED
      BY <3>1, FatValues DEF Along
  <2> QED
    BY <2>1, <2>2
<1>3. Along(q, 0) = c
  BY <1>1 DEF Along
<1>4. IsLink(g, f, c, k)
  <2>1. ASSUME NEW i \in 0..k
        PROVE  g[i] = IF i = 0 THEN c
                      ELSE IF g[i - 1] \in ClusterNos THEN f[g[i - 1]] ELSE FAT_EOF
    <3>1. CASE i = 0
      BY <1>3, <3>1
    <3>2. CASE i # 0
      <4>1. i - 1 \in 0..k
        BY <3>2
      <4> QED
        BY <1>2, <3>2, <4>1
    <3> QED
      BY <3>1, <3>2
  <2> QED
    BY <2>1 DEF IsLink
<1>5. IsLink(h, f, c, k)
  BY <1>4
<1>6. Link(f, c, k) = h[k]
  BY DEF Link, IsLink
<1> DEFINE T == {i \in 0..k : h[i] # Along(q, i)}
<1>7. T = {}
  <2> SUFFICES ASSUME T # {} PROVE FALSE
    OBVIOUS
  <2>1. T \in SUBSET Nat
    OBVIOUS
  <2>2. PICK i \in T : \A j \in T : i <= j
    BY <2>1, LeastNat
  <2>3. h[i] = IF i = 0 THEN c
               ELSE IF h[i - 1] \in ClusterNos THEN f[h[i - 1]] ELSE FAT_EOF
    BY <1>5, <2>2 DEF IsLink
  <2>4. i # 0
    BY <1>3, <2>2, <2>3
  <2>5. i - 1 \in 0..k /\ i - 1 \notin T
    BY <2>2, <2>4
  <2> QED
    BY <1>2, <2>2, <2>3, <2>4, <2>5
<1> QED
  BY <1>6, <1>7

Range1(q) == {q[i] : i \in 1..Len(q)}
Once(q) == \A i, j \in 1..Len(q) : q[i] = q[j] => i = j

\* A sequence without repetition is no longer than what it is drawn from.
LEMMA OnceFits ==
  ASSUME NEW q \in Seq(UserClusters), Once(q)
  PROVE  /\ Len(q) \in Nat /\ Len(q) < Clusters
         /\ IsFiniteSet(Range1(q)) /\ Cardinality(Range1(q)) = Len(q)
<1>1. Len(q) \in Nat
  OBVIOUS
<1>2. IsFiniteSet(1..Len(q)) /\ Cardinality(1..Len(q)) = Len(q)
  <2>1. PICK n \in Nat : n = Len(q)
    BY <1>1
  <2>2. IsFiniteSet(1..n) /\ Cardinality(1..n) = IF 1 > n THEN 0 ELSE n - 1 + 1
    BY FS_Interval
  <2>3. Cardinality(1..n) = n
    BY <2>2
  <2> QED
    BY <2>1, <2>2, <2>3
<1> DEFINE g == [i \in 1..Len(q) |-> q[i]]
<1>3. g \in Bijection(1..Len(q), Range1(q))
  <2>1. g \in [1..Len(q) -> Range1(q)]
    BY DEF Range1
  <2>2. \A i, j \in 1..Len(q) : g[i] = g[j] => i = j
    BY DEF Once
  <2>3. \A c \in Range1(q) : \E i \in 1..Len(q) : g[i] = c
    BY DEF Range1
  <2> HIDE DEF g
  <2>4. g \in Injection(1..Len(q), Range1(q))
    BY <2>1, <2>2 DEF Injection, IsInjective
  <2>5. g \in Surjection(1..Len(q), Range1(q))
    BY <2>1, <2>3 DEF Surjection
  <2> QED
    BY <2>4, <2>5 DEF Bijection
<1>4. ExistsBijection(1..Len(q), Range1(q))
  BY <1>3 DEF ExistsBijection
<1>5. IsFiniteSet(Range1(q)) /\ Cardinality(Range1(q)) = Len(q)
  BY <1>2, <1>4, FS_Bijection
<1>6. IsFiniteSet(UserClusters) /\ Cardinality(UserClusters) < Clusters
  BY FS_Interval, Sizes DEF UserClusters
<1>7. Range1(q) \in SUBSET UserClusters
  BY DEF Range1
<1>8. Cardinality(Range1(q)) <= Cardinality(UserClusters) /\ Cardinality(UserClusters) \in Nat
  BY <1>6, <1>7, FS_Subset, FS_CardinalityType
<1> QED
  BY <1>1, <1>5, <1>6, <1>8, Sizes

LEMMA ChainIs ==
  ASSUME NEW f, NEW q \in Seq(UserClusters), Leads(f, q), Once(q), NEW c, Starts(q, c)
  PROVE  Chain(f, c) = Range1(q)
<1>1. Len(q) \in Nat /\ Len(q) < Clusters /\ \A i \in 1..Len(q) : q[i] \in UserClusters
  BY OnceFits
<1>2. CASE Len(q) = 0
  <2>1. c = 0 /\ Range1(q) = {}
    BY <1>2 DEF Starts, Range1
  <2> QED
    BY <2>1 DEF Chain
<1>3. CASE Len(q) # 0
  <2>1. c = q[1] /\ c \in UserClusters
    BY <1>1, <1>3 DEF Starts
  <2>2. \A k \in ClusterNos : k \in Nat
    BY Sizes DEF ClusterNos
  <2>3. \A k \in ClusterNos : Link(f, c, k) = Along(q, k)
    BY <1>3, <2>1, <2>2, LinkIs
  <2>4. Chain(f, c) = {Link(f, c, k) : k \in ClusterNos} \cap ClusterNos
    BY <2>1, FatValues DEF Chain
  <2>5. ASSUME NEW x \in Chain(f, c) PROVE x \in Range1(q)
    <3>1. PICK k \in ClusterNos : x = Along(q, k) /\ x \in ClusterNos
      BY <2>3, <2>4
    <3>2. k < Len(q)
      BY <3>1, FatValues DEF Along
    <3>3. k + 1 \in 1..Len(q) /\ x = q[k + 1]
      BY <1>1, <2>2, <3>1, <3>2 DEF Along
    <3> QED
      BY <3>3 DEF Range1
  <2>6. ASSUME NEW x \in Range1(q) PROVE x \in Chain(f, c)
    <3>1. PICK i \in 1..Len(q) : x = q[i]
      BY DEF Range1
    <3>2. i - 1 \in ClusterNos /\ Along(q, i - 1) = q[i]
      BY <1>1, Sizes DEF Along, ClusterNos
    <3>3. x \in ClusterNos
      BY <1>1, <3>1, FatValues
    <3> QED
      BY <2>3, <2>4, <3>1, <3>2, <3>3
  <2> QED
    BY <2>5, <2>6
<1> QED
  BY <1>2, <1>3

----------------------------------------------------------------------------
(***************************************************************************)
(* What the invariant says about the properties.                           *)
(***************************************************************************)
LEMMA FilesTypes ==
  ASSUME NEW m, NEW Q, Files(m, Q)
  PROVE  /\ m.fat \in FatType /\ m.dir \in DirType /\ m.fd \in [Fds -> FdType]
         /\ m.data \in DataType /\ m.super \in SuperType
         /\ \A s \in DirSlots :
              /\ m.dir[s] \in EntryType /\ m.dir[s].first \in ClusterNos /\ m.dir[s].size \in Nat
              /\ m.dir[s].size <= MaxFileSize
              /\ Q[s] \in Seq(UserClusters) /\ Len(Q[s]) \in Nat
              /\ \A i \in 1..Len(Q[s]) : Q[s][i] \in UserClusters /\ Q[s][i] \in ClusterNos
              /\ Leads(m.fat, Q[s]) /\ Once(Q[s])
         /\ \A d \in Fds :
              /\ m.fd[d] \in FdType /\ m.fd[d].size \in Nat /\ m.fd[d].pos \in Nat
              /\ m.fd[d].size <= MaxFileSize /\ m.fd[d].pos <= MaxFileSize
              /\ Extent(m.fd[d]) \in Nat
<1>1. /\ m.fat \in FatType /\ m.dir \in DirType /\ m.fd \in [Fds -> FdType]
      /\ m.data \in DataType /\ m.super \in SuperType
  BY DEF Files, MemType
<1>2. ASSUME NEW s \in DirSlots
      PROVE  /\ m.dir[s] \in EntryType /\ m.dir[s].first \in ClusterNos
             /\ m.dir[s].size \in Nat /\ m.dir[s].size <= MaxFileSize
  BY <1>1, Sizes DEF DirType, EntryType
<1>3. ASSUME NEW s \in DirSlots
      PROVE  /\ Q[s] \in Seq(UserClusters) /\ Len(Q[s]) \in Nat
             /\ \A i \in 1..Len(Q[s]) : Q[s][i] \in UserClusters /\ Q[s][i] \in ClusterNos
             /\ Leads(m.fat, Q[s]) /\ Once(Q[s])
  <2>1. Q[s] \in Seq(UserClusters)
    BY DEF Files, ChainsType
  <2>2. Len(Q[s]) \in Nat /\ \A i \in 1..Len(Q[s]) : Q[s][i] \in UserClusters
    BY <2>1
  <2>3. Leads(m.fat, Q[s])
    BY DEF Files, Linked
  <2>4. Once(Q[s])
    BY DEF Files, Apart, Once
  <2> QED
    BY <2>1, <2>2, <2>3, <2>4, FatValues
<1>4. ASSUME NEW d \in Fds
      PROVE  /\ m.fd[d] \in FdType /\ m.fd[d].size \in Nat /\ m.fd[d].pos \in Nat
             /\ m.fd[d].size <= MaxFileSize /\ m.fd[d].pos <= MaxFileSize
             /\ Extent(m.fd[d]) \in Nat
  <2>1. m.fd[d] \in FdType
    BY <1>1
  <2>2. m.fd[d].size \in 0..MaxFileSize /\ m.fd[d].pos \in 0..MaxFileSize
    BY <2>1 DEF FdType
  <2> QED
    BY <2>1, <2>2, Sizes DEF Extent
<1> QED
  BY <1>1, <1>2, <1>3, <1>4

\* A file as its writer sees it.
LEMMA EntryIs ==
  ASSUME NEW Q, Files(Mem, Q), AtRest(Mem), NEW s \in Used
  PROVE  /\ s \in DirSlots /\ Entry(s).name = root_dir[s].name /\ Entry(s).size \in Nat
         /\ Holds(data, Q[s], root_dir[s].name, Entry(s).first, Entry(s).size)
<1> DEFINE W == WritingFds(root_dir[s].name)
<1>1. s \in DirSlots /\ InUse(Mem, s) /\ SlotOK(Mem, Q[s], s)
  BY MemIs DEF Used, InUse, Files, SlotsOK
<1>2. \A d \in Fds : d \in W <=> Writes(Mem, d, s)
  BY MemIs DEF WritingFds, OpenFds, Writes, HasFd
<1>3. W \subseteq Fds
  BY DEF WritingFds, OpenFds
<1>4. CASE W = {}
  <2>1. Entry(s) = root_dir[s]
    BY <1>4 DEF Entry
  <2>2. Unwritten(Mem, s)
    BY <1>1, <1>2, <1>4 DEF Unwritten
  <2> QED
    BY <1>1, <2>1, <2>2, MemIs, FilesTypes DEF SlotOK
<1>5. CASE W # {}
  <2>1. PICK d \in Fds : d \in W
    BY <1>3, <1>5
  <2>2. \A e \in W : e = d
    BY <2>1, <1>3, MemIs DEF Files, OneWriter, WritingFds, OpenFds
  <2>3. Least(W) = d
    <3>1. d \in Nat
      BY <2>1, Sizes DEF Fds
    <3>2. \E i \in W : \A j \in W : i <= j
      BY <2>1, <2>2, <3>1
    <3>3. Least(W) \in W
      BY <3>2 DEF Least
    <3> QED
      BY <2>2, <3>3
  <2>4. Entry(s) = [name |-> fd_table[d].name, first |-> fd_table[d].first,
                    size |-> fd_table[d].size]
    BY <1>5, <2>3 DEF Entry
  <2>5. Writes(Mem, d, s) /\ HasFd(Mem, d, s)
    BY <1>2, <2>1 DEF Writes
  <2>6. fd_table[d].name = root_dir[s].name /\ fd_table[d].size \in Nat
    BY <2>1, <2>5, MemIs, FilesTypes DEF HasFd
  <2>7. Extent(fd_table[d]) = fd_table[d].size
    <3>1. fd_table[d].pos <= fd_table[d].size
      BY <1>1, <2>5, MemIs DEF AtRest, Settled
    <3>2. fd_table[d].pos \in Nat
      BY <2>1, MemIs, FilesTypes
    <3> QED
      BY <2>6, <3>1, <3>2 DEF Extent
  <2>8. Holds(data, Q[s], root_dir[s].name, fd_table[d].first, fd_table[d].size)
    BY <1>1, <2>5, <2>7, MemIs DEF SlotOK
  <2> QED
    BY <1>1, <2>4, <2>6, <2>8
<1> QED
  BY <1>4, <1>5

LEMMA ClustersAre ==
  ASSUME NEW Q, Files(Mem, Q), AtRest(Mem), NEW s \in Used
  PROVE  ClustersOf(s) = Range1(Q[s])
<1>1. Starts(Q[s], Entry(s).first) /\ s \in DirSlots
  BY EntryIs DEF Holds
<1>2. Q[s] \in Seq(UserClusters) /\ Leads(fat, Q[s]) /\ Once(Q[s])
  BY <1>1, MemIs, FilesTypes
<1> QED
  BY <1>1, <1>2, ChainIs DEF ClustersOf

LEMMA ChainsFollow ==
  ASSUME NEW Q, Files(Mem, Q), AtRest(Mem) PROVE ChainsSound
<1>1. ASSUME NEW s \in Used
      PROVE  /\ ClustersOf(s) \subseteq 2..(Clusters - 1)
             /\ \A c \in ClustersOf(s) : fat[c] # FAT_FREE
             /\ Entry(s).size <= ClusterSize * Cardinality(ClustersOf(s))
  <2>1. ClustersOf(s) = Range1(Q[s]) /\ s \in DirSlots /\ Entry(s).size \in Nat
    BY ClustersAre, EntryIs
  <2>2. /\ Q[s] \in Seq(UserClusters) /\ Len(Q[s]) \in Nat
        /\ \A i \in 1..Len(Q[s]) : Q[s][i] \in UserClusters
        /\ Leads(fat, Q[s]) /\ Once(Q[s])
    BY <2>1, MemIs, FilesTypes
  <2>3. ASSUME NEW i \in 1..Len(Q[s]) PROVE fat[Q[s][i]] # FAT_FREE
    <3>1. fat[Q[s][i]] = IF i = Len(Q[s]) THEN FAT_EOF ELSE Q[s][i + 1]
      BY <2>2 DEF Leads
    <3>2. i # Len(Q[s]) => Q[s][i + 1] \in UserClusters
      <4>1. i # Len(Q[s]) => i + 1 \in 1..Len(Q[s])
        BY <2>2
      <4> QED
        BY <2>2, <4>1
    <3> QED
      BY <3>1, <3>2, FatValues
  <2>4. Cardinality(Range1(Q[s])) = Len(Q[s])
    BY <2>2, OnceFits
  <2>5. Need(Entry(s).size) <= Len(Q[s])
    BY EntryIs DEF Holds
  <2>6. Entry(s).size <= ClusterSize * Len(Q[s])
    BY <2>1, <2>2, <2>5, NeedFits
  <2> QED
    BY <2>1, <2>2, <2>3, <2>4, <2>6 DEF Range1, UserClusters
<1>2. ASSUME NEW s \in Used, NEW t \in Used, s # t
      PROVE  ClustersOf(s) \cap ClustersOf(t) = {}
  <2>1. /\ ClustersOf(s) = Range1(Q[s]) /\ ClustersOf(t) = Range1(Q[t])
        /\ s \in DirSlots /\ t \in DirSlots
    BY ClustersAre, EntryIs
  <2>2. \A i \in 1..Len(Q[s]), j \in 1..Len(Q[t]) : Q[s][i] # Q[t][j]
    BY <1>2, <2>1 DEF Files, Apart
  <2> QED
    BY <2>1, <2>2 DEF Range1
<1> QED
  BY <1>1, <1>2 DEF ChainsSound

\* The place of byte i of a file with the chain q.
LEMMA ByteIs ==
  ASSUME NEW f, NEW q \in Seq(UserClusters), Leads(f, q), NEW c, Starts(q, c),
         NEW i \in Nat, At(i) + 1 <= Len(q)
  PROVE  Link(f, c, At(i)) = q[At(i) + 1] /\ Link(f, c, At(i)) \in ClusterNos
<1>1. At(i) \in Nat /\ Len(q) \in Nat
  BY Place
<1>2. Len(q) # 0 /\ c = q[1]
  BY <1>1 DEF Starts
<1>3. Link(f, q[1], At(i)) = Along(q, At(i))
  BY <1>1, <1>2, LinkIs
<1>4. Along(q, At(i)) = q[At(i) + 1]
  BY <1>1 DEF Along
<1>5. q[At(i) + 1] \in UserClusters
  <2>1. At(i) + 1 \in 1..Len(q)
    BY <1>1
  <2> QED
    BY <2>1
<1> QED
  BY <1>2, <1>3, <1>4, <1>5, FatValues

LEMMA BytesFollow ==
  ASSUME NEW Q, Files(Mem, Q), AtRest(Mem) PROVE BytesInPlace
<1> SUFFICES ASSUME NEW s \in Used, NEW i \in 0..(Entry(s).size - 1)
             PROVE  LET c == Link(fat, Entry(s).first, i \div ClusterSize)
                    IN  c \in ClusterNos /\ data[c][i % ClusterSize] = << Entry(s).name, i >>
  BY DEF BytesInPlace
<1>1. /\ s \in DirSlots /\ Entry(s).name = root_dir[s].name /\ Entry(s).size \in Nat
      /\ Holds(data, Q[s], root_dir[s].name, Entry(s).first, Entry(s).size)
  BY EntryIs
<1>2. i \in Nat /\ i < Entry(s).size
  BY <1>1
<1>3. At(i) + 1 <= Len(Q[s])
  <2>1. At(i) \in Nat /\ At(i) + 1 <= Need(Entry(s).size) /\ Need(Entry(s).size) \in Nat
    BY <1>1, <1>2, ByteFits, NeedIs
  <2>2. Len(Q[s]) \in Nat
    BY <1>1, FilesTypes
  <2> QED
    BY <1>1, <2>1, <2>2 DEF Holds
<1>4. Q[s] \in Seq(UserClusters) /\ Leads(fat, Q[s])
  BY <1>1, MemIs, FilesTypes
<1>5. /\ Link(fat, Entry(s).first, At(i)) = Q[s][At(i) + 1]
      /\ Link(fat, Entry(s).first, At(i)) \in ClusterNos
  BY <1>1, <1>2, <1>3, <1>4, ByteIs DEF Holds
<1>6. data[Q[s][At(i) + 1]][Off(i)] = << root_dir[s].name, i >>
  BY <1>1 DEF Holds, BytesAt
<1> QED
  BY <1>1, <1>5, <1>6 DEF At, Off

\* The descriptor of a reader or a writer starts where the file's chain does.
LEMMA FdStarts ==
  ASSUME NEW m, NEW Q, Files(m, Q), NEW d \in Fds, NEW s \in DirSlots, HasFd(m, d, s)
  PROVE  Starts(Q[s], m.fd[d].first) /\ InUse(m, s)
<1>1. InUse(m, s)
  BY DEF HasFd, Files, Housed, InUse
<1>2. CASE m.fd[d].mode = READ
  <2>1. \A e \in Fds : ~ Writes(m, e, s)
    BY <1>2 DEF Files, OneWriter, Writes, HasFd
  <2>2. Starts(Q[s], m.dir[s].first)
    BY <1>1, <2>1 DEF Files, SlotsOK, SlotOK, Unwritten, Holds
  <2> QED
    BY <1>1, <1>2, <2>2 DEF Files, FdsOK, FdOK, Agrees
<1>3. CASE m.fd[d].mode # READ
  BY <1>1, <1>3 DEF Files, SlotsOK, SlotOK, Writes, Holds
<1> QED
  BY <1>2, <1>3

LEMMA CursorFollows ==
  ASSUME NEW Q, Files(Mem, Q) PROVE CursorOnChain
<1> SUFFICES ASSUME NEW d \in Fds, fd_table[d].in_use
             PROVE  fd_table[d].cur = IF fd_table[d].pos = 0 THEN fd_table[d].first
                                      ELSE Link(fat, fd_table[d].first,
                                                (fd_table[d].pos - 1) \div ClusterSize)
  BY DEF CursorOnChain
<1>1. PICK s \in DirSlots : root_dir[s].name = fd_table[d].name
  BY MemIs DEF Files, Housed
<1>2. HasFd(Mem, d, s)
  BY <1>1, MemIs DEF HasFd
<1> DEFINE f == fd_table[d]
           q == Q[s]
<1>3. Starts(q, f.first) /\ CursorOK(f, q) /\ f.pos \in Nat
  BY <1>2, MemIs, FdStarts, FilesTypes DEF Files, FdsOK, FdOK
<1>4. q \in Seq(UserClusters) /\ Leads(fat, q)
  BY MemIs, FilesTypes
<1> HIDE DEF f, q
<1>5. CASE f.pos # 0
  <2>1. f.pos - 1 \in Nat /\ Need(f.pos) = At(f.pos - 1) + 1
    BY <1>3, <1>5 DEF Need
  <2>2. f.cur = q[At(f.pos - 1) + 1] /\ At(f.pos - 1) + 1 <= Len(q)
    BY <1>3, <1>5, <2>1 DEF CursorOK
  <2>3. Link(fat, f.first, At(f.pos - 1)) = q[At(f.pos - 1) + 1]
    BY <1>3, <1>4, <2>1, <2>2, ByteIs
  <2> QED
    BY <1>5, <2>2, <2>3 DEF At, f
<1>6. CASE f.pos = 0
  BY <1>3, <1>6 DEF CursorOK, f
<1> QED
  BY <1>5, <1>6

LEMMA LostFollows ==
  ASSUME NEW Q, Files(Mem, Q), AtRest(Mem), Kept(fat, Q) PROVE NoClusterLost
<1> SUFFICES ASSUME NEW c \in ClusterNos, fat[c] # FAT_FREE, c \notin {0, 1}
             PROVE  \E s \in Used : c \in ClustersOf(s)
  BY DEF NoClusterLost
<1>1. c \in UserClusters
  BY Sizes DEF ClusterNos, UserClusters
<1>2. PICK s \in DirSlots : \E i \in 1..Len(Q[s]) : Q[s][i] = c
  BY <1>1 DEF Kept
<1>3. s \in Used
  <2>1. Len(Q[s]) # 0
    BY <1>2, FilesTypes
  <2> QED
    BY <2>1, MemIs DEF Files, SlotsOK, SlotOK, InUse, Used
<1> QED
  BY <1>2, <1>3, ClustersAre DEF Range1

----------------------------------------------------------------------------
(***************************************************************************)
(* The end of an operation, and the boot after a power failure.            *)
(***************************************************************************)
\* What the next boot finds: dr and ft on the disk, dt in the clusters.
FileOnDisk(dt, q, e) ==
  IF e.name = NoName THEN Len(q) = 0 ELSE Holds(dt, q, e.name, e.first, e.size)
OneEntry(dr) ==
  \A s, t \in DirSlots : dr[s].name # NoName /\ dr[s].name = dr[t].name => s = t
FilesOnDisk(ft, dr, dt, Q) ==
  /\ ft \in FatType /\ dr \in DirType /\ dt \in DataType /\ Q \in ChainsType
  /\ Apart(Q) /\ Linked(ft, Q) /\ ReservedOK(ft) /\ OneEntry(dr)
  /\ \A s \in DirSlots : FileOnDisk(dt, Q[s], dr[s])

\* A file whose first cluster the directory does not know yet is empty there.
Forgotten(dr, Q) == [s \in DirSlots |-> IF dr[s].first = 0 THEN << >> ELSE Q[s]]

LEMMA HoldsLess ==
  ASSUME NEW dt, NEW q, NEW name, NEW first, NEW size \in Nat, NEW less \in Nat,
         Len(q) \in Nat, Holds(dt, q, name, first, size), less <= size
  PROVE  Holds(dt, q, name, first, less)
<1>1. Need(less) <= Len(q)
  <2>1. Need(less) <= Need(size) /\ Need(less) \in Nat /\ Need(size) \in Nat
    BY NeedGrows, NeedIs
  <2> QED
    BY <2>1 DEF Holds
<1>2. BytesAt(dt, q, name, less)
  <2>1. \A i \in 0..(less - 1) : i \in 0..(size - 1)
    OBVIOUS
  <2> QED
    BY <2>1 DEF Holds, BytesAt
<1> QED
  BY <1>1, <1>2 DEF Holds

LEMMA ForgetOK ==
  ASSUME NEW m, NEW Q, Files(m, Q)
  PROVE  FilesOnDisk(m.fat, m.dir, m.data, Forgotten(m.dir, Q))
<1> DEFINE P == Forgotten(m.dir, Q)
<1>1. \A s \in DirSlots : P[s] = IF m.dir[s].first = 0 THEN << >> ELSE Q[s]
  BY DEF Forgotten
<1>2. P \in ChainsType
  <2>1. ASSUME NEW s \in DirSlots PROVE P[s] \in Seq(UserClusters)
    <3>1. << >> \in Seq(UserClusters)
      OBVIOUS
    <3>2. Q[s] \in Seq(UserClusters)
      BY FilesTypes
    <3>3. P[s] = << >> \/ P[s] = Q[s]
      BY <1>1
    <3> HIDE DEF P
    <3> QED
      BY <3>1, <3>2, <3>3
  <2> QED
    BY <2>1 DEF ChainsType, Forgotten
<1> HIDE DEF P
<1>3. \A s \in DirSlots : \A i \in 1..Len(P[s]) : P[s] = Q[s]
  BY <1>1
<1>4. Apart(P)
  BY <1>3 DEF Files, Apart
<1>5. Linked(m.fat, P)
  BY <1>3 DEF Files, Linked, Leads
<1>6. ASSUME NEW s \in DirSlots
      PROVE  FileOnDisk(m.data, P[s], m.dir[s])
  <2>1. /\ Len(Q[s]) \in Nat /\ m.dir[s].size \in Nat
        /\ Len(Q[s]) # 0 => Q[s][1] \in UserClusters
    BY FilesTypes
  <2>2. SlotOK(m, Q[s], s)
    BY DEF Files, SlotsOK
  <2>3. CASE ~ InUse(m, s)
    <3>1. Len(Q[s]) = 0 /\ Len(P[s]) = 0
      BY <1>1, <2>2, <2>3 DEF SlotOK
    <3> QED
      BY <2>3, <3>1 DEF FileOnDisk, InUse
  <2>4. ASSUME NEW first, NEW size \in Nat, m.dir[s].size <= size, InUse(m, s),
               Holds(m.data, Q[s], m.dir[s].name, first, size),
               m.dir[s].first \in {0, first}, m.dir[s].first = 0 => m.dir[s].size = 0
        PROVE  FileOnDisk(m.data, P[s], m.dir[s])
    <3>1. Holds(m.data, Q[s], m.dir[s].name, first, m.dir[s].size)
      BY <2>1, <2>4, HoldsLess
    <3>2. CASE m.dir[s].first = 0
      <4>1. Len(P[s]) = 0 /\ Need(m.dir[s].size) = 0 /\ m.dir[s].size = 0
        BY <1>1, <2>4, <3>2 DEF Need
      <4>2. Holds(m.data, P[s], m.dir[s].name, m.dir[s].first, m.dir[s].size)
        BY <3>2, <4>1 DEF Holds, Starts, BytesAt
      <4> QED
        BY <2>4, <4>2 DEF FileOnDisk, InUse
    <3>3. CASE m.dir[s].first # 0
      BY <1>1, <2>4, <3>1, <3>3 DEF FileOnDisk, InUse
    <3> QED
      BY <3>2, <3>3
  <2>5. CASE Unwritten(m, s)
    <3>1. Holds(m.data, Q[s], m.dir[s].name, m.dir[s].first, m.dir[s].size) /\ InUse(m, s)
      BY <2>2, <2>5 DEF SlotOK, Unwritten
    <3>2. m.dir[s].first = 0 => m.dir[s].size = 0
      <4>1. m.dir[s].first = 0 => Len(Q[s]) = 0
        BY <2>1, <3>1, FatValues DEF Holds, Starts
      <4>2. Need(m.dir[s].size) <= Len(Q[s]) /\ Need(m.dir[s].size) \in Nat
            /\ (Need(m.dir[s].size) = 0 <=> m.dir[s].size = 0)
        BY <2>1, <3>1, NeedIs DEF Holds
      <4> QED
        BY <4>1, <4>2
    <3> QED
      BY <2>1, <2>4, <3>1, <3>2
  <2>6. CASE InUse(m, s) /\ ~ Unwritten(m, s)
    <3>1. PICK d \in Fds : Writes(m, d, s)
      BY <2>6 DEF Unwritten
    <3>2. Holds(m.data, Q[s], m.dir[s].name, m.fd[d].first, Extent(m.fd[d]))
      BY <2>2, <3>1 DEF SlotOK
    <3>3. Behind(m.fd[d], m.dir[s])
      BY <3>1 DEF Files, FdsOK, FdOK, Writes
    <3>4. Extent(m.fd[d]) \in Nat /\ m.dir[s].size <= Extent(m.fd[d])
      <4>1. m.fd[d].size \in Nat /\ m.fd[d].pos \in Nat
        BY FilesTypes
      <4> QED
        BY <2>1, <3>3, <4>1 DEF Behind, Extent
    <3> QED
      BY <2>4, <2>6, <3>2, <3>3, <3>4 DEF Behind
  <2> QED
    BY <2>3, <2>5, <2>6 DEF Unwritten
<1>7. OneEntry(m.dir)
  BY DEF Files, OneSlot, InUse, OneEntry
<1> QED
  BY <1>2, <1>4, <1>5, <1>6, <1>7 DEF FilesOnDisk, Files, MemType, P

\* The boot opens no file.  Only clusters that are free have lost their data.
LEMMA BootOK ==
  ASSUME NEW b \in MemType, NEW dt, NEW Q, FilesOnDisk(b.fat, b.dir, dt, Q), b.fd = Closed,
         b.data = [c \in ClusterNos |-> IF b.fat[c] = FAT_FREE THEN Blank ELSE dt[c]]
  PROVE  Files(b, Q) /\ AtRest(b)
<1>1. \A d \in Fds : ~ b.fd[d].in_use
  BY DEF Closed, ClosedFd
<1>2. \A s \in DirSlots : Q[s] \in Seq(UserClusters)
  BY DEF FilesOnDisk, ChainsType
<1>3. ASSUME NEW s \in DirSlots, NEW i \in 1..Len(Q[s])
      PROVE  b.data[Q[s][i]] = dt[Q[s][i]]
  <2>1. Q[s][i] \in UserClusters /\ Len(Q[s]) \in Nat
    BY <1>2
  <2>2. b.fat[Q[s][i]] = IF i = Len(Q[s]) THEN FAT_EOF ELSE Q[s][i + 1]
    BY DEF FilesOnDisk, Linked, Leads
  <2>3. i # Len(Q[s]) => Q[s][i + 1] \in UserClusters
    <3>1. i # Len(Q[s]) => i + 1 \in 1..Len(Q[s])
      BY <2>1
    <3> QED
      BY <1>2, <3>1
  <2>4. Q[s][i] \in ClusterNos /\ b.fat[Q[s][i]] # FAT_FREE
    BY <2>1, <2>2, <2>3, FatValues
  <2> QED
    BY <2>4
<1>4. ASSUME NEW s \in DirSlots PROVE SlotOK(b, Q[s], s)
  <2>1. FileOnDisk(dt, Q[s], b.dir[s])
    BY DEF FilesOnDisk
  <2>2. b.dir[s].size \in Nat /\ Len(Q[s]) \in Nat
    <3>1. b.dir[s].size \in 0..MaxFileSize
      BY DEF FilesOnDisk, DirType
    <3> QED
      BY <1>2, <3>1, Sizes
  <2>3. CASE InUse(b, s)
    <3>1. Holds(dt, Q[s], b.dir[s].name, b.dir[s].first, b.dir[s].size)
      BY <2>1, <2>3 DEF FileOnDisk, InUse
    <3>2. BytesAt(b.data, Q[s], b.dir[s].name, b.dir[s].size)
      <4> SUFFICES ASSUME NEW i \in 0..(b.dir[s].size - 1)
                   PROVE  b.data[Q[s][At(i) + 1]][Off(i)] = << b.dir[s].name, i >>
        BY DEF BytesAt
      <4>1. i \in Nat /\ i < b.dir[s].size
        BY <2>2
      <4>2. At(i) + 1 \in 1..Len(Q[s])
        <5>1. At(i) \in Nat /\ At(i) + 1 <= Need(b.dir[s].size) /\ Need(b.dir[s].size) \in Nat
          BY <2>2, <4>1, ByteFits, NeedIs
        <5>2. Need(b.dir[s].size) <= Len(Q[s])
          BY <3>1 DEF Holds
        <5> QED
          BY <2>2, <5>1, <5>2
      <4>3. dt[Q[s][At(i) + 1]][Off(i)] = << b.dir[s].name, i >>
        BY <3>1 DEF Holds, BytesAt
      <4> QED
        BY <1>3, <4>2, <4>3
    <3> QED
      BY <1>1, <2>3, <3>1, <3>2 DEF SlotOK, Holds, Writes, HasFd
  <2>4. CASE ~ InUse(b, s)
    BY <1>1, <2>1, <2>4 DEF SlotOK, FileOnDisk, InUse, Unwritten, Writes, HasFd
  <2> QED
    BY <2>3, <2>4
<1>5. OneSlot(b) /\ OneWriter(b) /\ Housed(b) /\ SlotsOK(b, Q) /\ FdsOK(b, Q)
  BY <1>1, <1>4 DEF FilesOnDisk, OneEntry, OneSlot, InUse, OneWriter, Housed, SlotsOK, FdsOK, HasFd
<1> QED
  BY <1>1, <1>5 DEF Files, FilesOnDisk, AtRest, HasFd

\* Whatever has reached the disk when the power fails, the boot finds files.
CrashSafe(m) ==
  \A ft \in {fat, m.fat}, dr \in {root_dir, m.dir} : \E Q : FilesOnDisk(ft, dr, m.data, Q)
Got(ws, x) == \E i \in 1..Len(ws) : ws[i] = x
\* All that an operation has changed is written.
Complete(m, ws) ==
  /\ m.super = superblock \/ Got(ws, "super")
  /\ m.fat = fat \/ Got(ws, "fat")
  /\ m.dir = root_dir \/ Got(ws, "dir")
Sound(m) ==
  /\ m \in MemType /\ m.super.valid
  /\ \E Q : Files(m, Q) /\ AtRest(m) /\ (failures = 0 => Clean(m, Q))

LEMMA WrittenIs ==
  ASSUME Durable, NEW m, NEW ws
  PROVE  LET w == Written(m, ws)
         IN  /\ w = [super |-> w.super, fat |-> w.fat, dir |-> w.dir]
             /\ w.super = (IF Got(ws, "super") THEN m.super ELSE superblock)
             /\ w.fat = (IF Got(ws, "fat") THEN m.fat ELSE fat)
             /\ w.dir = (IF Got(ws, "dir") THEN m.dir ELSE root_dir)
BY DEF Durable, Written, Got

LEMMA FinishOK ==
  ASSUME FilesInv, NEW m, NEW op, NEW ws, Finish(op, m, ws), Sound(m), Complete(m, ws),
         op \in Cuts => Valid /\ CrashSafe(m)
  PROVE  FilesInv'
<1>1. Durable /\ failures \in 0..MaxFailures /\ Mem \in MemType
  BY DEF FilesInv
<1>2. CASE Become(m) /\ data' = m.data /\ disk' = Written(m, ws) /\ UNCHANGED failures
  <2>1. m = [super |-> m.super, fat |-> m.fat, dir |-> m.dir, fd |-> m.fd, data |-> m.data]
    BY DEF Sound, MemType
  <2>2. Mem' = m
    BY <1>2, <2>1 DEF Become, Mem
  <2>3. Durable'
    BY <1>1, <1>2, WrittenIs DEF Durable, Become, Complete
  <2>4. PICK Q : Files(m, Q) /\ AtRest(m) /\ (failures = 0 => Clean(m, Q))
    BY DEF Sound
  <2>5. Valid' /\ failures' = failures /\ m \in MemType
    BY <1>2 DEF Sound, Become, Valid
  <2>6. \E P : Files(Mem', P) /\ AtRest(Mem') /\ (failures' = 0 => Clean(Mem', P))
    BY <2>2, <2>4, <2>5
  <2> QED
    BY <1>1, <2>2, <2>3, <2>5, <2>6 DEF FilesInv
<1>3. ASSUME op \in Cuts, failures < MaxFailures, failures' = failures + 1, NEW k \in 0..Len(ws),
             disk' = Written(m, SubSeq(ws, 1, k)), Become(Mounted(disk')),
             data' = [c \in ClusterNos |->
                        IF disk'.fat[c] = FAT_FREE THEN Blank ELSE m.data[c]]
      PROVE  FilesInv'
  <2>1. PICK w : w = Written(m, SubSeq(ws, 1, k))
    OBVIOUS
  <2>2. /\ w = [super |-> w.super, fat |-> w.fat, dir |-> w.dir]
        /\ w.super \in {superblock, m.super} /\ w.fat \in {fat, m.fat}
        /\ w.dir \in {root_dir, m.dir}
    BY <1>1, <2>1, WrittenIs
  <2>3. disk' = w
    BY <1>3, <2>1
  <2>4. /\ superblock' = w.super /\ fat' = w.fat /\ root_dir' = w.dir /\ fd_table' = Closed
        /\ data' = [c \in ClusterNos |-> IF w.fat[c] = FAT_FREE THEN Blank ELSE m.data[c]]
    BY <1>3, <2>3 DEF Become, Mounted
  <2>5. PICK b : b = Mem'
    OBVIOUS
  <2>6. /\ b = [super |-> w.super, fat |-> w.fat, dir |-> w.dir, fd |-> Closed,
                data |-> [c \in ClusterNos |-> IF w.fat[c] = FAT_FREE THEN Blank ELSE m.data[c]]]
    BY <2>4, <2>5 DEF Mem
  <2>7. Durable'
    BY <2>2, <2>3, <2>4 DEF Durable
  <2>8. PICK Q : FilesOnDisk(w.fat, w.dir, m.data, Q)
    BY <1>3, <2>2 DEF CrashSafe
  <2>9. b \in MemType
    <3>1. w.super \in SuperType /\ w.fat \in FatType /\ w.dir \in DirType
      BY <1>1, <2>2, <2>8, MemIs DEF Sound, MemType, FilesOnDisk
    <3>2. Closed \in [Fds -> FdType]
      <4>1. ClosedFd \in FdType
        BY Sizes DEF ClosedFd, FdType, ClusterNos, Modes, READ
      <4> QED
        BY <4>1 DEF Closed
    <3>3. b.data \in DataType
      <4>1. m.data \in DataType /\ Blank \in [Bytes -> Marks]
        BY Sizes DEF Sound, MemType, Blank, Marks
      <4> QED
        BY <2>6, <4>1 DEF DataType
    <3>4. b = [super |-> w.super, fat |-> w.fat, dir |-> w.dir, fd |-> Closed, data |-> b.data]
      BY <2>6
    <3> HIDE <2>6
    <3> QED
      BY <3>1, <3>2, <3>3, <3>4 DEF MemType
  <2>10. Files(b, Q) /\ AtRest(b)
    BY <2>6, <2>8, <2>9, BootOK
  <2>11. failures' \in 0..MaxFailures /\ failures' # 0 /\ Valid'
    <3>1. w.super.valid
      BY <1>3, <2>2 DEF Sound, Valid
    <3>2. failures \in Nat /\ failures' \in 0..MaxFailures
      BY <1>1, <1>3, FileSystemAssumption
    <3> QED
      BY <1>3, <2>4, <3>1, <3>2 DEF Valid
  <2>12. \E P : Files(Mem', P) /\ AtRest(Mem') /\ (failures' = 0 => Clean(Mem', P))
    BY <2>5, <2>10, <2>11
  <2> QED
    BY <2>5, <2>7, <2>9, <2>11, <2>12 DEF FilesInv
<1> QED
  BY <1>2, <1>3 DEF Finish

----------------------------------------------------------------------------
(***************************************************************************)
(* The operations that keep every chain: sync, format, create, open, close.*)
(***************************************************************************)
LEMMA LeastIs ==
  ASSUME NEW S \in SUBSET Nat, S # {}
  PROVE  Least(S) \in S
<1>1. \E i \in S : \A j \in S : i <= j
  BY LeastNat
<1> QED
  BY <1>1 DEF Least

LEMMA SlotsAre ==
  /\ DirSlots \in SUBSET Nat /\ Fds \in SUBSET Nat /\ ClusterNos \in SUBSET Nat
BY Sizes DEF DirSlots, Fds, ClusterNos

LEMMA ClosedIs ==
  /\ ClosedFd \in FdType /\ ~ ClosedFd.in_use /\ Closed \in [Fds -> FdType]
  /\ \A d \in Fds : ~ Closed[d].in_use
<1>1. ClosedFd \in FdType
  BY Sizes DEF ClosedFd, FdType, ClusterNos, Modes, READ
<1> QED
  BY <1>1 DEF Closed, ClosedFd

LEMMA InvIs ==
  ASSUME FilesInv, Valid
  PROVE  \E Q : Files(Mem, Q) /\ AtRest(Mem) /\ (failures = 0 => Clean(Mem, Q))
BY DEF FilesInv

LEMMA SyncOK ==
  ASSUME FilesInv, fs_sync PROVE FilesInv'
<1> DEFINE ws == << "super", "fat", "dir" >>
<1>1. Valid /\ Finish("sync", Mem, ws)
  BY DEF fs_sync
<1>2. PICK Q : Files(Mem, Q) /\ AtRest(Mem) /\ (failures = 0 => Clean(Mem, Q))
  BY <1>1, InvIs
<1>3. Sound(Mem)
  BY <1>1, <1>2, MemIs DEF Sound, FilesInv, Valid
<1>4. Complete(Mem, ws)
  BY MemIs DEF Complete
<1>5. CrashSafe(Mem)
  <2>1. FilesOnDisk(fat, root_dir, data, Forgotten(root_dir, Q))
    BY <1>2, MemIs, ForgetOK
  <2> QED
    BY <2>1, MemIs DEF CrashSafe
<1> HIDE DEF ws
<1> QED
  BY <1>1, <1>3, <1>4, <1>5, FinishOK

LEMMA FormatOK ==
  ASSUME FilesInv, SafeCuts, fs_format PROVE FilesInv'
<1> DEFINE ft == [c \in ClusterNos |-> IF c \in {0, 1} THEN FAT_EOF ELSE FAT_FREE]
           sb == [valid |-> TRUE, free |-> Clusters]
           m == [Mem EXCEPT !.super = sb, !.fat = ft, !.dir = NoFiles, !.fd = Closed]
           ws == << "super", "fat", "dir" >>
           Q == [s \in DirSlots |-> << >>]
<1>1. Finish("format", m, ws)
  BY DEF fs_format
<1>2. m.super = sb /\ m.fat = ft /\ m.dir = NoFiles /\ m.fd = Closed /\ m.data = data
  <2> HIDE DEF ft, sb
  <2> QED
    BY DEF Mem
<1>3. Complete(m, ws)
  <2>1. Got(ws, "super") /\ Got(ws, "fat") /\ Got(ws, "dir")
    <3>1. ws[1] = "super" /\ ws[2] = "fat" /\ ws[3] = "dir" /\ Len(ws) = 3
      OBVIOUS
    <3>2. 1 \in 1..3 /\ 2 \in 1..3 /\ 3 \in 1..3
      OBVIOUS
    <3> HIDE DEF ws
    <3> QED
      BY <3>1, <3>2 DEF Got
  <2> QED
    BY <2>1 DEF Complete
<1>4. "format" \notin Cuts
  BY DEF SafeCuts
<1>5. m \in MemType
  <2>1. sb \in SuperType
    BY Sizes DEF SuperType
  <2>2. ft \in FatType
    BY FatValues, Sizes DEF FatType, FAT_FREE
  <2>3. NoFiles \in DirType
    <3>1. FreeEntry \in EntryType
      BY Sizes DEF FreeEntry, EntryType, ClusterNos
    <3> QED
      BY <3>1 DEF NoFiles, DirType, EntryType
  <2>4. data \in DataType
    BY MemIs DEF FilesInv, MemType
  <2> HIDE DEF ft, sb
  <2> QED
    BY <2>1, <2>2, <2>3, <2>4, ClosedIs DEF MemType, Mem
<1>6. /\ m.super.free = Clusters /\ m.super.valid
      /\ \A c \in ClusterNos : m.fat[c] = IF c \in {0, 1} THEN FAT_EOF ELSE FAT_FREE
  BY <1>2
<1>7. /\ \A s \in DirSlots : m.dir[s].name = NoName
      /\ \A d \in Fds : ~ m.fd[d].in_use
  <2>1. m.dir = NoFiles /\ m.fd = Closed
    BY <1>2
  <2> HIDE DEF m
  <2> QED
    BY <2>1, ClosedIs DEF NoFiles, FreeEntry
<1> HIDE DEF m
<1>8. \A s \in DirSlots : Q[s] = << >> /\ Len(Q[s]) = 0
  OBVIOUS
<1>9. Q \in ChainsType
  BY DEF ChainsType
<1>10. /\ \A c \in UserClusters : m.fat[c] = FAT_FREE
      /\ m.fat[0] = FAT_EOF /\ m.fat[1] = FAT_EOF
  BY <1>6, FatValues
<1> HIDE DEF Q
<1>11. Files(m, Q) /\ AtRest(m)
  <2>1. Apart(Q) /\ Linked(m.fat, Q) /\ ReservedOK(m.fat)
    <3>1. \A s \in DirSlots : \A i \in 1..Len(Q[s]) : FALSE
      BY <1>8
    <3> QED
      BY <1>10, <3>1, FatValues DEF Apart, Linked, Leads, ReservedOK
  <2>2. OneSlot(m) /\ OneWriter(m) /\ Housed(m) /\ AtRest(m) /\ FdsOK(m, Q)
    BY <1>7 DEF OneSlot, OneWriter, Housed, AtRest, FdsOK, HasFd, InUse
  <2>3. ASSUME NEW s \in DirSlots PROVE SlotOK(m, Q[s], s)
    BY <1>7, <1>8 DEF SlotOK, HasFd, InUse, Unwritten, Writes
  <2> QED
    BY <1>5, <1>9, <2>1, <2>2, <2>3 DEF Files, SlotsOK
<1>12. FreeClusters(m.fat) = 2..(Clusters - 1)
  <2>1. \A c \in ClusterNos : m.fat[c] = FAT_FREE <=> c \notin {0, 1}
    BY <1>6, FatValues
  <2>2. \A c : c \in ClusterNos /\ c \notin {0, 1} <=> c \in 2..(Clusters - 1)
    BY Sizes DEF ClusterNos
  <2> QED
    BY <2>1, <2>2 DEF FreeClusters
<1>13. Clean(m, Q)
  <2>1. Tight(m, Q)
    BY <1>7 DEF Tight, Unwritten, InUse, Writes, HasFd
  <2>2. Kept(m.fat, Q)
    BY <1>10 DEF Kept
  <2>3. Cardinality(2..(Clusters - 1)) = Clusters - 2
    <3>1. 2 \in Int /\ Clusters - 1 \in Int /\ 2 <= Clusters - 1
          /\ (Clusters - 1) - 2 + 1 = Clusters - 2
      BY Sizes
    <3> QED
      BY <3>1, FS_Interval
  <2>4. Counted(m)
    BY <1>6, <1>12, <2>3, Sizes DEF Counted
  <2> QED
    BY <2>1, <2>2, <2>4 DEF Clean
<1>14. Sound(m)
  BY <1>5, <1>6, <1>11, <1>13 DEF Sound
<1> HIDE DEF ws
<1> QED
  BY <1>1, <1>3, <1>4, <1>14, FinishOK

LEMMA CreateOK ==
  ASSUME FilesInv, NEW name \in Names, fs_create(name) PROVE FilesInv'
<1> DEFINE s0 == Least(FreeSlots(Mem))
           e0 == [name |-> name, first |-> 0, size |-> 0]
           m == [Mem EXCEPT !.dir[s0] = e0]
           ws == << "dir", "super" >>
<1>1. /\ Valid /\ find_file_by_name(Mem, name) = {} /\ FreeSlots(Mem) # {}
      /\ Finish("create", m, ws)
  BY DEF fs_create
<1>2. PICK Q : Files(Mem, Q) /\ AtRest(Mem) /\ (failures = 0 => Clean(Mem, Q))
  BY <1>1, InvIs
<1>3. s0 \in DirSlots /\ Mem.dir[s0].name = NoName
  <2>1. FreeSlots(Mem) \in SUBSET Nat
    BY SlotsAre DEF FreeSlots
  <2>2. s0 \in FreeSlots(Mem)
    BY <1>1, <2>1, LeastIs
  <2> QED
    BY <2>2 DEF FreeSlots
<1>4. /\ \A s \in DirSlots : Mem.dir[s].name # name
      /\ name # NoName
  BY <1>1, FileSystemAssumption DEF find_file_by_name
<1>5. /\ e0.name = name /\ e0.first = 0 /\ e0.size = 0
      /\ e0 \in EntryType
  BY Sizes DEF EntryType, ClusterNos
<1> HIDE DEF s0, e0
<1>6. /\ m.super = superblock /\ m.fat = fat /\ m.fd = fd_table /\ m.data = data
      /\ m.dir = [root_dir EXCEPT ![s0] = e0]
  BY DEF Mem
<1>7. Mem \in MemType /\ root_dir \in DirType
  BY <1>2, MemIs, FilesTypes DEF Files
<1>8. m \in MemType
  <2>1. [root_dir EXCEPT ![s0] = e0] \in DirType
    BY <1>5, <1>7 DEF DirType, EntryType
  <2> QED
    BY <1>7, <2>1, MemIs DEF MemType, Mem
<1>9. \A s \in DirSlots : m.dir[s] = IF s = s0 THEN e0 ELSE Mem.dir[s]
  <2>1. DOMAIN root_dir = DirSlots
    BY <1>7 DEF DirType
  <2> QED
    BY <1>3, <1>6, <2>1, MemIs
<1> HIDE DEF m
<1>10. m.super = Mem.super /\ m.fat = Mem.fat /\ m.fd = Mem.fd /\ m.data = Mem.data
  BY <1>6, MemIs
<1>11. \A d \in Fds, s \in DirSlots :
         /\ HasFd(Mem, d, s) <=> HasFd(m, d, s)
         /\ HasFd(m, d, s) => s # s0
  <2>1. \A d \in Fds : m.fd[d].in_use => m.fd[d].name # NoName /\ m.fd[d].name # name
    BY <1>2, <1>4, <1>10 DEF Files, Housed
  <2> QED
    BY <1>3, <1>5, <1>9, <1>10, <2>1 DEF HasFd
<1>12. \A d \in Fds, s \in DirSlots :
         /\ Writes(Mem, d, s) <=> Writes(m, d, s)
         /\ Writes(m, d, s) => s # s0
  BY <1>10, <1>11 DEF Writes
<1>13. /\ \A s \in DirSlots : s # s0 => (InUse(m, s) <=> InUse(Mem, s))
       /\ \A s \in DirSlots : s # s0 => (Unwritten(m, s) <=> Unwritten(Mem, s))
  BY <1>9, <1>12 DEF InUse, Unwritten
<1>14. Len(Q[s0]) = 0 /\ InUse(m, s0)
  <2>1. ~ InUse(Mem, s0) /\ SlotOK(Mem, Q[s0], s0)
    BY <1>2, <1>3 DEF Files, SlotsOK, InUse
  <2> QED
    BY <1>3, <1>4, <1>5, <1>9, <2>1 DEF SlotOK, InUse
<1>15. ASSUME NEW s \in DirSlots PROVE SlotOK(m, Q[s], s)
  <2>1. CASE s = s0
    <3>1. Holds(m.data, Q[s], m.dir[s].name, m.dir[s].first, m.dir[s].size)
      BY <1>5, <1>9, <1>14, <2>1 DEF Holds, Starts, BytesAt, Need
    <3> QED
      BY <1>12, <1>14, <2>1, <3>1 DEF SlotOK
  <2>2. CASE s # s0
    <3>1. SlotOK(Mem, Q[s], s) /\ m.dir[s] = Mem.dir[s]
      BY <1>2, <1>9, <2>2 DEF Files, SlotsOK
    <3> QED
      BY <1>10, <1>12, <1>13, <2>2, <3>1 DEF SlotOK
  <2> QED
    BY <2>1, <2>2
<1>16. FdsOK(m, Q)
  BY <1>2, <1>9, <1>10, <1>11 DEF Files, FdsOK
<1>17. OneSlot(m) /\ OneWriter(m) /\ Housed(m)
  <2>1. OneSlot(m)
    BY <1>2, <1>4, <1>5, <1>9 DEF Files, OneSlot, InUse
  <2>2. OneWriter(m)
    BY <1>2, <1>10 DEF Files, OneWriter
  <2>3. Housed(m)
    <3> SUFFICES ASSUME NEW d \in Fds, m.fd[d].in_use
                 PROVE  m.fd[d].name # NoName /\ \E s \in DirSlots : m.dir[s].name = m.fd[d].name
      BY DEF Housed
    <3>1. PICK s \in DirSlots : Mem.dir[s].name = m.fd[d].name
      BY <1>2, <1>10 DEF Files, Housed
    <3>2. m.fd[d].name # NoName
      BY <1>2, <1>10 DEF Files, Housed
    <3> QED
      BY <1>3, <1>9, <3>1, <3>2
  <2> QED
    BY <2>1, <2>2, <2>3
<1>18. Files(m, Q)
  BY <1>2, <1>8, <1>10, <1>15, <1>16, <1>17 DEF Files, SlotsOK
<1>19. AtRest(m)
  BY <1>2, <1>9, <1>10, <1>11 DEF AtRest
<1>20. failures = 0 => Clean(m, Q)
  <2> SUFFICES ASSUME Clean(Mem, Q) PROVE Clean(m, Q)
    BY <1>2
  <2>1. Kept(m.fat, Q) /\ Counted(m)
    BY <1>10 DEF Clean, Counted
  <2>2. Tight(m, Q)
    <3>1. Need(m.dir[s0].size) = 0
      BY <1>3, <1>5, <1>9 DEF Need
    <3> QED
      BY <1>9, <1>10, <1>12, <1>13, <1>14, <3>1 DEF Clean, Tight
  <2> QED
    BY <2>1, <2>2 DEF Clean
<1>21. Sound(m)
  BY <1>1, <1>8, <1>10, <1>18, <1>19, <1>20, MemIs DEF Sound, Valid
<1>22. CrashSafe(m)
  <2>1. /\ FilesOnDisk(m.fat, root_dir, m.data, Forgotten(root_dir, Q))
        /\ FilesOnDisk(m.fat, m.dir, m.data, Forgotten(m.dir, Q))
    BY <1>2, <1>6, <1>18, MemIs, ForgetOK
  <2> QED
    BY <1>6, <2>1 DEF CrashSafe
<1>23. Complete(m, ws)
  <2>1. Got(ws, "dir")
    BY DEF Got
  <2> QED
    BY <1>6, <2>1 DEF Complete
<1> HIDE DEF ws
<1> QED
  BY <1>1, <1>21, <1>22, <1>23, FinishOK

\* The directory keeps what fs_close writes back: nothing, for a file that was
\* only read, and first cluster and size of the one writer otherwise.
LEMMA CloseOK ==
  ASSUME FilesInv, NEW d \in Fds, fs_close(d) PROVE FilesInv'
<1> DEFINE f == fd_table[d]
           S == IF f.modified THEN find_file_by_name(Mem, f.name) ELSE {}
           dr == [s \in DirSlots |->
                    IF s \in S THEN [root_dir[s] EXCEPT !.first = f.first, !.size = f.size]
                    ELSE root_dir[s]]
           m == [Mem EXCEPT !.fd[d] = ClosedFd, !.dir = dr]
           ws == IF S = {} THEN << >> ELSE << "dir" >>
<1>1. Valid /\ f.in_use /\ Finish("close", m, ws)
  BY MemIs DEF fs_close
<1>2. PICK Q : Files(Mem, Q) /\ AtRest(Mem) /\ (failures = 0 => Clean(Mem, Q))
  BY <1>1, InvIs
<1>3. Mem \in MemType /\ root_dir \in DirType /\ fd_table \in [Fds -> FdType]
  BY <1>2, MemIs, FilesTypes DEF Files
<1>4. S \subseteq {s \in DirSlots : HasFd(Mem, d, s)}
  BY <1>1, MemIs DEF find_file_by_name, HasFd
<1>5. \A s \in DirSlots : HasFd(Mem, d, s) => (s \in S <=> f.modified)
  BY MemIs DEF find_file_by_name, HasFd
<1>6. \A s \in DirSlots :
        dr[s] = IF s \in S THEN [root_dir[s] EXCEPT !.first = f.first, !.size = f.size]
                ELSE root_dir[s]
  OBVIOUS
<1>7. dr \in DirType
  <2>1. ASSUME NEW s \in DirSlots PROVE dr[s] \in EntryType
    <3>1. root_dir[s] \in EntryType /\ f \in FdType
      BY <1>3 DEF DirType, EntryType
    <3>2. f.first \in ClusterNos /\ f.size \in 0..MaxFileSize
      BY <3>1 DEF FdType
    <3>3. [root_dir[s] EXCEPT !.first = f.first, !.size = f.size] \in EntryType
      BY <3>1, <3>2 DEF EntryType
    <3> QED
      BY <1>6, <3>1, <3>3
  <2> QED
    BY <2>1 DEF DirType, EntryType
<1> HIDE DEF S, dr
<1>8. /\ m.super = Mem.super /\ m.fat = Mem.fat /\ m.data = Mem.data /\ m.dir = dr
      /\ m.fd = [fd_table EXCEPT ![d] = ClosedFd]
  BY DEF Mem
<1>9. m \in MemType
  <2>1. [fd_table EXCEPT ![d] = ClosedFd] \in [Fds -> FdType]
    BY <1>3, ClosedIs
  <2> QED
    BY <1>3, <1>7, <2>1, MemIs DEF MemType, Mem
<1>10. /\ ~ m.fd[d].in_use
       /\ \A x \in Fds : x # d => m.fd[x] = Mem.fd[x]
  BY <1>3, <1>8, ClosedIs, MemIs
<1> HIDE DEF m
\* Every entry but the file's stays; that one has what the descriptor has.
<1>11. ASSUME NEW s \in DirSlots
       PROVE  /\ m.dir[s].name = Mem.dir[s].name
              /\ ~ HasFd(Mem, d, s) => m.dir[s] = Mem.dir[s]
              /\ HasFd(Mem, d, s) => m.dir[s].first = f.first /\ m.dir[s].size = f.size
              /\ HasFd(Mem, d, s) /\ f.mode = READ
                   => m.dir[s].first = Mem.dir[s].first /\ m.dir[s].size = Mem.dir[s].size
  <2>1. Mem.dir[s] = root_dir[s] /\ m.dir[s] = dr[s] /\ root_dir[s] \in EntryType
    BY <1>3, <1>8, MemIs DEF DirType, EntryType
  <2>2. CASE s \in S
    <3>1. HasFd(Mem, d, s)
      BY <1>4, <2>2
    <3>2. dr[s].name = root_dir[s].name /\ dr[s].first = f.first /\ dr[s].size = f.size
      BY <1>6, <2>1, <2>2 DEF EntryType
    <3>3. f.mode = READ => Agrees(f, root_dir[s])
      BY <1>2, <3>1, MemIs DEF Files, FdsOK, FdOK
    <3> QED
      BY <2>1, <3>1, <3>2, <3>3 DEF Agrees
  <2>3. CASE s \notin S
    <3>1. dr[s] = root_dir[s]
      BY <1>6, <2>3
    <3>2. HasFd(Mem, d, s) => Agrees(f, root_dir[s])
      BY <1>2, <1>5, <2>3, MemIs DEF AtRest, Settled
    <3> QED
      BY <2>1, <3>1, <3>2 DEF Agrees
  <2> QED
    BY <2>2, <2>3
<1>12. \A x \in Fds, s \in DirSlots :
         /\ HasFd(m, x, s) <=> x # d /\ HasFd(Mem, x, s)
         /\ Writes(m, x, s) <=> x # d /\ Writes(Mem, x, s)
  BY <1>10, <1>11 DEF HasFd, Writes
<1>13. \A s \in DirSlots : InUse(m, s) <=> InUse(Mem, s)
  BY <1>11 DEF InUse
<1>14. ASSUME NEW s \in DirSlots, Writes(Mem, d, s)
       PROVE  \A x \in Fds : ~ HasFd(m, x, s)
  BY <1>2, <1>12, <1>14 DEF Files, OneWriter, HasFd, Writes
<1>15. ASSUME NEW s \in DirSlots, ~ Writes(Mem, d, s)
       PROVE  /\ m.dir[s].first = Mem.dir[s].first /\ m.dir[s].size = Mem.dir[s].size
              /\ \A x \in Fds : Writes(m, x, s) <=> Writes(Mem, x, s)
              /\ Unwritten(m, s) <=> Unwritten(Mem, s)
  <2>1. m.dir[s].first = Mem.dir[s].first /\ m.dir[s].size = Mem.dir[s].size
    BY <1>11, <1>15, MemIs DEF Writes
  <2>2. \A x \in Fds : Writes(m, x, s) <=> Writes(Mem, x, s)
    BY <1>12, <1>15
  <2> QED
    BY <1>13, <2>1, <2>2 DEF Unwritten
<1>16. ASSUME NEW s \in DirSlots, Writes(Mem, d, s)
       PROVE  /\ Extent(f) = f.size /\ InUse(m, s)
              /\ m.dir[s].first = f.first /\ m.dir[s].size = f.size
  <2>1. HasFd(Mem, d, s) /\ InUse(Mem, s)
    BY <1>2, <1>16, FdStarts DEF Writes
  <2>2. Settled(f, Mem.dir[s])
    BY <1>2, <2>1, MemIs DEF AtRest
  <2>3. f.pos <= f.size /\ f.pos \in Nat /\ f.size \in Nat
    BY <1>2, <2>2, FilesTypes, MemIs DEF Settled
  <2> QED
    BY <1>11, <1>13, <2>1, <2>3 DEF Extent
<1>17. ASSUME NEW s \in DirSlots PROVE SlotOK(m, Q[s], s)
  <2>1. SlotOK(Mem, Q[s], s)
    BY <1>2 DEF Files, SlotsOK
  <2>2. CASE Writes(Mem, d, s)
    <3>1. Holds(Mem.data, Q[s], Mem.dir[s].name, f.first, Extent(f))
      BY <2>1, <2>2, MemIs DEF SlotOK
    <3>2. Holds(m.data, Q[s], m.dir[s].name, m.dir[s].first, m.dir[s].size)
      BY <1>8, <1>11, <1>16, <2>2, <3>1
    <3> QED
      BY <1>14, <1>16, <2>2, <3>2 DEF SlotOK, Writes
  <2>3. CASE ~ Writes(Mem, d, s)
    <3>1. \A x \in Fds : Writes(m, x, s) => m.fd[x] = Mem.fd[x]
      BY <1>10, <1>12
    <3> QED
      BY <1>8, <1>11, <1>13, <1>15, <2>1, <2>3, <3>1 DEF SlotOK
  <2> QED
    BY <2>2, <2>3
<1>18. ASSUME NEW x \in Fds, NEW s \in DirSlots, HasFd(m, x, s)
       PROVE  /\ FdOK(m.fd[x], m.dir[s], Q[s])
              /\ Settled(m.fd[x], m.dir[s])
  <2>1. x # d /\ HasFd(Mem, x, s) /\ m.fd[x] = Mem.fd[x] /\ ~ Writes(Mem, d, s)
    BY <1>10, <1>12, <1>14, <1>18
  <2>2. FdOK(Mem.fd[x], Mem.dir[s], Q[s]) /\ Settled(Mem.fd[x], Mem.dir[s])
    BY <1>2, <2>1 DEF Files, FdsOK, AtRest
  <2>3. m.dir[s].first = Mem.dir[s].first /\ m.dir[s].size = Mem.dir[s].size
    BY <1>15, <2>1
  <2> QED
    BY <2>1, <2>2, <2>3 DEF FdOK, Settled, Agrees, Behind
<1>19. OneSlot(m) /\ OneWriter(m) /\ Housed(m)
  <2>1. OneSlot(m)
    BY <1>2, <1>11, <1>13 DEF Files, OneSlot
  <2>2. OneWriter(m)
    BY <1>2, <1>10 DEF Files, OneWriter
  <2>3. Housed(m)
    BY <1>2, <1>10, <1>11 DEF Files, Housed
  <2> QED
    BY <2>1, <2>2, <2>3
<1>20. Files(m, Q) /\ AtRest(m)
  BY <1>2, <1>8, <1>9, <1>17, <1>18, <1>19 DEF Files, SlotsOK, FdsOK, AtRest
<1>21. failures = 0 => Clean(m, Q)
  <2> SUFFICES ASSUME Clean(Mem, Q) PROVE Clean(m, Q)
    BY <1>2
  <2>1. Kept(m.fat, Q) /\ Counted(m)
    BY <1>8 DEF Clean, Counted
  <2>2. ASSUME NEW s \in DirSlots
        PROVE  /\ Unwritten(m, s) => Len(Q[s]) <= Need(m.dir[s].size)
               /\ \A x \in Fds : Writes(m, x, s) => Len(Q[s]) <= Need(Extent(m.fd[x]))
    <3>1. CASE Writes(Mem, d, s)
      BY <1>14, <1>16, <3>1, MemIs DEF Clean, Tight, Writes
    <3>2. CASE ~ Writes(Mem, d, s)
      BY <1>10, <1>12, <1>15, <3>2 DEF Clean, Tight
    <3> QED
      BY <3>1, <3>2
  <2> QED
    BY <2>1, <2>2 DEF Clean, Tight
<1>22. Sound(m)
  BY <1>1, <1>8, <1>9, <1>20, <1>21, MemIs DEF Sound, Valid
<1>23. CrashSafe(m)
  <2>1. /\ FilesOnDisk(m.fat, root_dir, m.data, Forgotten(root_dir, Q))
        /\ FilesOnDisk(m.fat, m.dir, m.data, Forgotten(m.dir, Q))
    BY <1>2, <1>8, <1>20, MemIs, ForgetOK
  <2> QED
    BY <1>8, <2>1, MemIs DEF CrashSafe
<1>24. Complete(m, ws)
  <2>1. CASE S = {}
    <3>1. \A s \in DirSlots : dr[s] = root_dir[s]
      BY <1>6, <2>1
    <3>2. dr = root_dir
      BY <1>3, <1>7, <3>1 DEF DirType
    <3> QED
      BY <1>8, <3>2, MemIs DEF Complete
  <2>2. CASE S # {}
    <3>1. Got(ws, "dir")
      BY <2>2 DEF Got
    <3> QED
      BY <1>8, <3>1, MemIs DEF Complete
  <2> QED
    BY <2>1, <2>2
<1> HIDE DEF ws
<1> QED
  BY <1>1, <1>22, <1>23, <1>24, FinishOK

----------------------------------------------------------------------------
(***************************************************************************)
(* The operations on descriptors alone: open and read.                     *)
(***************************************************************************)
LEMMA TableOK ==
  ASSUME FilesInv, Valid, UNCHANGED << superblock, fat, root_dir, data, disk, failures >>,
         NEW m, NEW t, fd_table' = t, m = [Mem EXCEPT !.fd = t],
         NEW Q, Files(m, Q), AtRest(m), failures = 0 => Clean(m, Q)
  PROVE  FilesInv'
<1>1. Mem' = m
  BY DEF Mem
<1>2. Durable' /\ failures' \in 0..MaxFailures /\ Valid'
  BY DEF FilesInv, Durable, Valid
<1>3. m \in MemType
  BY DEF Files
<1>4. Files(Mem', Q) /\ AtRest(Mem') /\ (failures' = 0 => Clean(Mem', Q))
  BY <1>1
<1>5. \E P : Files(Mem', P) /\ AtRest(Mem') /\ (failures' = 0 => Clean(Mem', P))
  BY <1>4
<1> QED
  BY <1>1, <1>2, <1>3, <1>5 DEF FilesInv

\* A file that nobody writes, as the next descriptor finds it.
LEMMA EntryHolds ==
  ASSUME NEW m, NEW Q, Files(m, Q), NEW s \in DirSlots, Unwritten(m, s)
  PROVE  /\ Holds(m.data, Q[s], m.dir[s].name, m.dir[s].first, m.dir[s].size)
         /\ m.dir[s].first = 0 => m.dir[s].size = 0
<1>1. Holds(m.data, Q[s], m.dir[s].name, m.dir[s].first, m.dir[s].size)
  BY DEF Files, SlotsOK, SlotOK
<1>2. /\ Len(Q[s]) \in Nat /\ m.dir[s].size \in Nat
      /\ \A i \in 1..Len(Q[s]) : Q[s][i] \in UserClusters
  BY FilesTypes
<1>3. m.dir[s].first = 0 => Len(Q[s]) = 0
  <2>1. Len(Q[s]) # 0 => 1 \in 1..Len(Q[s])
    BY <1>2
  <2> QED
    BY <1>1, <1>2, <2>1, FatValues DEF Holds, Starts
<1>4. Need(m.dir[s].size) <= Len(Q[s]) /\ Need(m.dir[s].size) \in Nat
      /\ (Need(m.dir[s].size) = 0 <=> m.dir[s].size = 0)
  BY <1>1, <1>2, NeedIs DEF Holds
<1> QED
  BY <1>1, <1>2, <1>3, <1>4

LEMMA OpenOK ==
  ASSUME FilesInv, NEW name \in Names, NEW mode \in Modes, fs_open(name, mode),
         OpenFds(name) = {} \/ (mode = READ /\ WritingFds(name) = {}),
         \A s \in find_file_by_name(Mem, name) : mode = READ \/ root_dir[s].size <= ClusterSize
  PROVE  FilesInv'
<1>1. /\ Valid /\ FreeFds(Mem) # {}
      /\ UNCHANGED << superblock, fat, root_dir, data, disk, failures >>
  BY DEF fs_open
<1>2. PICK s0 \in find_file_by_name(Mem, name) :
        fd_table' = [fd_table EXCEPT ![Least(FreeFds(Mem))] =
                          [in_use |-> TRUE, name |-> name, first |-> root_dir[s0].first,
                           size |-> root_dir[s0].size,
                           pos |-> IF mode = APPEND THEN root_dir[s0].size ELSE 0,
                           cur |-> root_dir[s0].first, mode |-> mode, modified |-> FALSE]]
  BY DEF fs_open
<1> DEFINE d == Least(FreeFds(Mem))
           e == root_dir[s0]
           f == [in_use |-> TRUE, name |-> name, first |-> e.first, size |-> e.size,
                 pos |-> IF mode = APPEND THEN e.size ELSE 0,
                 cur |-> e.first, mode |-> mode, modified |-> FALSE]
           t == [fd_table EXCEPT ![d] = f]
           m == [Mem EXCEPT !.fd = t]
<1>3. PICK Q : Files(Mem, Q) /\ AtRest(Mem) /\ (failures = 0 => Clean(Mem, Q))
  BY <1>1, InvIs
<1>4. Mem \in MemType /\ root_dir \in DirType /\ fd_table \in [Fds -> FdType]
  BY <1>3, MemIs, FilesTypes DEF Files
<1>5. d \in Fds /\ ~ Mem.fd[d].in_use
  <2>1. FreeFds(Mem) \in SUBSET Nat
    BY SlotsAre DEF FreeFds
  <2>2. d \in FreeFds(Mem)
    BY <1>1, <2>1, LeastIs
  <2> QED
    BY <2>2 DEF FreeFds
<1>6. /\ s0 \in DirSlots /\ Mem.dir[s0].name = name /\ name # NoName
      /\ Mem.dir[s0].first = e.first /\ Mem.dir[s0].size = e.size
      /\ e.first \in ClusterNos /\ e.size \in 0..MaxFileSize /\ e.size \in Nat
  <2>1. s0 \in DirSlots /\ Mem.dir[s0].name = name
    BY <1>2 DEF find_file_by_name
  <2>2. e \in EntryType
    BY <1>4, <2>1 DEF DirType, EntryType
  <2> QED
    BY <2>1, <2>2, MemIs, Sizes, FileSystemAssumption DEF EntryType
<1>7. /\ f.in_use /\ f.name = name /\ f.first = e.first /\ f.size = e.size
      /\ f.pos = (IF mode = APPEND THEN e.size ELSE 0) /\ f.cur = e.first
      /\ f.mode = mode /\ ~ f.modified
      /\ f \in FdType
  BY <1>6, Sizes DEF FdType
<1>8. fd_table' = t
  BY <1>2
<1> HIDE DEF d, e, f
<1>9. /\ m.super = Mem.super /\ m.fat = Mem.fat /\ m.data = Mem.data /\ m.dir = Mem.dir
      /\ m.fd = t
  BY DEF Mem
<1>10. m \in MemType
  <2>1. t \in [Fds -> FdType]
    BY <1>4, <1>7
  <2> QED
    BY <1>4, <2>1 DEF MemType
<1>11. m.fd[d] = f /\ \A x \in Fds : x # d => m.fd[x] = Mem.fd[x]
  BY <1>4, <1>5, <1>9, MemIs
<1> HIDE DEF m
<1>12. \A s \in DirSlots : HasFd(m, d, s) <=> s = s0
  BY <1>3, <1>6, <1>7, <1>9, <1>11 DEF HasFd, Files, OneSlot, InUse
<1>13. \A x \in Fds, s \in DirSlots : x # d =>
         /\ HasFd(m, x, s) <=> HasFd(Mem, x, s)
         /\ Writes(m, x, s) <=> Writes(Mem, x, s)
  BY <1>9, <1>11 DEF HasFd, Writes
<1>14. \A s \in DirSlots : ~ HasFd(Mem, d, s) /\ (InUse(m, s) <=> InUse(Mem, s))
  BY <1>5, <1>9 DEF HasFd, InUse
\* The rules: nobody writes the file, and a writer is the only one.
<1>15. /\ \A x \in Fds : Writes(Mem, x, s0) => FALSE
       /\ mode # READ => \A x \in Fds : HasFd(Mem, x, s0) => FALSE
  <2>1. OpenFds(name) = {} \/ (mode = READ /\ WritingFds(name) = {})
    OBVIOUS
  <2>2. \A x \in Fds : HasFd(Mem, x, s0) <=> x \in OpenFds(name)
    BY <1>6, MemIs DEF HasFd, OpenFds
  <2>3. \A x \in Fds : Writes(Mem, x, s0) <=> x \in WritingFds(name)
    BY <2>2, MemIs DEF Writes, WritingFds
  <2> QED
    BY <2>1, <2>2, <2>3 DEF WritingFds
<1>16. Unwritten(Mem, s0) /\ InUse(m, s0)
  BY <1>6, <1>14, <1>15 DEF Unwritten, InUse
<1>17. /\ Holds(Mem.data, Q[s0], Mem.dir[s0].name, e.first, e.size)
       /\ e.first = 0 => e.size = 0
  BY <1>3, <1>6, <1>16, EntryHolds
<1>18. Extent(f) = e.size /\ f.pos <= f.size
  BY <1>6, <1>7 DEF Extent
<1>19. mode # READ => e.size <= ClusterSize
  BY <1>2 DEF e
<1>20. FdOK(f, Mem.dir[s0], Q[s0]) /\ Settled(f, Mem.dir[s0])
  <2>1. CursorOK(f, Q[s0])
    <3>1. Len(Q[s0]) \in Nat /\ Need(e.size) <= Len(Q[s0]) /\ Need(e.size) \in Nat
      BY <1>3, <1>6, <1>17, FilesTypes, NeedIs DEF Holds
    <3>2. CASE f.pos = 0
      BY <1>7, <3>1, <3>2 DEF CursorOK, Need
    <3>3. CASE f.pos # 0
      <4>1. mode = APPEND /\ f.pos = e.size /\ mode # READ
        BY <1>7, <3>3 DEF APPEND, READ
      <4>2. e.size <= ClusterSize * 1
        BY <1>19, <4>1, Sizes
      <4>3. Need(e.size) = 1
        <5>1. PICK z \in Nat : z = e.size
          BY <1>6
        <5>2. z # 0 /\ z <= ClusterSize * 1
          BY <3>3, <4>1, <4>2, <5>1
        <5>3. Need(z) \in Nat /\ Need(z) <= 1 /\ Need(z) # 0
          BY <5>2, NeedFits, NeedIs
        <5>4. Need(z) = 1
          BY <5>3
        <5> QED
          BY <5>1, <5>4
      <4>4. f.first = Q[s0][1]
        BY <1>7, <1>17, <3>1, <4>3 DEF Holds, Starts
      <4> QED
        BY <1>7, <3>1, <3>3, <4>1, <4>3, <4>4 DEF CursorOK
    <3> QED
      BY <3>2, <3>3
  <2>2. Agrees(f, Mem.dir[s0])
    BY <1>6, <1>7 DEF Agrees
  <2>3. mode # READ => Behind(f, Mem.dir[s0])
    BY <1>6, <1>7, <1>17, <1>19 DEF Behind
  <2> QED
    BY <1>7, <1>18, <2>1, <2>2, <2>3 DEF FdOK, Settled
<1>21. ASSUME NEW s \in DirSlots PROVE SlotOK(m, Q[s], s)
  <2>1. SlotOK(Mem, Q[s], s)
    BY <1>3 DEF Files, SlotsOK
  <2>2. CASE s = s0
    <3>1. Writes(m, d, s) => Holds(m.data, Q[s], m.dir[s].name, m.fd[d].first, Extent(m.fd[d]))
      BY <1>6, <1>7, <1>9, <1>11, <1>17, <1>18, <2>2
    <3>2. Holds(m.data, Q[s], m.dir[s].name, m.dir[s].first, m.dir[s].size)
      BY <1>6, <1>9, <1>17, <2>2
    <3>3. \A x \in Fds : Writes(m, x, s) => x = d
      BY <1>13, <1>15, <2>2
    <3> QED
      BY <1>16, <2>2, <3>1, <3>2, <3>3 DEF SlotOK
  <2>3. CASE s # s0
    <3>1. \A x \in Fds : Writes(m, x, s) => x # d /\ Writes(Mem, x, s) /\ m.fd[x] = Mem.fd[x]
      BY <1>11, <1>12, <1>13, <2>3 DEF Writes
    <3>2. Unwritten(m, s) => Unwritten(Mem, s)
      BY <1>13, <1>14 DEF Unwritten, Writes
    <3> QED
      BY <1>9, <1>14, <2>1, <3>1, <3>2 DEF SlotOK
  <2> QED
    BY <2>2, <2>3
<1>22. ASSUME NEW x \in Fds, NEW s \in DirSlots, HasFd(m, x, s)
       PROVE  FdOK(m.fd[x], m.dir[s], Q[s]) /\ Settled(m.fd[x], m.dir[s])
  <2>1. CASE x = d
    BY <1>9, <1>11, <1>12, <1>20, <1>22, <2>1
  <2>2. CASE x # d
    <3>1. HasFd(Mem, x, s) /\ m.fd[x] = Mem.fd[x]
      BY <1>11, <1>13, <1>22, <2>2
    <3> QED
      BY <1>3, <1>9, <3>1 DEF Files, FdsOK, AtRest
  <2> QED
    BY <2>1, <2>2
<1>23. OneSlot(m) /\ Housed(m)
  <2>1. OneSlot(m)
    BY <1>3, <1>9 DEF Files, OneSlot, InUse
  <2>2. Housed(m)
    BY <1>3, <1>6, <1>7, <1>9, <1>11 DEF Files, Housed
  <2> QED
    BY <2>1, <2>2
<1>24. OneWriter(m)
  <2> SUFFICES ASSUME NEW x \in Fds, NEW y \in Fds, m.fd[x].in_use, m.fd[y].in_use,
                      m.fd[x].name = m.fd[y].name, m.fd[x].mode # READ
               PROVE  x = y
    BY DEF OneWriter
  <2>1. CASE x # d /\ y # d
    BY <1>3, <1>11, <2>1 DEF Files, OneWriter
  <2>2. CASE x = d /\ y # d
    <3>1. HasFd(Mem, y, s0)
      BY <1>6, <1>7, <1>11, <2>2 DEF HasFd
    <3> QED
      BY <1>7, <1>11, <1>15, <2>2, <3>1
  <2>3. CASE x # d /\ y = d
    <3>1. Writes(Mem, x, s0)
      BY <1>6, <1>7, <1>11, <2>3 DEF HasFd, Writes
    <3> QED
      BY <1>15, <3>1
  <2> QED
    BY <2>1, <2>2, <2>3
<1>25. Files(m, Q) /\ AtRest(m)
  BY <1>3, <1>9, <1>10, <1>21, <1>22, <1>23, <1>24 DEF Files, SlotsOK, FdsOK, AtRest
<1>26. failures = 0 => Clean(m, Q)
  <2> SUFFICES ASSUME Clean(Mem, Q) PROVE Clean(m, Q)
    BY <1>3
  <2>1. Kept(m.fat, Q) /\ Counted(m)
    BY <1>9 DEF Clean, Counted
  <2>2. ASSUME NEW s \in DirSlots, Unwritten(m, s)
        PROVE  Len(Q[s]) <= Need(m.dir[s].size)
    <3>1. Unwritten(Mem, s)
      BY <1>13, <1>14, <2>2 DEF Unwritten, Writes
    <3> QED
      BY <1>9, <3>1 DEF Clean, Tight
  <2>3. ASSUME NEW s \in DirSlots, NEW x \in Fds, Writes(m, x, s)
        PROVE  Len(Q[s]) <= Need(Extent(m.fd[x]))
    <3>1. CASE x = d
      BY <1>6, <1>11, <1>12, <1>16, <1>18, <2>3, <3>1 DEF Clean, Tight, Writes
    <3>2. CASE x # d
      BY <1>11, <1>13, <2>3, <3>2 DEF Clean, Tight
    <3> QED
      BY <3>1, <3>2
  <2> QED
    BY <2>1, <2>2, <2>3 DEF Clean, Tight
<1> QED
  BY <1>1, <1>8, <1>25, <1>26, TableOK DEF m

----------------------------------------------------------------------------
(***************************************************************************)
(* Loops: a step F that keeps to the states S makes a run in S.            *)
(***************************************************************************)
IsRun(g, S, F, a, n) ==
  g \in [0..n -> S] /\ \A k \in 0..n : g[k] = IF k = 0 THEN a ELSE F[g[k - 1]]

LEMMA Iterates ==
  ASSUME NEW S, NEW F \in [S -> S], NEW a \in S, NEW n \in Nat
  PROVE  \E g : IsRun(g, S, F, a, n)
<1> DEFINE T == {i \in Nat : ~ \E g : IsRun(g, S, F, a, i)}
<1>1. SUFFICES ASSUME T # {} PROVE FALSE
  OBVIOUS
<1>2. PICK i \in T : \A j \in T : i <= j
  BY <1>1, LeastNat
<1>3. i # 0
  <2>1. IsRun([k \in 0..0 |-> a], S, F, a, 0)
    BY DEF IsRun
  <2> QED
    BY <1>2, <2>1
<1>4. i - 1 \in Nat /\ i - 1 \notin T
  BY <1>2, <1>3
<1>5. PICK f : IsRun(f, S, F, a, i - 1)
  BY <1>4
<1> DEFINE g == [k \in 0..i |-> IF k = i THEN F[f[i - 1]] ELSE f[k]]
<1>6. f[i - 1] \in S /\ F[f[i - 1]] \in S
  BY <1>4, <1>5 DEF IsRun
<1>7. ASSUME NEW k \in 0..i
      PROVE  g[k] \in S /\ g[k] = IF k = 0 THEN a ELSE F[g[k - 1]]
  <2>1. CASE k = i
    <3>1. g[k - 1] = f[i - 1]
      BY <1>2, <1>4, <2>1
    <3> QED
      BY <1>3, <1>6, <2>1, <3>1
  <2>2. CASE k # i
    <3>1. k \in 0..(i - 1) /\ (k # 0 => k - 1 \in 0..(i - 1) /\ k - 1 \in 0..i /\ k - 1 # i)
      BY <1>2, <2>2
    <3> QED
      BY <1>5, <2>2, <3>1 DEF IsRun
  <2> QED
    BY <2>1, <2>2
<1>8. g \in [0..i -> S]
  BY <1>7
<1> HIDE DEF g
<1>9. IsRun(g, S, F, a, i)
  BY <1>7, <1>8 DEF IsRun
<1> QED
  BY <1>2, <1>9

LEMMA Iterated ==
  ASSUME NEW S, NEW F \in [S -> S], NEW a \in S, NEW n \in Nat, NEW h, h[0] = a,
         \A k \in 1..n : h[k - 1] \in S => h[k] = F[h[k - 1]]
  PROVE  \A k \in 0..n : h[k] \in S
<1> DEFINE T == {k \in 0..n : h[k] \notin S}
<1>1. SUFFICES ASSUME T # {} PROVE FALSE
  OBVIOUS
<1>2. T \in SUBSET Nat
  OBVIOUS
<1>3. PICK k \in T : \A j \in T : k <= j
  BY <1>1, <1>2, LeastNat
<1>4. k # 0
  BY <1>3
<1>5. k \in 1..n /\ k - 1 \in 0..n /\ k - 1 \notin T
  BY <1>3, <1>4
<1>6. h[k] = F[h[k - 1]] /\ h[k - 1] \in S
  BY <1>5
<1> QED
  BY <1>3, <1>6

----------------------------------------------------------------------------
\* One turn of the loop of fs_read, and the loop.
ReadTurn(w) ==
  LET c == IF AtBoundary(w.f) THEN fat_read(Mem, w.f.cur) ELSE w.f.cur
      chunk == Min2(w.left, ClusterSize - (w.f.pos % ClusterSize))
  IN IF w.left = 0 \/ c >= FAT_EOF THEN [w EXCEPT !.left = 0]
     ELSE [f |-> [w.f EXCEPT !.cur = c, !.pos = @ + chunk], left |-> w.left - chunk]
ReadFrom(d, count) ==
  [f |-> fd_table[d], left |-> Min2(count, fd_table[d].size - fd_table[d].pos)]
IsReading(h, d, count) ==
  h = [k \in 0..count |-> IF k = 0 THEN ReadFrom(d, count) ELSE ReadTurn(h[k - 1])]

\* Only position and cluster change, and the position stays within the file.
SameFile(g, f) ==
  /\ g.in_use = f.in_use /\ g.name = f.name /\ g.first = f.first /\ g.size = f.size
  /\ g.mode = f.mode /\ g.modified = f.modified
Reading(f, q) ==
  {w \in [f : FdType, left : Nat] :
     SameFile(w.f, f) /\ CursorOK(w.f, q) /\ w.f.pos + w.left <= f.size}

\* The next cluster, for n more bytes in one cluster.
LEMMA CursorMoves ==
  ASSUME NEW ft, NEW q \in Seq(UserClusters), Leads(ft, q), NEW f \in FdType, CursorOK(f, q),
         Starts(q, f.first), NEW n \in Nat, n > 0, n <= ClusterSize - Off(f.pos),
         At(f.pos) + 1 <= Len(q)
  PROVE  /\ Need(f.pos + n) = At(f.pos) + 1 /\ At(f.pos) + 1 \in 1..Len(q)
         /\ q[At(f.pos) + 1] = IF AtBoundary(f) THEN ft[f.cur] ELSE f.cur
         /\ AtBoundary(f) => f.cur = q[At(f.pos)] /\ At(f.pos) \in 1..Len(q)
<1>1. f.pos \in Nat /\ Len(q) \in Nat
  BY Sizes DEF FdType
<1>2. At(f.pos) \in Nat /\ Off(f.pos) \in Nat /\ At(f.pos) + 1 \in 1..Len(q)
  <2>1. At(f.pos) \in Nat /\ Off(f.pos) \in Bytes
    BY <1>1, Place
  <2>2. Off(f.pos) \in Nat
    BY <2>1, Sizes DEF Bytes
  <2> QED
    BY <1>1, <2>1, <2>2
<1>3. /\ Need(f.pos + n) = At(f.pos) + 1
      /\ Need(f.pos) = IF Off(f.pos) = 0 THEN At(f.pos) ELSE At(f.pos) + 1
  BY <1>1, NeedAfter
<1>4. Need(f.pos) = 0 <=> f.pos = 0
  BY <1>1, NeedIs
<1>5. AtBoundary(f) <=> Off(f.pos) = 0 /\ f.pos # 0
  BY <1>1 DEF AtBoundary, Off
<1>6. CASE f.pos = 0
  <2>1. At(f.pos) = 0 /\ f.cur = q[1]
    BY <1>1, <1>2, <1>3, <1>4, <1>6 DEF CursorOK, Starts
  <2> QED
    BY <1>2, <1>3, <1>5, <1>6, <2>1
<1>7. CASE f.pos # 0 /\ Off(f.pos) # 0
  BY <1>2, <1>3, <1>5, <1>7 DEF CursorOK
<1>8. CASE f.pos # 0 /\ Off(f.pos) = 0
  <2>1. f.cur = q[At(f.pos)] /\ At(f.pos) # 0
    BY <1>3, <1>4, <1>8 DEF CursorOK
  <2>2. At(f.pos) \in 1..Len(q) /\ At(f.pos) # Len(q)
    BY <1>1, <1>2, <2>1
  <2>3. ft[f.cur] = q[At(f.pos) + 1]
    BY <2>1, <2>2 DEF Leads
  <2> QED
    BY <1>2, <1>3, <1>5, <1>8, <2>1, <2>2, <2>3
<1> QED
  BY <1>6, <1>7, <1>8

LEMMA ReadTurnOK ==
  ASSUME NEW q \in Seq(UserClusters), Leads(fat, q), NEW f \in FdType, Starts(q, f.first),
         Need(f.size) <= Len(q), NEW w \in Reading(f, q)
  PROVE  ReadTurn(w) \in Reading(f, q)
<1> DEFINE c == IF AtBoundary(w.f) THEN fat_read(Mem, w.f.cur) ELSE w.f.cur
           chunk == Min2(w.left, ClusterSize - (w.f.pos % ClusterSize))
           g == [w.f EXCEPT !.cur = c, !.pos = @ + chunk]
<1>1. /\ w \in [f : FdType, left : Nat] /\ w.f \in FdType /\ w.left \in Nat
      /\ SameFile(w.f, f) /\ CursorOK(w.f, q) /\ w.f.pos + w.left <= f.size
  BY DEF Reading
<1>2. /\ w.f.pos \in Nat /\ f.size \in Nat /\ f.size <= MaxFileSize /\ Len(q) \in Nat
      /\ Off(w.f.pos) \in Nat /\ Off(w.f.pos) < ClusterSize
      /\ \A i \in 1..Len(q) : q[i] \in UserClusters
  <2>1. w.f.pos \in Nat /\ f.size \in Nat /\ f.size <= MaxFileSize
    BY <1>1, Sizes DEF FdType
  <2>2. Off(w.f.pos) \in Bytes
    BY <2>1, Place
  <2> QED
    BY <2>1, <2>2, Sizes DEF Bytes
<1>3. CASE w.left = 0 \/ c >= FAT_EOF
  <2>1. ReadTurn(w) = [w EXCEPT !.left = 0]
    BY <1>3 DEF ReadTurn
  <2>2. w.f.pos + 0 <= f.size
    BY <1>1, <1>2
  <2> QED
    BY <1>1, <2>1, <2>2 DEF Reading
<1>4. CASE ~ (w.left = 0 \/ c >= FAT_EOF)
  <2>1. ReadTurn(w) = [f |-> g, left |-> w.left - chunk]
    BY <1>4 DEF ReadTurn
  <2>2. /\ chunk \in Nat /\ chunk > 0 /\ chunk <= w.left /\ chunk <= ClusterSize - Off(w.f.pos)
    BY <1>1, <1>2, <1>4, Sizes DEF Min2, Off
  <2> HIDE DEF chunk
  <2>3. w.f.pos < f.size /\ w.f.pos + chunk \in Nat /\ w.f.pos + chunk <= MaxFileSize
        /\ w.left - chunk \in Nat /\ (w.f.pos + chunk) + (w.left - chunk) <= f.size
    <3>1. PICK p \in Nat, b \in Nat, l \in Nat, z \in Nat, x \in Nat :
            p = w.f.pos /\ b = chunk /\ l = w.left /\ z = f.size /\ x = MaxFileSize
      BY <1>1, <1>2, <2>2, Sizes
    <3>2. /\ p \in Nat /\ b \in Nat /\ l \in Nat /\ z \in Nat /\ x \in Nat
          /\ b > 0 /\ b <= l /\ p + l <= z /\ z <= x
      BY <1>1, <1>2, <2>2, <3>1
    <3>3. p < z /\ p + b \in Nat /\ p + b <= x /\ l - b \in Nat /\ (p + b) + (l - b) <= z
      BY <3>2
    <3> QED
      BY <3>1, <3>3
  <2>4. At(w.f.pos) + 1 <= Len(q)
    <3>1. At(w.f.pos) + 1 <= Need(f.size) /\ At(w.f.pos) \in Nat /\ Need(f.size) \in Nat
      BY <1>2, <2>3, ByteFits, NeedIs
    <3> QED
      BY <1>2, <3>1
  <2>5. Starts(q, w.f.first)
    BY <1>1 DEF SameFile
  <2>6. /\ Need(w.f.pos + chunk) = At(w.f.pos) + 1 /\ At(w.f.pos) + 1 \in 1..Len(q)
        /\ q[At(w.f.pos) + 1] = IF AtBoundary(w.f) THEN fat[w.f.cur] ELSE w.f.cur
        /\ AtBoundary(w.f) => w.f.cur = q[At(w.f.pos)] /\ At(w.f.pos) \in 1..Len(q)
    BY <1>1, <2>2, <2>4, <2>5, CursorMoves
  <2>7. AtBoundary(w.f) => fat_read(Mem, w.f.cur) = fat[w.f.cur]
    <3>1. ASSUME NEW x \in UserClusters PROVE fat_read(Mem, x) = fat[x]
      <4>1. x < Clusters
        BY Sizes DEF UserClusters
      <4> QED
        BY <4>1, MemIs DEF fat_read
    <3>2. AtBoundary(w.f) => w.f.cur \in UserClusters
      BY <1>2, <2>6
    <3> QED
      BY <3>1, <3>2
  <2>8. c = q[At(w.f.pos) + 1] /\ c \in UserClusters
    BY <1>2, <2>6, <2>7
  <2> HIDE DEF c
  <2>9. /\ g.cur = c /\ g.pos = w.f.pos + chunk /\ SameFile(g, w.f) /\ g \in FdType
    <3>1. c \in ClusterNos /\ w.f.pos + chunk \in 0..MaxFileSize
      BY <2>3, <2>8, FatValues
    <3>2. g.cur = c /\ g.pos = w.f.pos + chunk /\ SameFile(g, w.f)
      BY <1>1 DEF FdType, SameFile
    <3>3. g \in FdType
      BY <1>1, <3>1 DEF FdType
    <3> QED
      BY <3>2, <3>3
  <2> HIDE DEF g
  <2>10. CursorOK(g, q)
    BY <1>2, <2>2, <2>4, <2>6, <2>8, <2>9 DEF CursorOK
  <2>11. SameFile(g, f)
    BY <1>1, <2>9 DEF SameFile
  <2> QED
    BY <2>1, <2>3, <2>9, <2>10, <2>11 DEF Reading
<1> QED
  BY <1>3, <1>4

LEMMA ReadLoopIs ==
  ASSUME NEW q \in Seq(UserClusters), Leads(fat, q), NEW d, fd_table[d] \in FdType,
         Starts(q, fd_table[d].first), CursorOK(fd_table[d], q),
         Need(fd_table[d].size) <= Len(q), fd_table[d].pos <= fd_table[d].size,
         NEW count \in Nat
  PROVE  /\ ReadLoop(d, count) \in FdType /\ SameFile(ReadLoop(d, count), fd_table[d])
         /\ CursorOK(ReadLoop(d, count), q) /\ ReadLoop(d, count).pos <= fd_table[d].size
<1> DEFINE f == fd_table[d]
           S == Reading(f, q)
           F == [w \in S |-> ReadTurn(w)]
           h == CHOOSE h : IsReading(h, d, count)
<1>1. F \in [S -> S]
  BY ReadTurnOK
<1>2. ReadFrom(d, count) \in S
  <2>1. f.pos \in Nat /\ f.size \in Nat
    BY Sizes DEF FdType
  <2>2. Min2(count, f.size - f.pos) \in Nat /\ f.pos + Min2(count, f.size - f.pos) <= f.size
    BY <2>1 DEF Min2
  <2>3. SameFile(f, f)
    BY DEF SameFile
  <2> QED
    BY <2>2, <2>3 DEF ReadFrom, Reading
<1>3. \A w \in S : F[w] = ReadTurn(w)
  OBVIOUS
<1> HIDE DEF S, F
<1>4. PICK g : IsRun(g, S, F, ReadFrom(d, count), count)
  BY <1>1, <1>2, Iterates
<1>5. IsReading(g, d, count)
  <2>1. ASSUME NEW k \in 0..count
        PROVE  g[k] = IF k = 0 THEN ReadFrom(d, count) ELSE ReadTurn(g[k - 1])
    <3>1. k # 0 => k - 1 \in 0..count
      OBVIOUS
    <3> QED
      BY <1>3, <1>4, <3>1 DEF IsRun
  <2>2. g \in [0..count -> S]
    BY <1>4 DEF IsRun
  <2> QED
    BY <2>1, <2>2 DEF IsReading
<1>6. IsReading(h, d, count)
  BY <1>5
<1>7. ReadLoop(d, count) = h[count].f
  BY DEF ReadLoop, IsReading, ReadTurn, ReadFrom
<1> HIDE DEF h
<1>8. h[0] = ReadFrom(d, count) /\ \A k \in 1..count : h[k] = ReadTurn(h[k - 1])
  BY <1>6 DEF IsReading
<1>9. \A k \in 1..count : h[k - 1] \in S => h[k] = F[h[k - 1]]
  BY <1>3, <1>8
<1>10. \A k \in 0..count : h[k] \in S
  BY <1>1, <1>2, <1>8, <1>9, Iterated
<1>11. h[count] \in S
  BY <1>10
<1>12. h[count].left \in Nat /\ h[count].f.pos \in Nat
  BY <1>11, Sizes DEF S, Reading, FdType
<1> QED
  BY <1>7, <1>11, <1>12, Sizes DEF S, Reading, FdType

\* Reading moves the cursor of a reader.
LEMMA ReadOK ==
  ASSUME FilesInv, NEW d \in Fds, NEW count \in 1..MaxFileSize, fs_read(d, count)
  PROVE  FilesInv'
<1> DEFINE f == fd_table[d]
           g == ReadLoop(d, count)
           t == [fd_table EXCEPT ![d] = g]
           m == [Mem EXCEPT !.fd = t]
<1>1. /\ Valid /\ f.in_use /\ f.mode = READ /\ fd_table' = t
      /\ UNCHANGED << superblock, fat, root_dir, data, disk, failures >>
  BY DEF fs_read, AfterRead
<1>2. PICK Q : Files(Mem, Q) /\ AtRest(Mem) /\ (failures = 0 => Clean(Mem, Q))
  BY <1>1, InvIs
<1>3. Mem \in MemType /\ fd_table \in [Fds -> FdType] /\ f \in FdType
  BY <1>2, MemIs, FilesTypes DEF Files
<1>4. PICK s0 \in DirSlots : HasFd(Mem, d, s0)
  BY <1>1, <1>2, MemIs DEF Files, Housed, HasFd
<1>5. Q[s0] \in Seq(UserClusters) /\ Leads(fat, Q[s0]) /\ Len(Q[s0]) \in Nat
  BY <1>2, <1>4, MemIs, FilesTypes
<1>6. /\ Starts(Q[s0], f.first) /\ InUse(Mem, s0) /\ CursorOK(f, Q[s0])
      /\ Agrees(f, Mem.dir[s0]) /\ f.pos <= f.size
  <2>1. FdOK(f, Mem.dir[s0], Q[s0]) /\ Settled(f, Mem.dir[s0])
    BY <1>2, <1>4, MemIs DEF Files, FdsOK, AtRest
  <2> QED
    BY <1>1, <1>2, <1>4, <2>1, MemIs, FdStarts DEF FdOK, Settled
<1>7. Need(f.size) <= Len(Q[s0])
  <2>1. Unwritten(Mem, s0)
    BY <1>1, <1>2, <1>4, <1>6, MemIs DEF Unwritten, Writes, HasFd, Files, OneWriter
  <2> QED
    BY <1>2, <1>6, <2>1, EntryHolds DEF Agrees, Holds
<1>8. g \in FdType /\ SameFile(g, f) /\ CursorOK(g, Q[s0]) /\ g.pos <= f.size
  BY <1>3, <1>5, <1>6, <1>7, ReadLoopIs
<1> HIDE DEF g
<1>9. /\ m.super = Mem.super /\ m.fat = Mem.fat /\ m.data = Mem.data /\ m.dir = Mem.dir
      /\ m.fd = t
  BY DEF Mem
<1>10. m \in MemType
  <2>1. t \in [Fds -> FdType]
    BY <1>3, <1>8
  <2> QED
    BY <1>3, <2>1 DEF MemType
<1>11. m.fd[d] = g /\ \A x \in Fds : x # d => m.fd[x] = Mem.fd[x]
  BY <1>3, <1>9, MemIs
<1> HIDE DEF m
<1>12. \A x \in Fds : SameFile(m.fd[x], Mem.fd[x])
  BY <1>8, <1>11, MemIs DEF SameFile
<1>13. ASSUME NEW s \in DirSlots
       PROVE  /\ \A x \in Fds : HasFd(m, x, s) <=> HasFd(Mem, x, s)
              /\ \A x \in Fds : Writes(m, x, s) <=> Writes(Mem, x, s)
              /\ \A x \in Fds : Writes(m, x, s) => m.fd[x] = Mem.fd[x]
              /\ InUse(m, s) <=> InUse(Mem, s)
              /\ Unwritten(m, s) <=> Unwritten(Mem, s)
  <2>1. \A x \in Fds : HasFd(m, x, s) <=> HasFd(Mem, x, s)
    BY <1>9, <1>12 DEF HasFd, SameFile
  <2>2. \A x \in Fds : Writes(m, x, s) <=> Writes(Mem, x, s)
    BY <1>12, <2>1 DEF Writes, SameFile
  <2>3. \A x \in Fds : Writes(m, x, s) => m.fd[x] = Mem.fd[x]
    BY <1>1, <1>11, <2>2, MemIs DEF Writes
  <2>4. InUse(m, s) <=> InUse(Mem, s)
    BY <1>9 DEF InUse
  <2> QED
    BY <2>1, <2>2, <2>3, <2>4 DEF Unwritten
<1>14. ASSUME NEW s \in DirSlots PROVE SlotOK(m, Q[s], s)
  <2>1. SlotOK(Mem, Q[s], s)
    BY <1>2 DEF Files, SlotsOK
  <2> QED
    BY <1>9, <1>13, <2>1 DEF SlotOK
<1>15. ASSUME NEW x \in Fds, NEW s \in DirSlots, HasFd(m, x, s)
       PROVE  FdOK(m.fd[x], m.dir[s], Q[s]) /\ Settled(m.fd[x], m.dir[s])
  <2>1. /\ HasFd(Mem, x, s) /\ FdOK(Mem.fd[x], m.dir[s], Q[s])
        /\ Settled(Mem.fd[x], m.dir[s])
    BY <1>2, <1>9, <1>13, <1>15 DEF Files, FdsOK, AtRest
  <2>2. CASE x # d
    BY <1>11, <2>1, <2>2
  <2>3. CASE x = d
    <3>1. s = s0
      BY <1>2, <1>4, <2>1, <2>3, <1>6 DEF Files, OneSlot, HasFd
    <3>2. FdOK(g, m.dir[s], Q[s])
      BY <1>1, <1>8, <2>1, <2>3, <3>1, MemIs DEF FdOK, SameFile, Agrees
    <3>3. Settled(g, m.dir[s])
      BY <1>8, <2>1, <2>3, MemIs DEF Settled, SameFile, Agrees
    <3> QED
      BY <1>11, <2>3, <3>2, <3>3
  <2> QED
    BY <2>2, <2>3
<1>16. OneSlot(m) /\ OneWriter(m) /\ Housed(m)
  <2>1. OneSlot(m)
    BY <1>2, <1>9 DEF Files, OneSlot, InUse
  <2>2. OneWriter(m)
    BY <1>2, <1>12 DEF Files, OneWriter, SameFile
  <2>3. Housed(m)
    BY <1>2, <1>9, <1>12 DEF Files, Housed, SameFile
  <2> QED
    BY <2>1, <2>2, <2>3
<1>17. Files(m, Q) /\ AtRest(m)
  BY <1>2, <1>9, <1>10, <1>14, <1>15, <1>16 DEF Files, SlotsOK, FdsOK, AtRest
<1>18. failures = 0 => Clean(m, Q)
  BY <1>2, <1>9, <1>13 DEF Clean, Tight, Counted
<1> QED
  BY <1>1, <1>17, <1>18, TableOK DEF m

----------------------------------------------------------------------------
(***************************************************************************)
(* Delete: the walk frees the clusters of the file, and no other.          *)
(***************************************************************************)
LEMMA LeadsTaken ==
  ASSUME NEW f, NEW q \in Seq(UserClusters), Leads(f, q), NEW i \in 1..Len(q)
  PROVE  f[q[i]] # FAT_FREE /\ f[q[i]] = Along(q, i) /\ q[i] \in UserClusters
<1>1. Len(q) \in Nat /\ q[i] \in UserClusters
  OBVIOUS
<1>2. f[q[i]] = IF i = Len(q) THEN FAT_EOF ELSE q[i + 1]
  BY DEF Leads
<1>3. i # Len(q) => q[i + 1] \in UserClusters
  <2>1. i # Len(q) => i + 1 \in 1..Len(q)
    BY <1>1
  <2> QED
    BY <2>1
<1> QED
  BY <1>1, <1>2, <1>3, FatValues DEF Along

\* What a file holds depends on the clusters of its chain alone.
LEMMA HoldsElse ==
  ASSUME NEW dt, NEW du, NEW q, NEW name, NEW first, NEW size \in Nat, Len(q) \in Nat,
         Holds(dt, q, name, first, size), \A i \in 1..Len(q) : du[q[i]] = dt[q[i]]
  PROVE  Holds(du, q, name, first, size)
<1> SUFFICES ASSUME NEW i \in 0..(size - 1)
             PROVE  du[q[At(i) + 1]][Off(i)] = << name, i >>
  BY DEF Holds, BytesAt
<1>1. i \in Nat /\ i < size
  OBVIOUS
<1>2. At(i) + 1 \in 1..Len(q)
  <2>1. At(i) \in Nat /\ At(i) + 1 <= Need(size) /\ Need(size) \in Nat
    BY <1>1, ByteFits, NeedIs
  <2>2. Need(size) <= Len(q)
    BY DEF Holds
  <2> QED
    BY <2>1, <2>2
<1>3. dt[q[At(i) + 1]][Off(i)] = << name, i >>
  BY DEF Holds, BytesAt
<1> QED
  BY <1>2, <1>3

LEMMA FreeIs ==
  ASSUME NEW m \in MemType, NEW c \in ClusterNos
  PROVE  LET x == free_cluster(m, c)
         IN  /\ x \in MemType /\ x.dir = m.dir /\ x.fd = m.fd
             /\ x.super.valid = m.super.valid /\ x.super.free = m.super.free + 1
             /\ \A e \in ClusterNos :
                  /\ x.fat[e] = IF e = c THEN FAT_FREE ELSE m.fat[e]
                  /\ x.data[e] = IF e = c THEN Blank ELSE m.data[e]
<1> DEFINE ft == [m.fat EXCEPT ![c] = FAT_FREE]
           sb == [m.super EXCEPT !.free = @ + 1]
           dt == [m.data EXCEPT ![c] = Blank]
           x == free_cluster(m, c)
<1>1. x = [m EXCEPT !.fat = ft, !.super = sb, !.data = dt]
  BY DEF free_cluster
<1>2. m.fat \in FatType /\ m.super \in SuperType /\ m.data \in DataType
  BY DEF MemType
<1>3. ft \in FatType
  BY <1>2, FatValues, Sizes DEF FatType, FAT_FREE
<1>4. sb \in SuperType /\ sb.valid = m.super.valid /\ sb.free = m.super.free + 1
  BY <1>2 DEF SuperType
<1>5. dt \in DataType
  <2>1. Blank \in [Bytes -> Marks]
    BY Sizes DEF Blank, Marks
  <2> QED
    BY <1>2, <2>1 DEF DataType
<1>6. \A e \in ClusterNos :
        /\ ft[e] = IF e = c THEN FAT_FREE ELSE m.fat[e]
        /\ dt[e] = IF e = c THEN Blank ELSE m.data[e]
  BY <1>2 DEF FatType, DataType
<1> HIDE DEF ft, sb, dt, x
<1>7. /\ x \in MemType /\ x.dir = m.dir /\ x.fd = m.fd
      /\ x.fat = ft /\ x.super = sb /\ x.data = dt
  BY <1>1, <1>3, <1>4, <1>5 DEF MemType
<1> QED
  BY <1>4, <1>6, <1>7 DEF x

\* x is m with the first k clusters of q freed.
FirstOf(q, k) == {q[i] : i \in {j \in 1..Len(q) : j <= k}}
IsFreed(x, m, q, k) ==
  /\ x \in MemType /\ x.dir = m.dir /\ x.fd = m.fd
  /\ x.super.valid = m.super.valid /\ x.super.free = m.super.free + k
  /\ \A c \in ClusterNos :
       /\ x.fat[c] = IF c \in FirstOf(q, k) THEN FAT_FREE ELSE m.fat[c]
       /\ x.data[c] = IF c \in FirstOf(q, k) THEN Blank ELSE m.data[c]

WalkStep(w) ==
  IF w.at >= Clusters \/ fat_read(w.m, w.at) = FAT_FREE THEN w
  ELSE [m |-> free_cluster(w.m, w.at), at |-> fat_read(w.m, w.at)]
IsWalk(h, m, start) ==
  h = [k \in 0..Clusters |-> IF k = 0 THEN [m |-> m, at |-> start] ELSE WalkStep(h[k - 1])]

LEMMA WalkStepOK ==
  ASSUME NEW w \in [m : MemType, at : 0..FAT_EOF]
  PROVE  WalkStep(w) \in [m : MemType, at : 0..FAT_EOF]
<1>1. w.m \in MemType /\ w.at \in 0..FAT_EOF /\ w.m.fat \in FatType
  BY DEF MemType
<1>2. CASE w.at >= Clusters \/ fat_read(w.m, w.at) = FAT_FREE
  BY <1>2 DEF WalkStep
<1>3. CASE ~ (w.at >= Clusters \/ fat_read(w.m, w.at) = FAT_FREE)
  <2>1. w.at \in ClusterNos
    BY <1>1, <1>3, Sizes DEF ClusterNos, FAT_EOF
  <2>2. fat_read(w.m, w.at) \in 0..FAT_EOF
    <3>1. w.m.fat[w.at] \in 0..FAT_EOF /\ w.at < Clusters
      BY <1>1, <2>1, Sizes DEF FatType, ClusterNos
    <3> QED
      BY <3>1 DEF fat_read
  <2>3. free_cluster(w.m, w.at) \in MemType
    BY <1>1, <2>1, FreeIs
  <2>4. WalkStep(w) = [m |-> free_cluster(w.m, w.at), at |-> fat_read(w.m, w.at)]
    BY <1>3 DEF WalkStep
  <2> QED
    BY <2>2, <2>3, <2>4
<1> QED
  BY <1>2, <1>3

LEMMA ChainFreed ==
  ASSUME NEW m \in MemType, NEW q \in Seq(UserClusters), Leads(m.fat, q), Once(q), Len(q) # 0
  PROVE  IsFreed(free_cluster_chain(m, q[1]), m, q, Len(q))
<1> DEFINE a == [m |-> m, at |-> q[1]]
           S == [m : MemType, at : 0..FAT_EOF]
           F == [w \in S |-> WalkStep(w)]
           h == CHOOSE h : IsWalk(h, m, q[1])
<1>1. /\ Len(q) \in Nat /\ Len(q) < Clusters /\ Clusters \in Nat
      /\ \A i \in 1..Len(q) : q[i] \in UserClusters /\ q[i] \in ClusterNos
  <2>1. \A i \in 1..Len(q) : q[i] \in UserClusters
    OBVIOUS
  <2> QED
    BY <2>1, OnceFits, FatValues, Sizes
<1>2. a \in S
  <2>1. q[1] \in ClusterNos
    BY <1>1
  <2> QED
    BY <2>1, FatValues
<1>3. F \in [S -> S]
  BY WalkStepOK
<1>4. \A w \in S : F[w] = WalkStep(w)
  OBVIOUS
<1> HIDE DEF a, S, F
<1>5. PICK g : IsRun(g, S, F, a, Clusters)
  BY <1>1, <1>2, <1>3, Iterates
<1>6. IsWalk(g, m, q[1])
  <2>1. ASSUME NEW k \in 0..Clusters
        PROVE  g[k] = IF k = 0 THEN a ELSE WalkStep(g[k - 1])
    <3>1. k # 0 => k - 1 \in 0..Clusters
      BY <1>1
    <3> QED
      BY <1>4, <1>5, <3>1 DEF IsRun
  <2>2. g \in [0..Clusters -> S]
    BY <1>5 DEF IsRun
  <2> QED
    BY <2>1, <2>2 DEF IsWalk, a
<1>7. IsWalk(h, m, q[1])
  BY <1>6
<1>8. free_cluster_chain(m, q[1]) = h[Clusters].m
  BY DEF free_cluster_chain, IsWalk, WalkStep
<1> HIDE DEF h
<1>9. h[0] = a /\ \A k \in 1..Clusters : h[k] = WalkStep(h[k - 1])
  BY <1>1, <1>7 DEF IsWalk, a
<1> DEFINE Done(k) == IF k < Len(q) THEN k ELSE Len(q)
           Good(k) == IsFreed(h[k].m, m, q, Done(k)) /\ h[k].at = Along(q, Done(k))
           T == {k \in 0..Clusters : ~ Good(k)}
<1>10. Good(0)
  <2>1. Done(0) = 0 /\ FirstOf(q, 0) = {} /\ Along(q, 0) = q[1]
    BY <1>1 DEF FirstOf, Along
  <2>2. h[0].m = m /\ h[0].at = q[1] /\ m.super.free + 0 = m.super.free
    BY <1>9 DEF a, MemType, SuperType
  <2> HIDE DEF Done
  <2> QED
    BY <2>1, <2>2 DEF IsFreed
<1>11. ASSUME NEW k \in 1..Clusters, Good(k - 1) PROVE Good(k)
  <2> DEFINE w == h[k - 1]
             j == k - 1
  <2>1. h[k] = WalkStep(w) /\ j \in Nat
    BY <1>1, <1>9
  <2>2. CASE j < Len(q)
    <3>1. /\ Done(k - 1) = j /\ Done(k) = k /\ k \in 1..Len(q) /\ j + 1 = k
      BY <1>1, <2>1, <2>2
    <3>2. IsFreed(w.m, m, q, j) /\ w.at = q[k]
      BY <1>11, <2>2, <3>1 DEF Along
    <3>3. q[k] \in ClusterNos /\ q[k] \notin FirstOf(q, j)
      BY <1>1, <3>1 DEF FirstOf, Once
    <3>4. fat_read(w.m, w.at) = Along(q, k) /\ fat_read(w.m, w.at) # FAT_FREE /\ w.at < Clusters
      <4>1. w.m.fat[q[k]] = m.fat[q[k]]
        BY <3>2, <3>3 DEF IsFreed
      <4>2. q[k] < Clusters
        BY <1>1, <3>3 DEF ClusterNos
      <4> QED
        BY <3>1, <3>2, <4>1, <4>2, LeadsTaken DEF fat_read
    <3>5. h[k].m = free_cluster(w.m, q[k]) /\ h[k].at = Along(q, k)
      <4>1. ~ w.at >= Clusters
        BY <1>1, <3>2, <3>3, <3>4 DEF ClusterNos
      <4> QED
        BY <2>1, <3>2, <3>4, <4>1 DEF WalkStep
    <3>6. FirstOf(q, k) = FirstOf(q, j) \cup {q[k]}
      BY <1>1, <3>1 DEF FirstOf
    <3>7. w.m \in MemType /\ m.super.free \in Int /\ (m.super.free + j) + 1 = m.super.free + k
      BY <3>1, <3>2 DEF IsFreed, MemType, SuperType
    <3>8. PICK x : x = free_cluster(w.m, q[k])
      OBVIOUS
    <3>9. /\ x \in MemType /\ x.dir = m.dir /\ x.fd = m.fd
          /\ x.super.valid = m.super.valid /\ x.super.free = m.super.free + k
      BY <3>2, <3>3, <3>7, <3>8, FreeIs DEF IsFreed
    <3>10. ASSUME NEW c \in ClusterNos
           PROVE  /\ x.fat[c] = IF c \in FirstOf(q, k) THEN FAT_FREE ELSE m.fat[c]
                  /\ x.data[c] = IF c \in FirstOf(q, k) THEN Blank ELSE m.data[c]
      <4>1. /\ x.fat[c] = IF c = q[k] THEN FAT_FREE ELSE w.m.fat[c]
            /\ x.data[c] = IF c = q[k] THEN Blank ELSE w.m.data[c]
        BY <3>3, <3>7, <3>8, FreeIs
      <4>2. /\ w.m.fat[c] = IF c \in FirstOf(q, j) THEN FAT_FREE ELSE m.fat[c]
            /\ w.m.data[c] = IF c \in FirstOf(q, j) THEN Blank ELSE m.data[c]
        BY <3>2 DEF IsFreed
      <4>3. c \in FirstOf(q, k) <=> c \in FirstOf(q, j) \/ c = q[k]
        BY <3>6
      <4> HIDE DEF w, j
      <4> QED
        BY <4>1, <4>2, <4>3
    <3>11. IsFreed(x, m, q, k)
      BY <3>9, <3>10 DEF IsFreed
    <3> QED
      BY <3>1, <3>5, <3>8, <3>11
  <2>3. CASE ~ j < Len(q)
    <3>1. Done(k - 1) = Len(q) /\ Done(k) = Len(q)
      BY <1>1, <2>1, <2>3
    <3>2. w.at = FAT_EOF
      BY <1>1, <1>11, <3>1 DEF Along
    <3>3. h[k] = w
      BY <1>1, <2>1, <3>2 DEF WalkStep, FAT_EOF
    <3> QED
      BY <1>11, <3>1, <3>3
  <2> QED
    BY <2>2, <2>3
<1>12. T = {}
  <2> SUFFICES ASSUME T # {} PROVE FALSE
    OBVIOUS
  <2> HIDE DEF Good
  <2>1. T \in SUBSET Nat
    BY <1>1
  <2>2. PICK k \in T : \A j \in T : k <= j
    BY <2>1, LeastNat
  <2>3. k # 0 /\ k \in 0..Clusters
    BY <1>10, <2>2
  <2>4. k \in 1..Clusters /\ k - 1 \in 0..Clusters /\ k - 1 \notin T
    BY <1>1, <2>2, <2>3
  <2> QED
    BY <1>11, <2>2, <2>4
<1>13. Good(Clusters) /\ Done(Clusters) = Len(q)
  BY <1>1, <1>12
<1> QED
  BY <1>8, <1>13

LEMMA DeleteOK ==
  ASSUME FilesInv, SafeCuts, NEW name \in Names, fs_delete(name), OpenFds(name) = {}
  PROVE  FilesInv'
<1>1. Valid
  BY DEF fs_delete
<1>2. PICK s0 \in find_file_by_name(Mem, name) :
        Finish("delete",
               [(IF root_dir[s0].first = 0 THEN Mem
                 ELSE free_cluster_chain(Mem, root_dir[s0].first)) EXCEPT !.dir[s0] = FreeEntry],
               << "fat", "dir", "super" >>)
  BY DEF fs_delete
<1> DEFINE first == root_dir[s0].first
           x == IF first = 0 THEN Mem ELSE free_cluster_chain(Mem, first)
           m == [x EXCEPT !.dir[s0] = FreeEntry]
           ws == << "fat", "dir", "super" >>
<1>3. PICK Q : Files(Mem, Q) /\ AtRest(Mem) /\ (failures = 0 => Clean(Mem, Q))
  BY <1>1, InvIs
<1>4. Mem \in MemType /\ Mem.dir \in DirType
  BY <1>3, FilesTypes DEF Files
<1>5. /\ s0 \in DirSlots /\ Mem.dir[s0].name = name /\ name # NoName /\ InUse(Mem, s0)
      /\ Mem.dir[s0].first = first
  BY <1>2, MemIs, FileSystemAssumption DEF find_file_by_name, InUse
\* The rules: nobody has the file open.
<1>6. \A d \in Fds : ~ HasFd(Mem, d, s0)
  <2> QED
    BY <1>5, MemIs DEF OpenFds, HasFd
<1> DEFINE q == Q[s0]
<1>7. /\ q \in Seq(UserClusters) /\ Leads(Mem.fat, q) /\ Once(q) /\ Len(q) \in Nat
      /\ \A i \in 1..Len(q) : q[i] \in UserClusters
      /\ Starts(q, first)
  <2>1. Unwritten(Mem, s0)
    BY <1>5, <1>6 DEF Unwritten, Writes
  <2> QED
    BY <1>3, <1>5, <2>1, FilesTypes, EntryHolds DEF Holds
<1> DEFINE R == Range1(q)
<1>8. IsFreed(x, Mem, q, Len(q)) /\ FirstOf(q, Len(q)) = R
  <2>1. FirstOf(q, Len(q)) = R
    BY <1>7 DEF FirstOf, Range1
  <2>2. CASE Len(q) = 0
    <3>1. x = Mem /\ R = {} /\ Mem.super.free + 0 = Mem.super.free
      BY <1>4, <1>7, <2>2 DEF Starts, Range1, MemType, SuperType
    <3> HIDE DEF x, R
    <3> QED
      BY <1>4, <2>1, <2>2, <3>1 DEF IsFreed
  <2>3. CASE Len(q) # 0
    <3>1. first = q[1] /\ first # 0
      BY <1>7, <2>3, FatValues DEF Starts
    <3>2. x = free_cluster_chain(Mem, q[1])
      BY <3>1
    <3> QED
      BY <1>4, <1>7, <2>1, <2>3, <3>2, ChainFreed
  <2> QED
    BY <2>2, <2>3
<1> HIDE DEF x, R
<1>9. /\ x \in MemType /\ x.dir = Mem.dir /\ x.fd = Mem.fd /\ x.super.valid = Mem.super.valid
      /\ x.super.free = Mem.super.free + Len(q)
      /\ \A c \in ClusterNos :
           /\ x.fat[c] = IF c \in R THEN FAT_FREE ELSE Mem.fat[c]
           /\ x.data[c] = IF c \in R THEN Blank ELSE Mem.data[c]
  BY <1>8 DEF IsFreed
<1>10. /\ m.super = x.super /\ m.fat = x.fat /\ m.data = x.data /\ m.fd = Mem.fd
       /\ m.dir = [Mem.dir EXCEPT ![s0] = FreeEntry]
       /\ m \in MemType
  <2>1. [Mem.dir EXCEPT ![s0] = FreeEntry] \in DirType
    <3>1. FreeEntry \in EntryType
      BY Sizes DEF FreeEntry, EntryType, ClusterNos
    <3> QED
      BY <1>4, <3>1 DEF DirType, EntryType
  <2> QED
    BY <1>9, <2>1 DEF MemType
<1>11. \A s \in DirSlots : m.dir[s] = IF s = s0 THEN FreeEntry ELSE Mem.dir[s]
  <2>1. DOMAIN Mem.dir = DirSlots
    BY <1>4 DEF DirType
  <2> QED
    BY <1>5, <1>10, <2>1
<1> HIDE DEF m
<1> DEFINE P == [Q EXCEPT ![s0] = << >>]
<1>12. /\ P \in ChainsType /\ Len(P[s0]) = 0
       /\ \A s \in DirSlots : s # s0 => P[s] = Q[s]
  <2>1. Q \in ChainsType
    BY <1>3 DEF Files
  <2>2. << >> \in Seq(UserClusters)
    OBVIOUS
  <2>3. P \in ChainsType /\ P[s0] = << >> /\ \A s \in DirSlots : s # s0 => P[s] = Q[s]
    BY <1>5, <2>1, <2>2 DEF ChainsType
  <2> QED
    BY <2>3
<1> HIDE DEF P
<1>13. \A s \in DirSlots : s # s0 => \A i \in 1..Len(Q[s]) :
         /\ Q[s][i] \in UserClusters /\ Q[s][i] \in ClusterNos /\ Q[s][i] \notin R
         /\ m.fat[Q[s][i]] = Mem.fat[Q[s][i]] /\ m.data[Q[s][i]] = Mem.data[Q[s][i]]
  <2> SUFFICES ASSUME NEW s \in DirSlots, s # s0, NEW i \in 1..Len(Q[s])
               PROVE  /\ Q[s][i] \in UserClusters /\ Q[s][i] \in ClusterNos /\ Q[s][i] \notin R
                      /\ m.fat[Q[s][i]] = Mem.fat[Q[s][i]]
                      /\ m.data[Q[s][i]] = Mem.data[Q[s][i]]
    OBVIOUS
  <2>1. Q[s][i] \in UserClusters /\ Q[s][i] \in ClusterNos
    BY <1>3, FilesTypes
  <2>2. Q[s][i] \notin R
    BY <1>3, <1>5 DEF Files, Apart, Range1, R
  <2> QED
    BY <1>9, <1>10, <2>1, <2>2
<1>14. \A s \in DirSlots, i \in Nat : i \in 1..Len(P[s]) => s # s0
  BY <1>12
<1>15. Apart(P) /\ Linked(m.fat, P) /\ ReservedOK(m.fat)
  <2>1. Apart(P)
    BY <1>3, <1>12 DEF Files, Apart
  <2>2. ASSUME NEW s \in DirSlots PROVE Leads(m.fat, P[s])
    <3>1. CASE s = s0
      BY <1>12, <3>1 DEF Leads
    <3>2. CASE s # s0
      <4>1. Leads(Mem.fat, Q[s])
        BY <1>3 DEF Files, Linked
      <4> QED
        BY <1>12, <1>13, <3>2, <4>1 DEF Leads
    <3> QED
      BY <3>1, <3>2
  <2>3. ReservedOK(m.fat)
    <3>1. 0 \notin R /\ 1 \notin R
      BY <1>7, FatValues DEF R, Range1
    <3> QED
      BY <1>3, <1>9, <1>10, <3>1, FatValues DEF Files, ReservedOK
  <2> QED
    BY <2>1, <2>2, <2>3 DEF Linked
<1>16. FreeEntry.name = NoName
  BY DEF FreeEntry
<1>17. \A d \in Fds, s \in DirSlots :
         /\ HasFd(m, d, s) <=> HasFd(Mem, d, s)
         /\ HasFd(m, d, s) => s # s0
  <2>1. \A d \in Fds : m.fd[d].in_use => m.fd[d].name # NoName
    BY <1>3, <1>10 DEF Files, Housed
  <2> QED
    BY <1>6, <1>10, <1>11, <1>16, <2>1 DEF HasFd
<1>18. ~ InUse(m, s0) /\ \A s \in DirSlots : s # s0 => (InUse(m, s) <=> InUse(Mem, s))
  BY <1>5, <1>11, <1>16 DEF InUse
<1>19. /\ \A d \in Fds, s \in DirSlots : Writes(m, d, s) <=> Writes(Mem, d, s)
       /\ \A d \in Fds, s \in DirSlots : Writes(m, d, s) => s # s0
       /\ \A s \in DirSlots : Unwritten(m, s) => Unwritten(Mem, s) /\ s # s0
  <2>1. \A d \in Fds, s \in DirSlots : Writes(m, d, s) <=> Writes(Mem, d, s)
    BY <1>10, <1>17 DEF Writes
  <2> QED
    BY <1>17, <1>18, <2>1 DEF Unwritten, Writes
<1>20. ASSUME NEW s \in DirSlots PROVE SlotOK(m, P[s], s)
  <2>1. CASE s = s0
    BY <1>12, <1>18, <1>19, <2>1 DEF SlotOK
  <2>2. CASE s # s0
    <3>1. SlotOK(Mem, Q[s], s) /\ m.dir[s] = Mem.dir[s] /\ P[s] = Q[s]
      BY <1>3, <1>11, <1>12, <2>2 DEF Files, SlotsOK
    <3>2. /\ Len(Q[s]) \in Nat /\ m.dir[s].size \in Nat
          /\ \A d \in Fds : Extent(m.fd[d]) \in Nat
          /\ \A i \in 1..Len(Q[s]) : m.data[Q[s][i]] = Mem.data[Q[s][i]]
      BY <1>3, <1>10, <1>13, <2>2, <3>1, FilesTypes
    <3>3. Unwritten(m, s) => Holds(m.data, Q[s], m.dir[s].name, m.dir[s].first, m.dir[s].size)
      <4>1. Unwritten(m, s) => Holds(Mem.data, Q[s], m.dir[s].name, m.dir[s].first, m.dir[s].size)
        BY <1>19, <3>1 DEF SlotOK
      <4> QED
        BY <3>2, <4>1, HoldsElse
    <3>4. ASSUME NEW d \in Fds, Writes(m, d, s)
          PROVE  Holds(m.data, Q[s], m.dir[s].name, m.fd[d].first, Extent(m.fd[d]))
      <4>1. Holds(Mem.data, Q[s], m.dir[s].name, m.fd[d].first, Extent(m.fd[d]))
        BY <1>10, <1>19, <3>1, <3>4 DEF SlotOK
      <4> QED
        BY <3>2, <4>1, HoldsElse
    <3> QED
      BY <1>18, <2>2, <3>1, <3>3, <3>4 DEF SlotOK
  <2> QED
    BY <2>1, <2>2
<1>21. ASSUME NEW d \in Fds, NEW s \in DirSlots, HasFd(m, d, s)
       PROVE  FdOK(m.fd[d], m.dir[s], P[s]) /\ Settled(m.fd[d], m.dir[s])
  <2>1. HasFd(Mem, d, s) /\ s # s0 /\ m.dir[s] = Mem.dir[s] /\ P[s] = Q[s]
    BY <1>11, <1>12, <1>17, <1>21
  <2> QED
    BY <1>3, <1>10, <2>1 DEF Files, FdsOK, AtRest
<1>22. OneSlot(m) /\ OneWriter(m) /\ Housed(m)
  <2>1. OneSlot(m)
    BY <1>3, <1>11, <1>16, <1>18 DEF Files, OneSlot, InUse
  <2>2. OneWriter(m)
    BY <1>3, <1>10 DEF Files, OneWriter
  <2>3. Housed(m)
    <3> SUFFICES ASSUME NEW d \in Fds, m.fd[d].in_use
                 PROVE  m.fd[d].name # NoName /\ \E s \in DirSlots : m.dir[s].name = m.fd[d].name
      BY DEF Housed
    <3>1. PICK s \in DirSlots : Mem.dir[s].name = m.fd[d].name
      BY <1>3, <1>10 DEF Files, Housed
    <3>2. m.fd[d].name # NoName /\ s # s0
      BY <1>3, <1>6, <1>10, <3>1 DEF Files, Housed, HasFd
    <3> QED
      BY <1>11, <3>1, <3>2
  <2> QED
    BY <2>1, <2>2, <2>3
<1>23. Files(m, P) /\ AtRest(m)
  BY <1>10, <1>12, <1>15, <1>20, <1>21, <1>22 DEF Files, SlotsOK, FdsOK, AtRest
<1>24. failures = 0 => Clean(m, P)
  <2> SUFFICES ASSUME Clean(Mem, Q) PROVE Clean(m, P)
    BY <1>3
  <2>1. Tight(m, P)
    BY <1>10, <1>11, <1>12, <1>19 DEF Clean, Tight
  <2>2. Kept(m.fat, P)
    <3> SUFFICES ASSUME NEW c \in UserClusters, m.fat[c] # FAT_FREE
                 PROVE  \E s \in DirSlots : \E i \in 1..Len(P[s]) : P[s][i] = c
      BY DEF Kept
    <3>1. c \notin R /\ Mem.fat[c] # FAT_FREE
      BY <1>9, <1>10, FatValues
    <3>2. PICK s \in DirSlots, i \in Nat : i \in 1..Len(Q[s]) /\ Q[s][i] = c
      <4>1. PICK s \in DirSlots : \E i \in 1..Len(Q[s]) : Q[s][i] = c
        BY <3>1 DEF Clean, Kept
      <4>2. PICK i \in 1..Len(Q[s]) : Q[s][i] = c
        BY <4>1
      <4>3. i \in Nat
        BY <1>3, FilesTypes
      <4> QED
        BY <4>2, <4>3
    <3>3. s # s0
      BY <3>1, <3>2 DEF R, Range1
    <3> QED
      BY <1>12, <3>2, <3>3
  <2>3. Counted(m)
    <3>1. FreeClusters(m.fat) = FreeClusters(Mem.fat) \cup R
      <4>1. R \subseteq ClusterNos
        BY <1>7, FatValues DEF R, Range1
      <4> QED
        BY <1>9, <1>10, <4>1 DEF FreeClusters
    <3>2. FreeClusters(Mem.fat) \cap R = {}
      BY <1>7, LeadsTaken DEF FreeClusters, R, Range1
    <3>3. IsFiniteSet(R) /\ Cardinality(R) = Len(q)
      BY <1>7, OnceFits DEF R
    <3>4. IsFiniteSet(FreeClusters(Mem.fat))
      <4>1. IsFiniteSet(ClusterNos)
        BY NosFinite
      <4> QED
        BY <4>1, FS_Subset DEF FreeClusters
    <3>5. PICK A, B : A = FreeClusters(Mem.fat) /\ B = FreeClusters(m.fat)
      OBVIOUS
    <3>6. PICK x1 \in Nat : x1 = Cardinality(A)
      BY <3>4, <3>5, FS_CardinalityType
    <3>7. Cardinality(B) = Cardinality(A) + Cardinality(R) - Cardinality(A \cap R)
      BY <3>1, <3>3, <3>4, <3>5, FS_Union
    <3>8. Cardinality(A \cap R) = 0
      BY <3>2, <3>5, FS_EmptySet
    <3>9. Cardinality(B) = x1 + Len(q)
      BY <1>7, <3>3, <3>6, <3>7, <3>8
    <3>10. Mem.super.free = x1 + 2
      BY <3>5, <3>6 DEF Clean, Counted
    <3>11. m.super.free = (x1 + 2) + Len(q)
      BY <1>9, <1>10, <3>10
    <3>12. (x1 + 2) + Len(q) = (x1 + Len(q)) + 2
      BY <1>7, <3>6
    <3> QED
      BY <3>5, <3>9, <3>11, <3>12 DEF Counted
  <2> QED
    BY <2>1, <2>2, <2>3 DEF Clean
<1>25. Sound(m)
  BY <1>1, <1>9, <1>10, <1>23, <1>24, MemIs DEF Sound, Valid
<1>26. Complete(m, ws)
  <2>1. ws[1] = "fat" /\ ws[2] = "dir" /\ ws[3] = "super" /\ Len(ws) = 3
    OBVIOUS
  <2>2. 1 \in 1..3 /\ 2 \in 1..3 /\ 3 \in 1..3
    OBVIOUS
  <2> HIDE DEF ws
  <2> QED
    BY <2>1, <2>2 DEF Got, Complete
<1>27. "delete" \notin Cuts
  BY DEF SafeCuts
<1>28. Finish("delete", m, ws)
  BY <1>2 DEF m, x
<1> HIDE DEF ws
<1> QED
  BY <1>25, <1>26, <1>27, <1>28, FinishOK

----------------------------------------------------------------------------
(***************************************************************************)
(* Write: what Extend and Store make of the memory.                        *)
(***************************************************************************)
LEMMA StoreIs ==
  ASSUME NEW m \in MemType, NEW d \in Fds, NEW n \in Nat, n > 0,
         n <= ClusterSize - Off(m.fd[d].pos), m.fd[d].pos + n <= MaxFileSize,
         m.fd[d].name # NoName
  PROVE  LET x == Store(m, d, n)
             f == m.fd[d]
         IN  /\ x \in MemType /\ x.super = m.super /\ x.fat = m.fat /\ x.dir = m.dir
             /\ \A e \in Fds : e # d => x.fd[e] = m.fd[e]
             /\ SameFile(x.fd[d], f) /\ x.fd[d].cur = f.cur /\ x.fd[d].pos = f.pos + n
             /\ \A c \in ClusterNos : c # f.cur => x.data[c] = m.data[c]
             /\ \A b \in Bytes : x.data[f.cur][b] =
                  IF b \in Off(f.pos)..(Off(f.pos) + n - 1)
                  THEN << f.name, f.pos + b - Off(f.pos) >> ELSE m.data[f.cur][b]
<1> DEFINE f == m.fd[d]
           off == f.pos % ClusterSize
           page == [b \in Bytes |-> IF b \in off..(off + n - 1)
                                    THEN << f.name, f.pos + b - off >> ELSE m.data[f.cur][b]]
           dt == [m.data EXCEPT ![f.cur] = page]
           g == [f EXCEPT !.pos = f.pos + n]
           t == [m.fd EXCEPT ![d] = g]
           x == Store(m, d, n)
<1>1. x = [m EXCEPT !.data = dt, !.fd = t]
  BY DEF Store
<1>2. m.data \in DataType /\ m.fd \in [Fds -> FdType] /\ f \in FdType
  BY DEF MemType
<1>3. f.pos \in Nat /\ f.cur \in ClusterNos /\ f.name \in Names \cup {NoName}
  BY <1>2, Sizes DEF FdType
<1>4. off = Off(f.pos) /\ off \in Nat /\ off <= f.pos
  <2>1. off = Off(f.pos) /\ Off(f.pos) \in Bytes /\ At(f.pos) \in Nat
        /\ f.pos = ClusterSize * At(f.pos) + Off(f.pos)
    BY <1>3, Place DEF Off
  <2>2. ClusterSize * At(f.pos) \in Nat
    BY <2>1, Times, Sizes
  <2>3. PICK z \in Nat : z = ClusterSize * At(f.pos)
    BY <2>2
  <2>4. Off(f.pos) \in Nat
    BY <2>1, Sizes DEF Bytes
  <2> QED
    BY <1>3, <2>1, <2>3, <2>4
<1>5. page \in [Bytes -> Marks]
  <2>1. ASSUME NEW b \in Bytes
        PROVE  (IF b \in off..(off + n - 1) THEN << f.name, f.pos + b - off >>
                ELSE m.data[f.cur][b]) \in Marks
    <3>1. CASE b \in off..(off + n - 1)
      <4>1. f.pos + b - off \in 0..MaxFileSize
        BY <1>3, <1>4, <3>1, Sizes
      <4> QED
        BY <1>3, <3>1, <4>1 DEF Marks
    <3>2. CASE b \notin off..(off + n - 1)
      BY <1>2, <1>3, <3>2 DEF DataType
    <3> QED
      BY <3>1, <3>2
  <2> QED
    BY <2>1
<1>6. \A b \in Bytes : page[b] = IF b \in off..(off + n - 1)
                                 THEN << f.name, f.pos + b - off >> ELSE m.data[f.cur][b]
  OBVIOUS
<1> HIDE DEF page, off
<1>7. /\ dt \in DataType /\ dt[f.cur] = page
      /\ \A c \in ClusterNos : c # f.cur => dt[c] = m.data[c]
  BY <1>2, <1>3, <1>5 DEF DataType
<1>8. g \in FdType /\ SameFile(g, f) /\ g.cur = f.cur /\ g.pos = f.pos + n
  BY <1>2, <1>3, Sizes DEF FdType, SameFile
<1>9. t \in [Fds -> FdType] /\ t[d] = g /\ \A e \in Fds : e # d => t[e] = m.fd[e]
  <2> HIDE DEF g
  <2> QED
    BY <1>2, <1>8
<1> HIDE DEF dt, t, g, x
<1>10. /\ x \in MemType /\ x.super = m.super /\ x.fat = m.fat /\ x.dir = m.dir
       /\ x.fd = t /\ x.data = dt
  BY <1>1, <1>7, <1>9 DEF MemType
<1>11. \A b \in Bytes : x.data[f.cur][b] =
         IF b \in Off(f.pos)..(Off(f.pos) + n - 1)
         THEN << f.name, f.pos + b - Off(f.pos) >> ELSE m.data[f.cur][b]
  BY <1>4, <1>6, <1>7, <1>10
<1>12. \A c \in ClusterNos : c # f.cur => x.data[c] = m.data[c]
  BY <1>7, <1>10
<1>13. /\ \A e \in Fds : e # d => x.fd[e] = m.fd[e]
       /\ SameFile(x.fd[d], f) /\ x.fd[d].cur = f.cur /\ x.fd[d].pos = f.pos + n
  BY <1>8, <1>9, <1>10
<1> QED
  BY <1>10, <1>11, <1>12, <1>13 DEF x

LEMMA ExtendIs ==
  ASSUME NEW m \in MemType, m.super.free # 0, NEW d \in Fds, NEW c \in UserClusters
  PROVE  LET x == Extend(m, d, c)
             f == m.fd[d]
         IN  /\ x \in MemType /\ x.dir = m.dir /\ x.data = m.data
             /\ x.super.valid = m.super.valid /\ x.super.free = m.super.free - 1
             /\ \A e \in Fds : e # d => x.fd[e] = m.fd[e]
             /\ x.fd[d].in_use = f.in_use /\ x.fd[d].name = f.name /\ x.fd[d].size = f.size
             /\ x.fd[d].mode = f.mode /\ x.fd[d].modified = f.modified
             /\ x.fd[d].pos = f.pos /\ x.fd[d].cur = c
             /\ x.fd[d].first = IF f.first = 0 THEN c ELSE f.first
             /\ \A e \in ClusterNos :
                  x.fat[e] = IF f.first # 0 /\ e = f.cur THEN c
                             ELSE IF e = c THEN FAT_EOF ELSE m.fat[e]
<1> DEFINE f == m.fd[d]
           sb == [m.super EXCEPT !.free = @ - 1]
           fa == [m.fat EXCEPT ![c] = FAT_EOF]
           ft == IF f.first = 0 THEN fa ELSE [fa EXCEPT ![f.cur] = c]
           g == [f EXCEPT !.first = IF f.first = 0 THEN c ELSE f.first, !.cur = c]
           t == [m.fd EXCEPT ![d] = g]
           a == alloc_cluster(m, c)
           x == Extend(m, d, c)
<1>1. m.super \in SuperType /\ m.fat \in FatType /\ m.fd \in [Fds -> FdType] /\ f \in FdType
  BY DEF MemType
<1>2. f.cur \in ClusterNos /\ f.first \in ClusterNos /\ c \in ClusterNos /\ c \in 0..FAT_EOF
  BY <1>1, FatValues DEF FdType
<1>3. sb \in SuperType /\ sb.valid = m.super.valid /\ sb.free = m.super.free - 1
  BY <1>1 DEF SuperType
<1>4. /\ ft \in FatType
      /\ \A e \in ClusterNos :
           ft[e] = IF f.first # 0 /\ e = f.cur THEN c ELSE IF e = c THEN FAT_EOF ELSE m.fat[e]
  BY <1>1, <1>2, FatValues DEF FatType
<1>5. /\ g \in FdType
      /\ g.in_use = f.in_use /\ g.name = f.name /\ g.size = f.size /\ g.mode = f.mode
      /\ g.modified = f.modified /\ g.pos = f.pos /\ g.cur = c
      /\ g.first = IF f.first = 0 THEN c ELSE f.first
  BY <1>1, <1>2 DEF FdType
<1>6. t \in [Fds -> FdType] /\ t[d] = g /\ \A e \in Fds : e # d => t[e] = m.fd[e]
  <2> HIDE DEF g
  <2> QED
    BY <1>1, <1>5
<1>7. /\ a \in MemType /\ a.dir = m.dir /\ a.data = m.data /\ a.fd = m.fd
      /\ a.super = sb /\ a.fat = fa
  <2>1. a = [m EXCEPT !.fat = fa, !.super = sb]
    BY DEF alloc_cluster
  <2>2. fa \in FatType
    BY <1>1, <1>2, FatValues DEF FatType
  <2> HIDE DEF fa, sb, a
  <2> QED
    BY <1>3, <2>1, <2>2 DEF MemType
<1>8. /\ x \in MemType /\ x.dir = m.dir /\ x.data = m.data /\ x.fd = t
      /\ x.super = sb /\ x.fat = ft
  <2>1. CASE f.first = 0
    <3>1. x = [a EXCEPT !.fd[d].first = c, !.fd[d].cur = c]
      BY <2>1 DEF Extend
    <3>2. PICK y : y = a
      OBVIOUS
    <3>3. x = [y EXCEPT !.fd[d].first = c, !.fd[d].cur = c]
      BY <3>1, <3>2
    <3> HIDE DEF x, a, sb, fa
    <3>4. y \in MemType /\ y.fd = m.fd
      BY <1>7, <3>2
    <3>5. x = [y EXCEPT !.fd = t]
      BY <1>1, <2>1, <3>3, <3>4 DEF FdType, MemType
    <3> HIDE DEF t
    <3> QED
      BY <1>6, <1>7, <2>1, <3>2, <3>4, <3>5 DEF MemType
  <2>2. CASE f.first # 0
    <3>1. x = [fat_write(a, f.cur, c) EXCEPT !.fd[d].cur = c]
      BY <2>2 DEF Extend
    <3>2. PICK y : y = fat_write(a, f.cur, c)
      OBVIOUS
    <3>3. PICK z : z = a
      OBVIOUS
    <3>4. y = [z EXCEPT !.fat = ft]
      <4>1. f.cur < Clusters
        BY <1>2, Sizes DEF ClusterNos
      <4> HIDE DEF a, fa, sb
      <4> QED
        BY <1>7, <2>2, <3>2, <3>3, <4>1 DEF fat_write
    <3> HIDE DEF a, ft, sb, fa
    <3>5. /\ y \in MemType /\ y.dir = m.dir /\ y.data = m.data /\ y.fd = m.fd
          /\ y.super = sb /\ y.fat = ft
      BY <1>4, <1>7, <3>3, <3>4 DEF MemType
    <3>6. x = [y EXCEPT !.fd[d].cur = c]
      BY <3>1, <3>2
    <3> HIDE DEF x
    <3>7. x = [y EXCEPT !.fd = t]
      BY <1>1, <2>2, <3>5, <3>6 DEF FdType, MemType
    <3> HIDE DEF t
    <3> QED
      BY <1>6, <3>5, <3>7 DEF MemType
  <2> QED
    BY <2>1, <2>2
<1> HIDE DEF x, t, sb, ft
<1> QED
  BY <1>3, <1>4, <1>5, <1>6, <1>8 DEF x

----------------------------------------------------------------------------
(***************************************************************************)
(* A turn of fs_write.  In a Ready memory the next byte's cluster is the   *)
(* current one.                                                            *)
(***************************************************************************)
Ready(m, Q, d, s0) ==
  /\ m \in MemType /\ Q \in ChainsType /\ d \in Fds /\ s0 \in DirSlots
  /\ Apart(Q) /\ Linked(m.fat, Q) /\ ReservedOK(m.fat)
  /\ OneSlot(m) /\ OneWriter(m) /\ Housed(m) /\ SlotsOK(m, Q)
  /\ \A x \in Fds, s \in DirSlots : x # d /\ HasFd(m, x, s) => FdOK(m.fd[x], m.dir[s], Q[s])
  /\ Writes(m, d, s0) /\ Behind(m.fd[d], m.dir[s0])
  /\ At(m.fd[d].pos) + 1 \in 1..Len(Q[s0])
  /\ m.fd[d].cur = Q[s0][At(m.fd[d].pos) + 1]
NearlyClean(m, Q, d, s0) ==
  /\ Kept(m.fat, Q) /\ Counted(m)
  /\ \A s \in DirSlots :
       /\ Unwritten(m, s) => Len(Q[s]) <= Need(m.dir[s].size)
       /\ \A x \in Fds : x # d /\ Writes(m, x, s) => Len(Q[s]) <= Need(Extent(m.fd[x]))
  /\ Len(Q[s0]) <= Need(Extent(m.fd[d])) \/ Len(Q[s0]) <= At(m.fd[d].pos) + 1

\* What a file's writer has is the file's.
LEMMA WriterIs ==
  ASSUME NEW m, OneSlot(m), OneWriter(m), Housed(m),
         NEW d \in Fds, NEW s0 \in DirSlots, Writes(m, d, s0)
  PROVE  /\ InUse(m, s0) /\ m.fd[d].in_use /\ m.fd[d].name = m.dir[s0].name
         /\ m.fd[d].name # NoName
         /\ \A s \in DirSlots : HasFd(m, d, s) => s = s0
         /\ \A x \in Fds : HasFd(m, x, s0) => x = d
<1>1. /\ m.fd[d].in_use /\ m.fd[d].name = m.dir[s0].name /\ m.fd[d].mode # READ
  BY DEF Writes, HasFd
<1>2. InUse(m, s0) /\ m.fd[d].name # NoName
  BY <1>1 DEF Housed, InUse
<1>3. \A s \in DirSlots : HasFd(m, d, s) => s = s0
  BY <1>1, <1>2 DEF HasFd, OneSlot
<1>4. \A x \in Fds : HasFd(m, x, s0) => x = d
  BY <1>1 DEF HasFd, OneWriter
<1> QED
  BY <1>1, <1>2, <1>3, <1>4

LEMMA ReadyStay ==
  ASSUME NEW m, NEW Q, Files(m, Q), NEW d \in Fds, NEW s0 \in DirSlots, Writes(m, d, s0),
         ~ NeedsCluster(m.fd[d])
  PROVE  Ready(m, Q, d, s0) /\ (Clean(m, Q) => NearlyClean(m, Q, d, s0))
<1> DEFINE f == m.fd[d]
           q == Q[s0]
<1>1. HasFd(m, d, s0) /\ f.mode # READ
  BY DEF Writes
<1>2. FdOK(f, m.dir[s0], q) /\ CursorOK(f, q) /\ Behind(f, m.dir[s0]) /\ Starts(q, f.first)
  BY <1>1, FdStarts DEF Files, FdsOK, FdOK
<1>3. f.pos \in Nat /\ Len(q) \in Nat
  BY FilesTypes
<1>4. At(f.pos) \in Nat /\ Off(f.pos) \in Nat
  <2>1. At(f.pos) \in Nat /\ Off(f.pos) \in Bytes
    BY <1>3, Place
  <2> QED
    BY <2>1, Sizes DEF Bytes
<1>5. f.cur # 0 /\ (f.pos # 0 => Off(f.pos) # 0)
  BY <1>3 DEF NeedsCluster, AtBoundary, Off
<1>6. At(f.pos) + 1 \in 1..Len(q) /\ f.cur = q[At(f.pos) + 1]
  <2>1. CASE f.pos = 0
    <3>1. f.cur = f.first
      BY <1>2, <2>1 DEF CursorOK
    <3>2. Len(q) # 0 /\ f.cur = q[1]
      BY <1>2, <1>5, <3>1 DEF Starts
    <3>3. At(f.pos) = 0
      <4>1. 0 = ClusterSize * 0 + 0 /\ 0 \in Bytes
        BY Sizes DEF Bytes
      <4> QED
        BY <2>1, <4>1, PlaceIs
    <3> QED
      BY <1>3, <3>2, <3>3
  <2>2. CASE f.pos # 0
    <3>1. Need(f.pos) = At(f.pos) + 1
      <4>1. 1 <= ClusterSize - Off(f.pos)
        <5>1. Off(f.pos) \in Bytes
          BY <1>3, Place
        <5> QED
          BY <5>1, Sizes DEF Bytes
      <4> QED
        BY <1>3, <1>5, <2>2, <4>1, NeedAfter
    <3> QED
      BY <1>2, <1>3, <1>4, <2>2, <3>1 DEF CursorOK
  <2> QED
    BY <2>1, <2>2
<1>7. Ready(m, Q, d, s0)
  BY <1>2, <1>6 DEF Files, Ready, FdsOK
<1>8. ASSUME Clean(m, Q) PROVE NearlyClean(m, Q, d, s0)
  <2>1. Len(q) <= Need(Extent(f))
    BY <1>8 DEF Clean, Tight
  <2> QED
    BY <1>8, <2>1 DEF Clean, Tight, NearlyClean
<1> QED
  BY <1>7, <1>8

\* The chain that Extend makes.
Extended(q, k, c) == [i \in 1..(k + 1) |-> IF i <= k THEN q[i] ELSE c]

LEMMA ExtendedIs ==
  ASSUME NEW q \in Seq(UserClusters), NEW k \in Nat, k <= Len(q), NEW c \in UserClusters
  PROVE  /\ Extended(q, k, c) \in Seq(UserClusters) /\ Len(Extended(q, k, c)) = k + 1
         /\ Extended(q, k, c)[k + 1] = c
         /\ \A i \in 1..k : Extended(q, k, c)[i] = q[i]
<1> DEFINE r == Extended(q, k, c)
<1>1. \A i \in 1..(k + 1) : (IF i <= k THEN q[i] ELSE c) \in UserClusters
  OBVIOUS
<1>2. r \in [1..(k + 1) -> UserClusters]
  BY <1>1 DEF Extended
<1>3. r \in Seq(UserClusters) /\ Len(r) = k + 1
  BY <1>2
<1>4. r[k + 1] = c /\ \A i \in 1..k : r[i] = q[i]
  BY DEF Extended
<1> QED
  BY <1>3, <1>4


\* A writer that needs a cluster stands behind the last byte of its file, and
\* its current cluster is the k-th, where k clusters are full.
LEMMA NeedsIs ==
  ASSUME NEW m, NEW Q, Files(m, Q), NEW d \in Fds, NEW s0 \in DirSlots, Writes(m, d, s0),
         NeedsCluster(m.fd[d])
  PROVE  LET f == m.fd[d]
             q == Q[s0]
             k == At(f.pos)
         IN  /\ k \in Nat /\ k <= Len(q) /\ Need(f.pos) = k /\ Extent(f) = f.pos
             /\ k = 0 => Len(q) = 0 /\ f.first = 0
             /\ k # 0 => f.cur = q[k] /\ f.first = q[1] /\ f.first # 0
<1> DEFINE f == m.fd[d]
           q == Q[s0]
           k == At(f.pos)
<1>1. HasFd(m, d, s0) /\ f.mode # READ
  BY DEF Writes
<1>2. CursorOK(f, q) /\ Behind(f, m.dir[s0]) /\ Starts(q, f.first)
  BY <1>1, FdStarts DEF Files, FdsOK, FdOK
<1>3. Holds(m.data, q, m.dir[s0].name, f.first, Extent(f))
  BY DEF Files, SlotsOK, SlotOK
<1>4. /\ f.pos \in Nat /\ f.size \in Nat /\ Len(q) \in Nat
      /\ \A i \in 1..Len(q) : q[i] \in UserClusters
  BY FilesTypes
<1>5. /\ k \in Nat /\ Off(f.pos) \in Bytes /\ f.pos = ClusterSize * k + Off(f.pos)
      /\ Need(f.pos) \in Nat /\ (Need(f.pos) = 0 <=> f.pos = 0)
  BY <1>4, Place, NeedIs
<1>6. CASE AtBoundary(f)
  <2>1. Off(f.pos) = 0 /\ f.pos # 0
    BY <1>4, <1>6 DEF AtBoundary, Off
  <2>2. Need(f.pos) = k
    <3>1. 1 <= ClusterSize - Off(f.pos)
      BY <2>1, Sizes
    <3> QED
      BY <1>4, <2>1, <3>1, NeedAfter
  <2>3. k # 0 /\ k <= Len(q) /\ f.cur = q[k]
    BY <1>2, <1>4, <1>5, <2>1, <2>2 DEF CursorOK
  <2>4. f.first = q[1] /\ f.first # 0
    BY <1>2, <1>4, <1>5, <2>3, FatValues DEF Starts
  <2>5. Extent(f) = f.pos
    <3>1. ClusterSize * 1 <= ClusterSize * k
      BY <1>5, <2>3, TimesOrder, Sizes
    <3>2. ClusterSize <= f.pos
      <4>1. PICK z \in Nat : z = ClusterSize * k
        BY <1>5, Times, Sizes
      <4>2. ClusterSize * 1 = ClusterSize
        BY Sizes
      <4> QED
        BY <1>5, <2>1, <3>1, <4>1, <4>2, Sizes
    <3> QED
      BY <1>2, <1>4, <3>2, Sizes DEF Behind, Extent
  <2> HIDE DEF k, q, f
  <2> QED
    BY <1>5, <2>2, <2>3, <2>4, <2>5 DEF k, q, f
<1>7. CASE f.cur = 0
  <2>1. f.pos = 0
    <3> SUFFICES ASSUME f.pos # 0 PROVE FALSE
      OBVIOUS
    <3>1. f.cur = q[Need(f.pos)] /\ Need(f.pos) \in 1..Len(q)
      BY <1>2, <1>4, <1>5 DEF CursorOK
    <3> QED
      BY <1>4, <1>7, <3>1, FatValues
  <2>2. f.first = 0 /\ Len(q) = 0
    <3>1. f.first = 0
      BY <1>2, <1>7, <2>1 DEF CursorOK
    <3>2. Len(q) # 0 => 1 \in 1..Len(q)
      BY <1>4
    <3> QED
      BY <1>2, <1>4, <3>1, <3>2, FatValues DEF Starts
  <2>3. k = 0
    <3>1. 0 = ClusterSize * 0 + 0 /\ 0 \in Bytes
      BY Sizes DEF Bytes
    <3> QED
      BY <2>1, <3>1, PlaceIs
  <2>4. Extent(f) = 0
    <3>1. Need(Extent(f)) <= 0 /\ Extent(f) \in Nat
      BY <1>3, <1>4, <2>2 DEF Holds, Extent
    <3>2. Need(Extent(f)) \in Nat /\ (Need(Extent(f)) = 0 <=> Extent(f) = 0)
      BY <3>1, NeedIs
    <3> QED
      BY <3>1, <3>2
  <2> HIDE DEF k, q, f
  <2> QED
    BY <1>5, <2>1, <2>2, <2>3, <2>4 DEF k, q, f
<1> QED
  BY <1>6, <1>7 DEF NeedsCluster

LEMMA ReadyExtend ==
  ASSUME NEW m, NEW Q, Files(m, Q), NEW d \in Fds, NEW s0 \in DirSlots, Writes(m, d, s0),
         NeedsCluster(m.fd[d]), m.super.free # 0, NEW c \in ClusterNos, m.fat[c] = FAT_FREE,
         NEW P, P = [Q EXCEPT ![s0] = Extended(Q[s0], At(m.fd[d].pos), c)]
  PROVE  /\ c \in UserClusters
         /\ Ready(Extend(m, d, c), P, d, s0)
         /\ Clean(m, Q) => NearlyClean(Extend(m, d, c), P, d, s0)
<1> DEFINE f == m.fd[d]
           q == Q[s0]
           r == P[s0]
           k == At(f.pos)
<1>1. m \in MemType /\ Q \in ChainsType
  BY DEF Files
<1>2. c \in UserClusters
  <2>1. c # 0 /\ c # 1
    BY DEF Files, ReservedOK
  <2> QED
    BY <2>1, Sizes DEF ClusterNos, UserClusters
<1>3. /\ k \in Nat /\ k <= Len(q) /\ Need(f.pos) = k /\ Extent(f) = f.pos
      /\ k = 0 => Len(q) = 0 /\ f.first = 0
      /\ k # 0 => f.cur = q[k] /\ f.first = q[1] /\ f.first # 0
  BY NeedsIs
<1>4. /\ Len(q) \in Nat /\ q \in Seq(UserClusters) /\ f.pos \in Nat /\ f.size \in Nat
      /\ \A s \in DirSlots : \A i \in 1..Len(Q[s]) :
           Q[s][i] \in UserClusters /\ Q[s][i] \in ClusterNos
  BY FilesTypes
<1>5. /\ r \in Seq(UserClusters) /\ Len(r) = k + 1 /\ r[k + 1] = c
      /\ \A i \in 1..k : r[i] = q[i]
      /\ P \in ChainsType /\ \A s \in DirSlots : s # s0 => P[s] = Q[s]
  <2>1. PICK e : e = Extended(q, k, c)
    OBVIOUS
  <2>2. e \in Seq(UserClusters) /\ Len(e) = k + 1 /\ e[k + 1] = c /\ \A i \in 1..k : e[i] = q[i]
    <3>1. PICK z \in Nat : z = k
      BY <1>3
    <3>2. z <= Len(q) /\ e = Extended(q, z, c)
      BY <1>3, <2>1, <3>1
    <3>3. e \in Seq(UserClusters) /\ Len(e) = z + 1 /\ e[z + 1] = c /\ \A i \in 1..z : e[i] = q[i]
      BY <1>2, <1>4, <3>2, ExtendedIs
    <3> QED
      BY <3>1, <3>3
  <2>3. P = [Q EXCEPT ![s0] = e]
    BY <2>1
  <2>4. P[s0] = e /\ P \in ChainsType /\ \A s \in DirSlots : s # s0 => P[s] = Q[s]
    BY <1>1, <2>2, <2>3 DEF ChainsType
  <2> QED
    BY <2>2, <2>4
<1> HIDE DEF k
<1>6. PICK x : x = Extend(m, d, c)
  OBVIOUS
<1>7. /\ x \in MemType /\ x.dir = m.dir /\ x.data = m.data
      /\ x.super.valid = m.super.valid /\ x.super.free = m.super.free - 1
      /\ \A e \in Fds : e # d => x.fd[e] = m.fd[e]
      /\ x.fd[d].in_use = f.in_use /\ x.fd[d].name = f.name /\ x.fd[d].size = f.size
      /\ x.fd[d].mode = f.mode /\ x.fd[d].modified = f.modified
      /\ x.fd[d].pos = f.pos /\ x.fd[d].cur = c
      /\ x.fd[d].first = IF f.first = 0 THEN c ELSE f.first
      /\ \A e \in ClusterNos :
           x.fat[e] = IF f.first # 0 /\ e = f.cur THEN c
                      ELSE IF e = c THEN FAT_EOF ELSE m.fat[e]
  BY <1>1, <1>2, <1>6, ExtendIs
<1>8. \A s \in DirSlots : \A i \in 1..Len(Q[s]) : Q[s][i] # c
  BY FilesTypes, LeadsTaken
<1>9. /\ InUse(m, s0) /\ \A s \in DirSlots : HasFd(m, d, s) => s = s0
      /\ \A e \in Fds : HasFd(m, e, s0) => e = d
  BY WriterIs DEF Files
<1>10. \A e \in Fds, s \in DirSlots :
         /\ HasFd(x, e, s) <=> HasFd(m, e, s)
         /\ Writes(x, e, s) <=> Writes(m, e, s)
  <2>1. \A e \in Fds : /\ x.fd[e].in_use = m.fd[e].in_use /\ x.fd[e].name = m.fd[e].name
                       /\ x.fd[e].mode = m.fd[e].mode
    BY <1>7
  <2> QED
    BY <1>7, <2>1 DEF HasFd, Writes
<1>11. \A s \in DirSlots : (InUse(x, s) <=> InUse(m, s)) /\ (Unwritten(x, s) <=> Unwritten(m, s))
  BY <1>7, <1>10 DEF InUse, Unwritten
<1>12. Apart(P)
  <2> SUFFICES ASSUME NEW s \in DirSlots, NEW t \in DirSlots, NEW i \in 1..Len(P[s]),
                      NEW j \in 1..Len(P[t]), P[s][i] = P[t][j]
               PROVE  s = t /\ i = j
    BY DEF Apart
  <2>1. \A u \in DirSlots : \A n \in 1..Len(P[u]) :
          \/ n \in 1..Len(Q[u]) /\ P[u][n] = Q[u][n] /\ P[u][n] # c
          \/ u = s0 /\ n = k + 1 /\ P[u][n] = c
    <3> SUFFICES ASSUME NEW u \in DirSlots, NEW n \in 1..Len(P[u])
                 PROVE  \/ n \in 1..Len(Q[u]) /\ P[u][n] = Q[u][n] /\ P[u][n] # c
                        \/ u = s0 /\ n = k + 1 /\ P[u][n] = c
      OBVIOUS
    <3>1. CASE u # s0
      BY <1>5, <1>8, <3>1
    <3>2. CASE u = s0 /\ n = k + 1
      BY <1>5, <3>2
    <3>3. CASE u = s0 /\ n # k + 1
      <4>1. n \in 1..k /\ n \in 1..Len(q)
        BY <1>3, <1>4, <1>5, <3>3
      <4> QED
        BY <1>5, <1>8, <3>3, <4>1
    <3> QED
      BY <3>1, <3>2, <3>3
  <2>2. CASE P[s][i] = c
    BY <2>1, <2>2
  <2>3. CASE P[s][i] # c
    BY <2>1, <2>3 DEF Files, Apart
  <2> QED
    BY <2>2, <2>3
<1>13. f.first # 0 => f.cur = q[k] /\ k \in 1..Len(q)
  BY <1>3, <1>4
<1>14. Linked(x.fat, P)
  <2>1. Leads(x.fat, r)
    <3> SUFFICES ASSUME NEW i \in 1..Len(r)
                 PROVE  x.fat[r[i]] = IF i = Len(r) THEN FAT_EOF ELSE r[i + 1]
      BY DEF Leads
    <3>1. CASE i = k + 1
      BY <1>5, <1>7, <1>8, <1>13, <3>1
    <3>2. CASE i = k
      <4>1. k # 0 /\ r[i] = q[k] /\ k \in 1..Len(q)
        BY <1>3, <1>4, <1>5, <3>2
      <4>2. f.first # 0 /\ f.cur = q[k] /\ q[k] \in ClusterNos
        BY <1>3, <1>4, <4>1
      <4> QED
        BY <1>5, <1>7, <3>2, <4>1, <4>2
    <3>3. CASE i # k /\ i # k + 1
      <4>1. i \in 1..k /\ i + 1 \in 1..k /\ i \in 1..Len(q) /\ i # Len(q)
        <5>1. PICK y \in Nat : y = Len(q) /\ k <= y
          BY <1>3, <1>4
        <5>2. i \in Nat /\ 1 <= i /\ i <= k + 1 /\ k \in Nat
          BY <1>3, <1>5
        <5>3. i < k
          BY <3>3, <5>2
        <5> QED
          BY <5>1, <5>2, <5>3
      <4>2. r[i] = q[i] /\ r[i + 1] = q[i + 1] /\ i # Len(r)
        BY <1>5, <3>3, <4>1
      <4>3. m.fat[q[i]] = q[i + 1]
        BY <4>1 DEF Files, Linked, Leads
      <4>4. q[i] # c /\ (f.first # 0 => q[i] # f.cur)
        BY <1>8, <1>13, <3>3, <4>1 DEF Files, Apart
      <4> QED
        BY <1>4, <1>7, <4>1, <4>2, <4>3, <4>4
    <3> QED
      BY <3>1, <3>2, <3>3
  <2>2. ASSUME NEW s \in DirSlots, s # s0 PROVE Leads(x.fat, Q[s])
    <3> SUFFICES ASSUME NEW i \in 1..Len(Q[s])
                 PROVE  x.fat[Q[s][i]] = IF i = Len(Q[s]) THEN FAT_EOF ELSE Q[s][i + 1]
      BY DEF Leads
    <3>1. Q[s][i] # c /\ (f.first # 0 => Q[s][i] # f.cur) /\ Q[s][i] \in ClusterNos
      BY <1>4, <1>8, <1>13, <2>2 DEF Files, Apart
    <3>2. m.fat[Q[s][i]] = IF i = Len(Q[s]) THEN FAT_EOF ELSE Q[s][i + 1]
      BY DEF Files, Linked, Leads
    <3> QED
      BY <1>7, <3>1, <3>2
  <2> QED
    BY <1>5, <2>1, <2>2 DEF Linked
<1>15. ReservedOK(x.fat)
  BY <1>2, <1>4, <1>7, <1>13, FatValues DEF Files, ReservedOK
<1>16. SlotsOK(x, P)
  <2> SUFFICES ASSUME NEW s \in DirSlots PROVE SlotOK(x, P[s], s)
    BY DEF SlotsOK
  <2>1. SlotOK(m, Q[s], s)
    BY DEF Files, SlotsOK
  <2>2. CASE s # s0
    <3>1. P[s] = Q[s] /\ \A e \in Fds : Writes(m, e, s) => x.fd[e] = m.fd[e]
      BY <1>5, <1>7, <1>9, <2>2 DEF Writes
    <3> QED
      BY <1>7, <1>10, <1>11, <2>1, <3>1 DEF SlotOK
  <2>3. CASE s = s0
    <3>1. \A e \in Fds : Writes(x, e, s) => e = d
      BY <1>9, <1>10, <2>3 DEF Writes
    <3>2. Extent(x.fd[d]) = f.pos
      BY <1>3, <1>7 DEF Extent
    <3>3. Holds(m.data, q, m.dir[s].name, f.first, f.pos)
      BY <1>3, <2>1, <2>3 DEF SlotOK
    <3>4. Starts(r, x.fd[d].first)
      BY <1>3, <1>5, <1>7 DEF Starts
    <3>5. Need(f.pos) <= Len(r)
      BY <1>3, <1>5
    <3>6. BytesAt(m.data, r, m.dir[s].name, f.pos)
      <4> SUFFICES ASSUME NEW i \in 0..(f.pos - 1)
                   PROVE  m.data[r[At(i) + 1]][Off(i)] = << m.dir[s].name, i >>
        BY DEF BytesAt
      <4>1. i \in Nat /\ i < f.pos
        BY <1>4
      <4>2. At(i) \in Nat /\ At(i) + 1 <= Need(f.pos)
        BY <1>4, <4>1, ByteFits
      <4>3. At(i) + 1 \in 1..k
        BY <1>3, <4>2
      <4>4. m.data[q[At(i) + 1]][Off(i)] = << m.dir[s].name, i >>
        BY <3>3 DEF Holds, BytesAt
      <4> QED
        BY <1>5, <4>3, <4>4
    <3>7. Holds(x.data, r, x.dir[s].name, x.fd[d].first, Extent(x.fd[d]))
      BY <1>7, <3>2, <3>4, <3>5, <3>6 DEF Holds
    <3>8. InUse(x, s) /\ ~ Unwritten(x, s)
      BY <1>9, <1>10, <1>11, <2>3 DEF Unwritten
    <3> QED
      BY <2>3, <3>1, <3>7, <3>8 DEF SlotOK
  <2> QED
    BY <2>2, <2>3
<1>17. ASSUME NEW e \in Fds, NEW s \in DirSlots, e # d, HasFd(x, e, s)
       PROVE  FdOK(x.fd[e], x.dir[s], P[s])
  <2>1. HasFd(m, e, s) /\ s # s0
    BY <1>9, <1>10, <1>17
  <2> QED
    BY <1>5, <1>7, <1>17, <2>1 DEF Files, FdsOK
<1>18. OneSlot(x) /\ OneWriter(x) /\ Housed(x)
  <2>1. \A e \in Fds : /\ x.fd[e].in_use = m.fd[e].in_use /\ x.fd[e].name = m.fd[e].name
                       /\ x.fd[e].mode = m.fd[e].mode
    BY <1>7
  <2> QED
    BY <1>7, <2>1 DEF Files, OneSlot, InUse, OneWriter, Housed
<1>19. Behind(x.fd[d], x.dir[s0])
  <2>1. Behind(f, m.dir[s0])
    BY DEF Files, FdsOK, FdOK, Writes
  <2> QED
    BY <1>7, <2>1 DEF Behind
<1>20. Writes(x, d, s0) /\ At(x.fd[d].pos) + 1 \in 1..Len(r) /\ x.fd[d].cur = r[At(x.fd[d].pos) + 1]
  BY <1>3, <1>5, <1>7, <1>10 DEF k
<1>21. Ready(x, P, d, s0)
  BY <1>5, <1>7, <1>12, <1>14, <1>15, <1>16, <1>17, <1>18, <1>19, <1>20 DEF Ready
<1>22. ASSUME Clean(m, Q) PROVE NearlyClean(x, P, d, s0)
  <2>1. Len(q) <= k
    BY <1>3, <1>22 DEF Clean, Tight
  <2>2. Kept(x.fat, P)
    <3> SUFFICES ASSUME NEW e \in UserClusters, x.fat[e] # FAT_FREE
                 PROVE  \E s \in DirSlots : \E i \in 1..Len(P[s]) : P[s][i] = e
      BY DEF Kept
    <3>1. CASE e = c
      <4>1. k + 1 \in 1..Len(r)
        BY <1>3, <1>5
      <4> QED
        BY <1>5, <3>1, <4>1
    <3>2. CASE e # c
      <4>1. e \in ClusterNos
        BY FatValues
      <4>2. m.fat[e] # FAT_FREE
        <5>1. CASE f.first # 0 /\ e = f.cur
          BY <1>13, <5>1, FilesTypes, LeadsTaken
        <5>2. CASE ~ (f.first # 0 /\ e = f.cur)
          BY <1>7, <3>2, <4>1, <5>2
        <5> QED
          BY <5>1, <5>2
      <4>3. PICK s \in DirSlots : \E i \in 1..Len(Q[s]) : Q[s][i] = e
        BY <1>22, <4>2 DEF Clean, Kept
      <4>4. PICK i \in 1..Len(Q[s]) : Q[s][i] = e
        BY <4>3
      <4>5. CASE s # s0
        BY <1>5, <4>4, <4>5
      <4>6. CASE s = s0
        <5>1. i \in 1..k /\ i \in 1..Len(r)
          BY <1>3, <1>4, <1>5, <2>1, <4>6
        <5> QED
          BY <1>5, <4>4, <4>6, <5>1
      <4> QED
        BY <4>5, <4>6
    <3> QED
      BY <3>1, <3>2
  <2>3. Counted(x)
    <3> DEFINE A == FreeClusters(m.fat)
    <3>1. FreeClusters(x.fat) = A \ {c}
      <4>1. \A e \in ClusterNos : x.fat[e] = FAT_FREE <=> m.fat[e] = FAT_FREE /\ e # c
        <5> SUFFICES ASSUME NEW e \in ClusterNos
                     PROVE  x.fat[e] = FAT_FREE <=> m.fat[e] = FAT_FREE /\ e # c
          OBVIOUS
        <5>1. CASE f.first # 0 /\ e = f.cur
          BY <1>2, <1>7, <1>13, <5>1, FatValues, FilesTypes, LeadsTaken
        <5>2. CASE ~ (f.first # 0 /\ e = f.cur)
          BY <1>7, <5>2, FatValues
        <5> QED
          BY <5>1, <5>2
      <4> QED
        BY <4>1 DEF FreeClusters
    <3>2. c \in A
      BY DEF FreeClusters
    <3>3. IsFiniteSet(A)
      <4>1. IsFiniteSet(ClusterNos)
        BY NosFinite
      <4> QED
        BY <4>1, FS_Subset DEF FreeClusters
    <3> HIDE DEF A
    <3>4. Cardinality(A \ {c}) = Cardinality(A) - 1 /\ Cardinality(A) \in Nat
      BY <3>2, <3>3, FS_RemoveElement, FS_CardinalityType
    <3>5. PICK a \in Nat : a = Cardinality(A)
      BY <3>4
    <3>6. m.super.free = a + 2
      BY <1>22, <3>5 DEF Clean, Counted, A
    <3>7. x.super.free = (a - 1) + 2
      BY <1>7, <3>6
    <3> QED
      BY <3>1, <3>4, <3>5, <3>7 DEF Counted
  <2>4. ASSUME NEW s \in DirSlots
        PROVE  /\ Unwritten(x, s) => Len(P[s]) <= Need(x.dir[s].size)
               /\ \A e \in Fds : e # d /\ Writes(x, e, s) => Len(P[s]) <= Need(Extent(x.fd[e]))
    <3>1. CASE s = s0
      BY <1>9, <1>10, <3>1 DEF Unwritten, Writes
    <3>2. CASE s # s0
      BY <1>5, <1>7, <1>10, <1>11, <1>22, <3>2 DEF Clean, Tight
    <3> QED
      BY <3>1, <3>2
  <2>5. Len(r) <= At(x.fd[d].pos) + 1
    BY <1>3, <1>5, <1>7 DEF k
  <2> QED
    BY <2>2, <2>3, <2>4, <2>5 DEF NearlyClean
<1> QED
  BY <1>2, <1>6, <1>21, <1>22


LEMMA ReadyTypes ==
  ASSUME NEW m, NEW Q, NEW d, NEW s0, Ready(m, Q, d, s0)
  PROVE  /\ m.fd[d].pos \in Nat /\ m.fd[d].size \in Nat /\ m.fd[d].size <= MaxFileSize
         /\ \A s \in DirSlots :
              /\ Q[s] \in Seq(UserClusters) /\ Len(Q[s]) \in Nat /\ m.dir[s].size \in Nat
              /\ \A i \in 1..Len(Q[s]) : Q[s][i] \in UserClusters /\ Q[s][i] \in ClusterNos
              /\ Leads(m.fat, Q[s])
         /\ \A x \in Fds : Extent(m.fd[x]) \in Nat
<1>1. m \in MemType /\ Q \in ChainsType /\ d \in Fds
  BY DEF Ready
<1>2. ASSUME NEW x \in Fds
      PROVE  /\ m.fd[x].pos \in Nat /\ m.fd[x].size \in Nat /\ m.fd[x].size <= MaxFileSize
             /\ Extent(m.fd[x]) \in Nat
  <2>1. m.fd[x] \in FdType
    BY <1>1 DEF MemType
  <2>2. m.fd[x].pos \in Nat /\ m.fd[x].size \in Nat /\ m.fd[x].size <= MaxFileSize
    BY <2>1, Sizes DEF FdType
  <2> QED
    BY <2>2 DEF Extent
<1>3. ASSUME NEW s \in DirSlots
      PROVE  /\ Q[s] \in Seq(UserClusters) /\ Len(Q[s]) \in Nat /\ m.dir[s].size \in Nat
             /\ \A i \in 1..Len(Q[s]) : Q[s][i] \in UserClusters /\ Q[s][i] \in ClusterNos
             /\ Leads(m.fat, Q[s])
  <2>1. Q[s] \in Seq(UserClusters) /\ Leads(m.fat, Q[s])
    BY <1>1 DEF ChainsType, Ready, Linked
  <2>2. Len(Q[s]) \in Nat /\ \A i \in 1..Len(Q[s]) : Q[s][i] \in UserClusters
    BY <2>1
  <2>3. m.dir[s].size \in Nat
    BY <1>1, Sizes DEF MemType, DirType
  <2> QED
    BY <2>1, <2>2, <2>3, FatValues
<1> QED
  BY <1>1, <1>2, <1>3

LEMMA StoreOK ==
  ASSUME NEW m, NEW Q, NEW d \in Fds, NEW s0 \in DirSlots, Ready(m, Q, d, s0),
         NEW n \in Nat, n > 0,
         n <= ClusterSize - Off(m.fd[d].pos), m.fd[d].pos + n <= MaxFileSize
  PROVE  /\ Files(Store(m, d, n), Q)
         /\ NearlyClean(m, Q, d, s0) => Clean(Store(m, d, n), Q)
<1> DEFINE f == m.fd[d]
           q == Q[s0]
           k == At(f.pos)
           name == m.dir[s0].name
<1>1. m \in MemType /\ Writes(m, d, s0) /\ OneSlot(m) /\ OneWriter(m) /\ Housed(m)
  BY DEF Ready
<1>2. /\ InUse(m, s0) /\ f.in_use /\ f.name = name /\ f.name # NoName
      /\ \A s \in DirSlots : HasFd(m, d, s) => s = s0
      /\ \A x \in Fds : HasFd(m, x, s0) => x = d
  BY <1>1, WriterIs
<1>3. /\ f.pos \in Nat /\ f.size \in Nat /\ Len(q) \in Nat /\ q \in Seq(UserClusters)
      /\ \A s \in DirSlots : /\ Len(Q[s]) \in Nat
                             /\ \A i \in 1..Len(Q[s]) : Q[s][i] \in UserClusters /\ Q[s][i] \in ClusterNos
  BY ReadyTypes
<1>4. k \in Nat /\ k + 1 \in 1..Len(q) /\ f.cur = q[k + 1] /\ f.cur \in ClusterNos
  <2>1. k \in Nat
    BY <1>3, Place
  <2>2. k + 1 \in 1..Len(q) /\ f.cur = q[k + 1]
    BY DEF Ready
  <2> QED
    BY <1>3, <2>1, <2>2
<1>5. PICK x : x = Store(m, d, n)
  OBVIOUS
<1>6. /\ x \in MemType /\ x.super = m.super /\ x.fat = m.fat /\ x.dir = m.dir
      /\ \A e \in Fds : e # d => x.fd[e] = m.fd[e]
      /\ SameFile(x.fd[d], f) /\ x.fd[d].cur = f.cur /\ x.fd[d].pos = f.pos + n
      /\ \A c \in ClusterNos : c # f.cur => x.data[c] = m.data[c]
      /\ \A b \in Bytes : x.data[f.cur][b] =
           IF b \in Off(f.pos)..(Off(f.pos) + n - 1)
           THEN << f.name, f.pos + b - Off(f.pos) >> ELSE m.data[f.cur][b]
  BY <1>1, <1>2, <1>5, StoreIs
<1>7. /\ Need(f.pos + n) = k + 1
      /\ \A i \in f.pos..(f.pos + n - 1) : At(i) = k /\ Off(i) = Off(f.pos) + (i - f.pos)
  BY <1>3, NeedAfter
<1>8. \A e \in Fds : SameFile(x.fd[e], m.fd[e])
  BY <1>6 DEF SameFile
<1>9. \A e \in Fds, s \in DirSlots :
        /\ HasFd(x, e, s) <=> HasFd(m, e, s)
        /\ Writes(x, e, s) <=> Writes(m, e, s)
  BY <1>6, <1>8 DEF HasFd, Writes, SameFile
<1>10. \A s \in DirSlots : (InUse(x, s) <=> InUse(m, s)) /\ (Unwritten(x, s) <=> Unwritten(m, s))
  BY <1>6, <1>9 DEF InUse, Unwritten
<1>11. Extent(x.fd[d]) = IF Extent(f) < f.pos + n THEN f.pos + n ELSE Extent(f)
  <2>1. x.fd[d].size = f.size /\ x.fd[d].pos = f.pos + n
    BY <1>6 DEF SameFile
  <2> HIDE DEF f
  <2> QED
    BY <1>3, <2>1 DEF Extent
<1>12. Holds(m.data, q, name, f.first, Extent(f)) /\ Extent(f) \in Nat
  BY <1>1, ReadyTypes DEF Ready, SlotsOK, SlotOK
<1>13. Holds(x.data, q, name, f.first, Extent(x.fd[d]))
  <2>1. Need(Extent(x.fd[d])) <= Len(q)
    BY <1>4, <1>7, <1>11, <1>12 DEF Holds
  <2>2. ASSUME NEW i \in 0..(Extent(x.fd[d]) - 1)
        PROVE  x.data[q[At(i) + 1]][Off(i)] = << name, i >>
    <3>1. i \in Nat /\ i < Extent(x.fd[d]) /\ Extent(x.fd[d]) \in Nat
      BY <1>3, <1>11, <1>12
    <3>2. At(i) \in Nat /\ Off(i) \in Bytes /\ i = ClusterSize * At(i) + Off(i)
      BY <3>1, Place
    <3>3. At(f.pos) \in Nat /\ Off(f.pos) \in Bytes /\ f.pos = ClusterSize * At(f.pos) + Off(f.pos)
      BY <1>3, Place
    <3>4. Off(i) \in Nat /\ Off(f.pos) \in Nat
      BY <3>2, <3>3, Sizes DEF Bytes
    <3>5. CASE i \in f.pos..(f.pos + n - 1)
      <4>1. At(i) = k /\ Off(i) = Off(f.pos) + (i - f.pos)
        BY <1>7, <3>5
      <4>2. /\ Off(i) \in Off(f.pos)..(Off(f.pos) + n - 1)
            /\ f.pos + Off(i) - Off(f.pos) = i
        <5>1. PICK p \in Nat, o \in Nat, u \in Nat : p = f.pos /\ o = Off(f.pos) /\ u = Off(i)
          BY <1>3, <3>4
        <5>2. u = o + (i - p) /\ p <= i /\ i <= p + n - 1
          BY <1>3, <3>1, <3>5, <4>1, <5>1
        <5>3. u \in o..(o + n - 1) /\ p + u - o = i
          BY <3>1, <5>2
        <5> HIDE DEF f
        <5> QED
          BY <5>1, <5>3
      <4>3. q[At(i) + 1] = f.cur
        BY <1>4, <4>1
      <4>4. x.data[f.cur][Off(i)] = << f.name, f.pos + Off(i) - Off(f.pos) >>
        BY <1>6, <3>2, <4>2
      <4> QED
        BY <1>2, <4>2, <4>3, <4>4
    <3>6. CASE i \notin f.pos..(f.pos + n - 1)
      <4>1. i < Extent(f)
        <5>1. PICK p \in Nat, a \in Nat, e \in Nat :
                p = f.pos /\ a = Extent(f) /\ e = Extent(x.fd[d])
          BY <1>3, <1>12, <3>1
        <5>2. p <= a
          BY <1>3, <5>1 DEF Extent
        <5>3. i < e /\ e = (IF a < p + n THEN p + n ELSE a) /\ i \notin p..(p + n - 1)
          BY <1>11, <3>1, <3>6, <5>1
        <5> HIDE DEF f
        <5> QED
          BY <3>1, <5>1, <5>2, <5>3
      <4>2. m.data[q[At(i) + 1]][Off(i)] = << name, i >>
        <5>1. \A j \in 0..(Extent(f) - 1) : m.data[q[At(j) + 1]][Off(j)] = << name, j >>
          BY <1>12 DEF Holds, BytesAt
        <5>2. i \in 0..(Extent(f) - 1)
          <6>1. PICK e \in Nat : e = Extent(f)
            BY <1>12
          <6>2. i \in Nat /\ i < e
            BY <3>1, <4>1, <6>1
          <6>3. i \in 0..(e - 1)
            BY <6>1, <6>2
          <6> QED
            BY <6>1, <6>3
        <5> QED
          BY <5>1, <5>2
      <4>3. At(i) + 1 \in 1..Len(q) /\ q[At(i) + 1] \in ClusterNos
        <5>1. At(i) + 1 <= Need(Extent(f)) /\ Need(Extent(f)) \in Nat
          BY <1>12, <3>1, <4>1, ByteFits, NeedIs
        <5>2. Need(Extent(f)) <= Len(q)
          BY <1>12 DEF Holds
        <5>3. At(i) + 1 \in 1..Len(q)
          BY <1>3, <3>2, <5>1, <5>2
        <5> QED
          BY <1>3, <5>3
      <4>4. CASE q[At(i) + 1] # f.cur
        BY <1>6, <4>2, <4>3, <4>4
      <4>5. CASE q[At(i) + 1] = f.cur
        <5>1. At(i) = k
          <6>1. At(i) + 1 = k + 1
            BY <1>4, <4>3, <4>5 DEF Ready, Apart
          <6> QED
            BY <1>4, <3>2, <6>1
        <5>2. PICK z \in Nat : z = ClusterSize * k
          BY <1>4, Times, Sizes
        <5>3. i = z + Off(i) /\ f.pos = z + Off(f.pos)
          BY <3>2, <3>3, <5>1, <5>2
        <5>4. Off(i) \notin Off(f.pos)..(Off(f.pos) + n - 1)
          BY <3>4, <3>6, <5>2, <5>3
        <5>5. x.data[f.cur][Off(i)] = m.data[f.cur][Off(i)]
          BY <1>6, <3>2, <5>4
        <5> QED
          BY <4>2, <4>5, <5>5
      <4> QED
        BY <4>4, <4>5
    <3> QED
      BY <3>5, <3>6
  <2> QED
    BY <1>12, <2>1, <2>2 DEF Holds, BytesAt
<1>14. ASSUME NEW s \in DirSlots PROVE SlotOK(x, Q[s], s)
  <2>1. SlotOK(m, Q[s], s)
    BY DEF Ready, SlotsOK
  <2>2. CASE s = s0
    <3>1. \A e \in Fds : Writes(x, e, s) => e = d
      BY <1>2, <1>9, <2>2 DEF Writes
    <3>2. InUse(x, s) /\ ~ Unwritten(x, s)
      BY <1>1, <1>2, <1>9, <1>10, <2>2 DEF Unwritten
    <3>3. Holds(x.data, q, x.dir[s].name, x.fd[d].first, Extent(x.fd[d]))
      BY <1>6, <1>13, <2>2 DEF SameFile
    <3> QED
      BY <2>2, <3>1, <3>2, <3>3 DEF SlotOK
  <2>3. CASE s # s0
    <3>1. \A i \in 1..Len(Q[s]) : x.data[Q[s][i]] = m.data[Q[s][i]]
      <4> SUFFICES ASSUME NEW i \in 1..Len(Q[s])
                   PROVE  x.data[Q[s][i]] = m.data[Q[s][i]]
        OBVIOUS
      <4>1. Q[s][i] # f.cur
        BY <1>4, <2>3 DEF Ready, Apart
      <4> QED
        BY <1>3, <1>6, <4>1
    <3>2. Len(Q[s]) \in Nat /\ m.dir[s].size \in Nat /\ \A e \in Fds : Extent(m.fd[e]) \in Nat
      BY ReadyTypes
    <3>3. Unwritten(x, s) => Holds(x.data, Q[s], x.dir[s].name, x.dir[s].first, x.dir[s].size)
      <4>1. Unwritten(x, s) => Holds(m.data, Q[s], m.dir[s].name, m.dir[s].first, m.dir[s].size)
        BY <1>10, <2>1 DEF SlotOK
      <4> QED
        BY <1>6, <3>1, <3>2, <4>1, HoldsElse
    <3>4. ASSUME NEW e \in Fds, Writes(x, e, s)
          PROVE  Holds(x.data, Q[s], x.dir[s].name, x.fd[e].first, Extent(x.fd[e]))
      <4>1. x.fd[e] = m.fd[e]
        BY <1>2, <1>6, <1>9, <2>3, <3>4 DEF Writes
      <4>2. Holds(m.data, Q[s], m.dir[s].name, m.fd[e].first, Extent(m.fd[e]))
        BY <1>9, <2>1, <3>4 DEF SlotOK
      <4>3. Holds(x.data, Q[s], m.dir[s].name, m.fd[e].first, Extent(m.fd[e]))
        BY <3>1, <3>2, <4>2, HoldsElse
      <4> QED
        BY <1>6, <4>1, <4>3
    <3> QED
      BY <1>10, <2>1, <3>3, <3>4 DEF SlotOK
  <2> QED
    BY <2>2, <2>3
<1>15. ASSUME NEW e \in Fds, NEW s \in DirSlots, HasFd(x, e, s)
       PROVE  FdOK(x.fd[e], x.dir[s], Q[s])
  <2>1. CASE e # d
    <3>1. HasFd(m, e, s) /\ x.fd[e] = m.fd[e]
      BY <1>6, <1>9, <1>15, <2>1
    <3> QED
      BY <1>6, <2>1, <3>1 DEF Ready
  <2>2. CASE e = d
    <3>1. s = s0
      BY <1>2, <1>9, <1>15, <2>2
    <3>2. f.pos + n # 0 /\ x.fd[d].pos = f.pos + n /\ f.pos <= f.pos + n
      BY <1>3, <1>6
    <3>3. CursorOK(x.fd[d], q)
      <4>1. Need(x.fd[d].pos) = k + 1 /\ x.fd[d].pos # 0 /\ x.fd[d].cur = q[k + 1]
        BY <1>4, <1>6, <1>7, <3>2
      <4> HIDE DEF k, q
      <4> QED
        BY <1>3, <1>4, <4>1 DEF CursorOK
    <3>4. x.fd[d].mode # READ
      BY <1>1, <1>6 DEF SameFile, Writes
    <3>5. Behind(x.fd[d], x.dir[s0])
      <4>1. Behind(f, m.dir[s0])
        BY DEF Ready
      <4>2. x.fd[d].size = f.size /\ x.fd[d].first = f.first
        BY <1>6 DEF SameFile
      <4>3. f.size <= f.pos => f.size <= x.fd[d].pos
        BY <1>3, <3>2
      <4> QED
        BY <1>6, <4>1, <4>2, <4>3 DEF Behind
    <3> QED
      BY <2>2, <3>1, <3>3, <3>4, <3>5 DEF FdOK
  <2> QED
    BY <2>1, <2>2
<1>16. OneSlot(x) /\ OneWriter(x) /\ Housed(x)
  <2>1. OneSlot(x)
    BY <1>1, <1>6 DEF OneSlot, InUse
  <2>2. OneWriter(x)
    BY <1>1, <1>8 DEF OneWriter, SameFile
  <2>3. Housed(x)
    <3> SUFFICES ASSUME NEW e \in Fds, x.fd[e].in_use
                 PROVE  x.fd[e].name # NoName /\ \E s \in DirSlots : x.dir[s].name = x.fd[e].name
      BY DEF Housed
    <3>1. m.fd[e].in_use /\ x.fd[e].name = m.fd[e].name
      BY <1>8 DEF SameFile
    <3> QED
      BY <1>1, <1>6, <3>1 DEF Housed
  <2> QED
    BY <2>1, <2>2, <2>3
<1>17. Files(x, Q)
  BY <1>6, <1>14, <1>15, <1>16 DEF Ready, Files, SlotsOK, FdsOK
<1>18. ASSUME NearlyClean(m, Q, d, s0) PROVE Clean(x, Q)
  <2>1. Kept(x.fat, Q) /\ Counted(x)
    BY <1>6, <1>18 DEF NearlyClean, Counted
  <2>2. ASSUME NEW s \in DirSlots, Unwritten(x, s)
        PROVE  Len(Q[s]) <= Need(x.dir[s].size)
    BY <1>6, <1>10, <1>18, <2>2 DEF NearlyClean
  <2>3. ASSUME NEW s \in DirSlots, NEW e \in Fds, Writes(x, e, s)
        PROVE  Len(Q[s]) <= Need(Extent(x.fd[e]))
    <3>1. CASE e # d
      BY <1>6, <1>9, <1>18, <2>3, <3>1 DEF NearlyClean
    <3>2. CASE e = d
      <4>1. s = s0
        BY <1>2, <1>9, <2>3, <3>2 DEF Writes
      <4>2. Extent(x.fd[d]) \in Nat /\ Extent(f) <= Extent(x.fd[d]) /\ f.pos + n <= Extent(x.fd[d])
        BY <1>3, <1>11, <1>12
      <4>3. Need(Extent(f)) <= Need(Extent(x.fd[d])) /\ k + 1 <= Need(Extent(x.fd[d]))
        BY <1>3, <1>7, <1>12, <4>2, NeedGrows
      <4>4. Need(Extent(f)) \in Nat /\ Need(Extent(x.fd[d])) \in Nat
        BY <1>12, <4>2, NeedIs
      <4>5. Len(q) <= Need(Extent(f)) \/ Len(q) <= k + 1
        BY <1>18 DEF NearlyClean
      <4> QED
        BY <1>3, <1>4, <3>2, <4>1, <4>3, <4>4, <4>5
    <3> QED
      BY <3>1, <3>2
  <2> QED
    BY <2>1, <2>2, <2>3 DEF Clean, Tight
<1> QED
  BY <1>5, <1>17, <1>18

----------------------------------------------------------------------------
(***************************************************************************)
(* The loop of fs_write.  A cluster that was taken before stays taken, and *)
(* what was in it is overwritten only by its own file's bytes in their     *)
(* places, so that the old FAT and directory still describe files.         *)
(***************************************************************************)
Since(m, Q, Q0, d, s0) ==
  /\ m.dir = root_dir /\ m.super.valid = superblock.valid
  /\ \A x \in Fds : x # d => m.fd[x] = fd_table[x]
  /\ m.fd[d].in_use = fd_table[d].in_use /\ m.fd[d].name = fd_table[d].name
  /\ m.fd[d].size = fd_table[d].size /\ m.fd[d].mode = fd_table[d].mode
  /\ \A c \in ClusterNos : fat[c] # FAT_FREE => m.fat[c] # FAT_FREE
  /\ \A j \in 1..Len(Q[s0]) :
       \/ fat[Q[s0][j]] = FAT_FREE
       \/ j \in 1..Len(Q0[s0]) /\ Q[s0][j] = Q0[s0][j]
  /\ \A c \in ClusterNos : fat[c] # FAT_FREE /\ c \notin Range1(Q0[s0]) => m.data[c] = data[c]
  /\ \A i \in 1..Len(Q0[s0]), b \in Bytes :
       \/ m.data[Q0[s0][i]][b] = data[Q0[s0][i]][b]
       \/ m.data[Q0[s0][i]][b] = << root_dir[s0].name, ClusterSize * (i - 1) + b >>

LEMMA SinceStart ==
  ASSUME NEW Q0, NEW d \in Fds, NEW s0 \in DirSlots
  PROVE  Since(Mem, Q0, Q0, d, s0)
BY MemIs DEF Since

LEMMA SinceExtend ==
  ASSUME NEW m, NEW Q, NEW Q0, NEW d \in Fds, NEW s0 \in DirSlots, Files(m, Q),
         Writes(m, d, s0), NeedsCluster(m.fd[d]), Since(m, Q, Q0, d, s0),
         m.super.free # 0, NEW c \in UserClusters, m.fat[c] = FAT_FREE,
         NEW P, P = [Q EXCEPT ![s0] = Extended(Q[s0], At(m.fd[d].pos), c)]
  PROVE  Since(Extend(m, d, c), P, Q0, d, s0)
<1> DEFINE q == Q[s0]
           k == At(m.fd[d].pos)
<1>1. m \in MemType /\ Q \in ChainsType /\ c \in ClusterNos
  BY FatValues DEF Files
<1>2. PICK x : x = Extend(m, d, c)
  OBVIOUS
<1>3. /\ x.dir = m.dir /\ x.data = m.data /\ x.super.valid = m.super.valid
      /\ \A e \in Fds : e # d => x.fd[e] = m.fd[e]
      /\ x.fd[d].in_use = m.fd[d].in_use /\ x.fd[d].name = m.fd[d].name
      /\ x.fd[d].size = m.fd[d].size /\ x.fd[d].mode = m.fd[d].mode
      /\ \A e \in ClusterNos : x.fat[e] = m.fat[e] \/ x.fat[e] = c \/ x.fat[e] = FAT_EOF
  BY <1>1, <1>2, ExtendIs
<1>4. \A e \in ClusterNos : fat[e] # FAT_FREE => x.fat[e] # FAT_FREE
  BY <1>3, FatValues DEF Since
<1>5. fat[c] = FAT_FREE
  BY <1>1 DEF Since
<1>6. /\ k \in Nat /\ k <= Len(q) /\ q \in Seq(UserClusters) /\ Len(q) \in Nat
  BY NeedsIs, FilesTypes
<1>7. ASSUME NEW j \in 1..Len(P[s0])
      PROVE  \/ fat[P[s0][j]] = FAT_FREE
             \/ j \in 1..Len(Q0[s0]) /\ P[s0][j] = Q0[s0][j]
  <2>1. P[s0] = Extended(q, k, c)
    BY <1>1 DEF ChainsType
  <2>2. PICK r : r = Extended(q, k, c)
    OBVIOUS
  <2>3. Len(r) = k + 1 /\ r[k + 1] = c /\ \A i \in 1..k : r[i] = q[i]
    <3>1. PICK a \in Nat, w \in Seq(UserClusters) : a = k /\ w = q
      BY <1>6
    <3>2. a <= Len(w) /\ r = Extended(w, a, c)
      BY <1>6, <2>2, <3>1
    <3>3. Len(r) = a + 1 /\ r[a + 1] = c /\ \A i \in 1..a : r[i] = w[i]
      BY <3>2, ExtendedIs
    <3> QED
      BY <3>1, <3>3
  <2> HIDE DEF k, q
  <2>4. CASE j = k + 1
    BY <1>5, <2>1, <2>2, <2>3, <2>4
  <2>5. CASE j # k + 1
    <3>1. j \in 1..k /\ j \in 1..Len(q) /\ P[s0][j] = q[j]
      BY <1>6, <2>1, <2>2, <2>3, <2>5
    <3>2. \/ fat[Q[s0][j]] = FAT_FREE
          \/ j \in 1..Len(Q0[s0]) /\ Q[s0][j] = Q0[s0][j]
      BY <3>1 DEF Since, q
    <3> QED
      BY <3>1, <3>2 DEF q
  <2> QED
    BY <2>4, <2>5
<1>8. Since(x, P, Q0, d, s0)
  <2>1. /\ x.dir = root_dir /\ x.super.valid = superblock.valid
        /\ \A e \in Fds : e # d => x.fd[e] = fd_table[e]
    BY <1>3 DEF Since
  <2>2. /\ x.fd[d].in_use = fd_table[d].in_use /\ x.fd[d].name = fd_table[d].name
        /\ x.fd[d].size = fd_table[d].size /\ x.fd[d].mode = fd_table[d].mode
    BY <1>3 DEF Since
  <2>3. \A e \in ClusterNos :
          fat[e] # FAT_FREE /\ e \notin Range1(Q0[s0]) => x.data[e] = data[e]
    BY <1>3 DEF Since
  <2>4. \A i \in 1..Len(Q0[s0]), b \in Bytes :
          \/ x.data[Q0[s0][i]][b] = data[Q0[s0][i]][b]
          \/ x.data[Q0[s0][i]][b] = << root_dir[s0].name, ClusterSize * (i - 1) + b >>
    BY <1>3 DEF Since
  <2>5. \A j \in 1..Len(P[s0]) :
          \/ fat[P[s0][j]] = FAT_FREE
          \/ j \in 1..Len(Q0[s0]) /\ P[s0][j] = Q0[s0][j]
    BY <1>7
  <2> QED
    BY <1>4, <2>1, <2>2, <2>3, <2>4, <2>5 DEF Since
<1> QED
  BY <1>2, <1>8

LEMMA SinceStore ==
  ASSUME NEW m, NEW Q, NEW Q0, NEW d \in Fds, NEW s0 \in DirSlots, Files(Mem, Q0),
         Ready(m, Q, d, s0), Since(m, Q, Q0, d, s0), NEW n \in Nat, n > 0,
         n <= ClusterSize - Off(m.fd[d].pos), m.fd[d].pos + n <= MaxFileSize
  PROVE  Since(Store(m, d, n), Q, Q0, d, s0)
<1> DEFINE f == m.fd[d]
           q == Q[s0]
           q0 == Q0[s0]
           k == At(f.pos)
           name == root_dir[s0].name
<1>1. m \in MemType /\ Writes(m, d, s0) /\ OneSlot(m) /\ OneWriter(m) /\ Housed(m)
  BY DEF Ready
<1>2. f.name = name /\ f.name # NoName
  BY <1>1, WriterIs DEF Since
<1>3. /\ f.pos \in Nat /\ q0 \in Seq(UserClusters) /\ Leads(fat, q0) /\ Len(q0) \in Nat
      /\ Once(q0)
      /\ \A i \in 1..Len(q0) : q0[i] \in ClusterNos /\ fat[q0[i]] # FAT_FREE
  BY ReadyTypes, FilesTypes, MemIs, LeadsTaken
<1>4. k \in Nat /\ k + 1 \in 1..Len(q) /\ f.cur = q[k + 1] /\ f.cur \in ClusterNos
  <2>1. k \in Nat
    BY <1>3, Place
  <2>2. k + 1 \in 1..Len(q) /\ f.cur = q[k + 1]
    BY DEF Ready
  <2>3. q[k + 1] \in ClusterNos
    BY <2>2, ReadyTypes
  <2> QED
    BY <2>1, <2>2, <2>3
<1>5. PICK x : x = Store(m, d, n)
  OBVIOUS
<1>6. /\ x.super = m.super /\ x.fat = m.fat /\ x.dir = m.dir
      /\ \A e \in Fds : e # d => x.fd[e] = m.fd[e]
      /\ SameFile(x.fd[d], f)
      /\ \A c \in ClusterNos : c # f.cur => x.data[c] = m.data[c]
      /\ \A b \in Bytes : x.data[f.cur][b] =
           IF b \in Off(f.pos)..(Off(f.pos) + n - 1)
           THEN << f.name, f.pos + b - Off(f.pos) >> ELSE m.data[f.cur][b]
  BY <1>1, <1>2, <1>5, StoreIs
<1>7. fat[f.cur] = FAT_FREE \/ (k + 1 \in 1..Len(q0) /\ f.cur = q0[k + 1])
  BY <1>4 DEF Since
<1>8. ASSUME NEW c \in ClusterNos, fat[c] # FAT_FREE, c \notin Range1(q0)
      PROVE  x.data[c] = data[c]
  <2>1. c # f.cur
    BY <1>7, <1>8 DEF Range1
  <2> QED
    BY <1>6, <1>8, <2>1 DEF Since
<1>9. ASSUME NEW i \in 1..Len(q0), NEW b \in Bytes
      PROVE  \/ x.data[q0[i]][b] = data[q0[i]][b]
             \/ x.data[q0[i]][b] = << name, ClusterSize * (i - 1) + b >>
  <2>1. \/ m.data[q0[i]][b] = data[q0[i]][b]
        \/ m.data[q0[i]][b] = << name, ClusterSize * (i - 1) + b >>
    BY DEF Since
  <2>2. CASE q0[i] # f.cur
    BY <1>3, <1>6, <2>1, <2>2
  <2>3. CASE q0[i] = f.cur
    <3>1. i = k + 1
      BY <1>3, <1>7, <2>3 DEF Once
    <3>2. CASE b \in Off(f.pos)..(Off(f.pos) + n - 1)
      <4>1. x.data[f.cur][b] = << f.name, f.pos + b - Off(f.pos) >>
        BY <1>6, <3>2
      <4>2. f.pos + b - Off(f.pos) = ClusterSize * (i - 1) + b
        <5>1. f.pos = ClusterSize * k + Off(f.pos) /\ Off(f.pos) \in Bytes
          BY <1>3, Place
        <5>2. PICK z \in Nat : z = ClusterSize * k
          BY <1>4, Times, Sizes
        <5>3. i - 1 = k /\ b \in Nat /\ Off(f.pos) \in Nat
          BY <1>4, <3>1, <5>1, Sizes DEF Bytes
        <5>4. PICK o \in Nat, p \in Nat : o = Off(f.pos) /\ p = f.pos
          BY <1>3, <5>3
        <5>5. p = z + o
          BY <5>1, <5>2, <5>4
        <5>6. p + b - o = z + b
          BY <5>3, <5>5
        <5> QED
          BY <5>2, <5>3, <5>4, <5>6
      <4> QED
        BY <1>2, <2>3, <4>1, <4>2
    <3>3. CASE b \notin Off(f.pos)..(Off(f.pos) + n - 1)
      BY <1>6, <2>1, <2>3, <3>3
    <3> QED
      BY <3>2, <3>3
  <2> QED
    BY <2>2, <2>3
<1>10. Since(x, Q, Q0, d, s0)
  <2>1. /\ x.dir = root_dir /\ x.super.valid = superblock.valid
        /\ \A e \in Fds : e # d => x.fd[e] = fd_table[e]
    BY <1>6 DEF Since
  <2>2. /\ x.fd[d].in_use = fd_table[d].in_use /\ x.fd[d].name = fd_table[d].name
        /\ x.fd[d].size = fd_table[d].size /\ x.fd[d].mode = fd_table[d].mode
    BY <1>6 DEF Since, SameFile
  <2>3. \A c \in ClusterNos : fat[c] # FAT_FREE => x.fat[c] # FAT_FREE
    BY <1>6 DEF Since
  <2>4. \A j \in 1..Len(Q[s0]) :
          \/ fat[Q[s0][j]] = FAT_FREE
          \/ j \in 1..Len(Q0[s0]) /\ Q[s0][j] = Q0[s0][j]
    BY DEF Since
  <2>5. \A c \in ClusterNos :
          fat[c] # FAT_FREE /\ c \notin Range1(Q0[s0]) => x.data[c] = data[c]
    BY <1>8
  <2>6. \A i \in 1..Len(Q0[s0]), b \in Bytes :
          \/ x.data[Q0[s0][i]][b] = data[Q0[s0][i]][b]
          \/ x.data[Q0[s0][i]][b] = << root_dir[s0].name, ClusterSize * (i - 1) + b >>
    BY <1>9
  <2> QED
    BY <2>1, <2>2, <2>3, <2>4, <2>5, <2>6 DEF Since
<1> QED
  BY <1>5, <1>10

\* What the old FAT and directory describe is still there.
LEMMA SinceBoots ==
  ASSUME NEW m \in MemType, NEW Q, NEW Q0, NEW d \in Fds, NEW s0 \in DirSlots, Files(Mem, Q0),
         Since(m, Q, Q0, d, s0)
  PROVE  FilesOnDisk(fat, root_dir, m.data, Forgotten(root_dir, Q0))
<1> DEFINE P == Forgotten(root_dir, Q0)
<1>1. FilesOnDisk(fat, root_dir, data, P)
  BY MemIs, ForgetOK
<1>2. \A s \in DirSlots : P[s] = << >> \/ P[s] = Q0[s]
  BY DEF Forgotten
<1> HIDE DEF P
<1>3. \A s \in DirSlots :
        /\ Q0[s] \in Seq(UserClusters) /\ Leads(fat, Q0[s]) /\ Len(Q0[s]) \in Nat
        /\ \A i \in 1..Len(Q0[s]) : Q0[s][i] \in ClusterNos /\ fat[Q0[s][i]] # FAT_FREE
  BY FilesTypes, MemIs, LeadsTaken
<1>4. ASSUME NEW s \in DirSlots PROVE FileOnDisk(m.data, P[s], root_dir[s])
  <2>1. FileOnDisk(data, P[s], root_dir[s])
    BY <1>1 DEF FilesOnDisk
  <2>2. CASE root_dir[s].name = NoName
    BY <2>1, <2>2 DEF FileOnDisk
  <2>3. CASE root_dir[s].name # NoName
    <3> DEFINE e == root_dir[s]
    <3>1. Holds(data, P[s], e.name, e.first, e.size)
      BY <2>1, <2>3 DEF FileOnDisk
    <3>2. e.size \in Nat /\ Len(P[s]) \in Nat
      <4>1. e.size \in Nat
        BY FilesTypes, MemIs
      <4>2. Len(<< >>) = 0
        OBVIOUS
      <4> QED
        BY <1>2, <1>3, <4>1, <4>2
    <3>3. CASE s # s0
      <4>1. \A i \in 1..Len(P[s]) : m.data[P[s][i]] = data[P[s][i]]
        <5> SUFFICES ASSUME NEW i \in 1..Len(P[s]) PROVE m.data[P[s][i]] = data[P[s][i]]
          OBVIOUS
        <5>1. P[s] = Q0[s] /\ i \in 1..Len(Q0[s])
          BY <1>2
        <5>2. Q0[s][i] \notin Range1(Q0[s0])
          BY <3>3, <5>1 DEF Files, Apart, Range1
        <5> QED
          BY <1>3, <5>1, <5>2 DEF Since
      <4>2. Holds(m.data, P[s], e.name, e.first, e.size)
        BY <3>1, <3>2, <4>1, HoldsElse
      <4> QED
        BY <2>3, <4>2 DEF FileOnDisk
    <3>4. CASE s = s0
      <4>1. ASSUME NEW i \in 0..(e.size - 1)
            PROVE  m.data[P[s][At(i) + 1]][Off(i)] = << e.name, i >>
        <5>1. i \in Nat /\ i < e.size
          BY <3>2
        <5>2. At(i) \in Nat /\ Off(i) \in Bytes /\ i = ClusterSize * At(i) + Off(i)
          BY <5>1, Place
        <5>3. At(i) + 1 \in 1..Len(P[s])
          <6>1. At(i) + 1 <= Need(e.size) /\ Need(e.size) \in Nat
            BY <3>2, <5>1, ByteFits, NeedIs
          <6>2. Need(e.size) <= Len(P[s])
            BY <3>1 DEF Holds
          <6> QED
            BY <3>2, <5>2, <6>1, <6>2
        <5>4. P[s] = Q0[s] /\ At(i) + 1 \in 1..Len(Q0[s0])
          BY <1>2, <3>4, <5>3
        <5>5. data[P[s][At(i) + 1]][Off(i)] = << e.name, i >>
          BY <3>1 DEF Holds, BytesAt
        <5>6. \/ m.data[P[s][At(i) + 1]][Off(i)] = data[P[s][At(i) + 1]][Off(i)]
              \/ m.data[P[s][At(i) + 1]][Off(i)]
                   = << e.name, ClusterSize * ((At(i) + 1) - 1) + Off(i) >>
          BY <3>4, <5>2, <5>4 DEF Since
        <5>7. (At(i) + 1) - 1 = At(i)
          BY <5>2
        <5> QED
          BY <5>2, <5>5, <5>6, <5>7
      <4>2. Holds(m.data, P[s], e.name, e.first, e.size)
        BY <3>1, <4>1 DEF Holds, BytesAt
      <4> QED
        BY <2>3, <4>2 DEF FileOnDisk
    <3> QED
      BY <3>3, <3>4
  <2> QED
    BY <2>2, <2>3
<1>5. m.data \in DataType
  BY DEF MemType
<1> QED
  BY <1>1, <1>4, <1>5 DEF FilesOnDisk, P

----------------------------------------------------------------------------
(***************************************************************************)
(* One turn of the loop of fs_write, and the loop.                         *)
(***************************************************************************)
WriteTurn(w, d) ==
  LET f == w.m.fd[d]
      n == Min2(w.left, ClusterSize - (f.pos % ClusterSize))
  IN IF w.left = 0 THEN w
     ELSE IF ~NeedsCluster(f) THEN [m |-> Store(w.m, d, n), left |-> w.left - n]
     ELSE IF ~CanAlloc(w.m) THEN [w EXCEPT !.left = 0]
     ELSE [m |-> Store(Extend(w.m, d, Least(FreeClusters(w.m.fat))), d, n),
           left |-> w.left - n]
WriteFrom(count) == [m |-> Mem, left |-> count]
IsWriting(h, d, count) ==
  h = [k \in 0..count |-> IF k = 0 THEN WriteFrom(count) ELSE WriteTurn(h[k - 1], d)]

\* A memory in the middle of a write, and what is left to write.
Midway(m, Q0, d, s0) ==
  \E Q : Files(m, Q) /\ Since(m, Q, Q0, d, s0) /\ (failures = 0 => Clean(m, Q))
Writing(Q0, d, s0) ==
  {w \in [m : MemType, left : Nat] :
     w.m.fd[d].pos + w.left <= MaxFileSize /\ Midway(w.m, Q0, d, s0)}

\* What is stored in the current cluster keeps the memory midway.
LEMMA StoreMidway ==
  ASSUME NEW m, NEW Q, NEW Q0, NEW d \in Fds, NEW s0 \in DirSlots, Files(Mem, Q0),
         Ready(m, Q, d, s0), Since(m, Q, Q0, d, s0), failures = 0 => NearlyClean(m, Q, d, s0),
         NEW n \in Nat, n > 0, n <= ClusterSize - Off(m.fd[d].pos),
         m.fd[d].pos + n <= MaxFileSize
  PROVE  /\ Store(m, d, n) \in MemType /\ Midway(Store(m, d, n), Q0, d, s0)
         /\ Store(m, d, n).fd[d].pos = m.fd[d].pos + n
<1>1. PICK x : x = Store(m, d, n)
  OBVIOUS
<1>2. Files(x, Q) /\ (failures = 0 => Clean(x, Q))
  BY <1>1, StoreOK
<1>3. Since(x, Q, Q0, d, s0)
  BY <1>1, SinceStore
<1>4. m \in MemType /\ m.fd[d].name # NoName
  BY WriterIs DEF Ready
<1>5. x.fd[d].pos = m.fd[d].pos + n /\ x \in MemType
  BY <1>1, <1>4, StoreIs
<1> QED
  BY <1>1, <1>2, <1>3, <1>5 DEF Midway

LEMMA WriteTurnOK ==
  ASSUME NEW Q0, NEW d \in Fds, NEW s0 \in DirSlots, Files(Mem, Q0), Writes(Mem, d, s0),
         NEW w \in Writing(Q0, d, s0)
  PROVE  WriteTurn(w, d) \in Writing(Q0, d, s0)
<1> DEFINE m == w.m
           f == m.fd[d]
           n == Min2(w.left, ClusterSize - (f.pos % ClusterSize))
<1>1. w \in [m : MemType, left : Nat] /\ m \in MemType /\ w.left \in Nat
      /\ f.pos + w.left <= MaxFileSize
  BY DEF Writing
<1>2. PICK Q : Files(m, Q) /\ Since(m, Q, Q0, d, s0) /\ (failures = 0 => Clean(m, Q))
  BY DEF Writing, Midway
<1>3. CASE w.left = 0
  BY <1>3 DEF WriteTurn
<1>4. CASE w.left # 0
  <2>1. f.pos \in Nat /\ f.pos % ClusterSize = Off(f.pos) /\ Off(f.pos) \in Nat
        /\ Off(f.pos) < ClusterSize
    <3>1. f.pos \in Nat
      BY <1>2, FilesTypes
    <3>2. Off(f.pos) \in Bytes
      BY <3>1, Place
    <3> QED
      BY <3>1, <3>2, Sizes DEF Bytes, Off
  <2>2. /\ n \in Nat /\ n > 0 /\ n <= ClusterSize - Off(f.pos)
        /\ f.pos + n <= MaxFileSize
        /\ w.left - n \in Nat /\ (f.pos + n) + (w.left - n) <= MaxFileSize
    BY <1>1, <1>4, <2>1, Sizes DEF Min2
  <2>3. Writes(m, d, s0)
    BY <1>2, MemIs DEF Since, Writes, HasFd
  <2> HIDE DEF n
  <2>4. CASE ~ NeedsCluster(f)
    <3>1. WriteTurn(w, d) = [m |-> Store(m, d, n), left |-> w.left - n]
      BY <1>4, <2>4 DEF WriteTurn, n
    <3>2. Ready(m, Q, d, s0) /\ (failures = 0 => NearlyClean(m, Q, d, s0))
      BY <1>2, <2>3, <2>4, ReadyStay
    <3>3. PICK x : x = Store(m, d, n)
      OBVIOUS
    <3>4. x \in MemType /\ Midway(x, Q0, d, s0) /\ x.fd[d].pos = f.pos + n
      BY <1>2, <2>2, <3>2, <3>3, StoreMidway
    <3> QED
      BY <2>2, <3>1, <3>3, <3>4 DEF Writing
  <2>5. CASE NeedsCluster(f) /\ ~ CanAlloc(m)
    <3>1. WriteTurn(w, d) = [w EXCEPT !.left = 0]
      BY <1>4, <2>5 DEF WriteTurn
    <3>2. [w EXCEPT !.left = 0] = [m |-> m, left |-> 0]
      BY <1>1
    <3>3. f.pos + 0 <= MaxFileSize
      <4>1. PICK p \in Nat : p = f.pos
        BY <2>1
      <4>2. p + n <= MaxFileSize
        BY <2>2, <4>1
      <4>3. p + 0 <= MaxFileSize
        BY <2>2, <4>2, Sizes
      <4> QED
        BY <4>1, <4>3
    <3>4. Midway(m, Q0, d, s0)
      BY DEF Writing
    <3> QED
      BY <1>1, <3>1, <3>2, <3>3, <3>4 DEF Writing
  <2>6. CASE NeedsCluster(f) /\ CanAlloc(m)
    <3>1. PICK c : c = Least(FreeClusters(m.fat))
      OBVIOUS
    <3>2. c \in ClusterNos /\ m.fat[c] = FAT_FREE /\ m.super.free # 0
      <4>1. FreeClusters(m.fat) \in SUBSET Nat /\ FreeClusters(m.fat) # {}
        BY <2>6, SlotsAre DEF FreeClusters, CanAlloc
      <4> QED
        BY <2>6, <3>1, <4>1, LeastIs DEF FreeClusters, CanAlloc
    <3>3. PICK y : y = Extend(m, d, c)
      OBVIOUS
    <3>4. PICK P : P = [Q EXCEPT ![s0] = Extended(Q[s0], At(f.pos), c)]
      OBVIOUS
    <3>5. /\ c \in UserClusters /\ Ready(y, P, d, s0)
          /\ failures = 0 => NearlyClean(y, P, d, s0)
      BY <1>2, <2>3, <2>6, <3>2, <3>3, <3>4, ReadyExtend
    <3>6. Since(y, P, Q0, d, s0)
      BY <1>2, <2>3, <2>6, <3>2, <3>3, <3>4, <3>5, SinceExtend
    <3>7. y.fd[d].pos = f.pos
      BY <1>1, <3>2, <3>3, <3>5, ExtendIs
    <3>8. PICK x : x = Store(y, d, n)
      OBVIOUS
    <3>9. x \in MemType /\ Midway(x, Q0, d, s0) /\ x.fd[d].pos = f.pos + n
      <4>1. n <= ClusterSize - Off(y.fd[d].pos) /\ y.fd[d].pos + n <= MaxFileSize
        BY <2>2, <3>7
      <4>2. n \in Nat /\ n > 0
        BY <2>2
      <4>3. /\ x \in MemType /\ Midway(x, Q0, d, s0)
            /\ x.fd[d].pos = y.fd[d].pos + n
        BY <3>5, <3>6, <3>8, <4>1, <4>2, StoreMidway
      <4> QED
        BY <3>7, <4>3
    <3>10. WriteTurn(w, d) = [m |-> x, left |-> w.left - n]
      BY <1>4, <2>6, <3>1, <3>3, <3>8 DEF WriteTurn, n
    <3> QED
      BY <2>2, <3>9, <3>10 DEF Writing
  <2> QED
    BY <2>4, <2>5, <2>6
<1> QED
  BY <1>3, <1>4

LEMMA AfterWriteIs ==
  ASSUME NEW Q0, NEW d \in Fds, NEW s0 \in DirSlots, Files(Mem, Q0), Writes(Mem, d, s0),
         failures = 0 => Clean(Mem, Q0),
         NEW count \in Nat, fd_table[d].pos + count <= MaxFileSize
  PROVE  AfterWrite(d, count) \in MemType /\ Midway(AfterWrite(d, count), Q0, d, s0)
<1> DEFINE S == Writing(Q0, d, s0)
           F == [w \in S |-> WriteTurn(w, d)]
           h == CHOOSE h : IsWriting(h, d, count)
<1>1. F \in [S -> S]
  BY WriteTurnOK
<1>2. WriteFrom(count) \in S
  <2>1. Mem \in MemType
    BY DEF Files
  <2>2. Midway(Mem, Q0, d, s0)
    BY SinceStart DEF Midway
  <2> QED
    BY <2>1, <2>2, MemIs DEF WriteFrom, Writing
<1>3. \A w \in S : F[w] = WriteTurn(w, d)
  OBVIOUS
<1> HIDE DEF S, F
<1>4. PICK g : IsRun(g, S, F, WriteFrom(count), count)
  BY <1>1, <1>2, Iterates
<1>5. IsWriting(g, d, count)
  <2>1. ASSUME NEW k \in 0..count
        PROVE  g[k] = IF k = 0 THEN WriteFrom(count) ELSE WriteTurn(g[k - 1], d)
    <3>1. k # 0 => k - 1 \in 0..count
      OBVIOUS
    <3> QED
      BY <1>3, <1>4, <3>1 DEF IsRun
  <2>2. g \in [0..count -> S]
    BY <1>4 DEF IsRun
  <2> QED
    BY <2>1, <2>2 DEF IsWriting
<1>6. IsWriting(h, d, count)
  BY <1>5
<1>7. AfterWrite(d, count) = h[count].m
  BY DEF AfterWrite, IsWriting, WriteTurn, WriteFrom
<1> HIDE DEF h
<1>8. h[0] = WriteFrom(count) /\ \A k \in 1..count : h[k] = WriteTurn(h[k - 1], d)
  BY <1>6 DEF IsWriting
<1>9. \A k \in 1..count : h[k - 1] \in S => h[k] = F[h[k - 1]]
  BY <1>3, <1>8
<1>10. \A k \in 0..count : h[k] \in S
  BY <1>1, <1>2, <1>8, <1>9, Iterated
<1>11. h[count] \in S
  BY <1>10
<1> QED
  BY <1>7, <1>11 DEF S, Writing

\* The descriptor's size after the loop is the file's extent.
LEMMA GrownIs ==
  ASSUME NEW m \in MemType, NEW d \in Fds
  PROVE  LET x == Grown(m, d)
             f == m.fd[d]
         IN  /\ x \in MemType /\ x.super = m.super /\ x.fat = m.fat /\ x.dir = m.dir
             /\ x.data = m.data
             /\ \A e \in Fds : e # d => x.fd[e] = m.fd[e]
             /\ x.fd[d].in_use = f.in_use /\ x.fd[d].name = f.name /\ x.fd[d].first = f.first
             /\ x.fd[d].mode = f.mode /\ x.fd[d].cur = f.cur /\ x.fd[d].pos = f.pos
             /\ x.fd[d].size = Extent(f) /\ x.fd[d].modified
<1> DEFINE f == m.fd[d]
           sz == IF f.pos > f.size THEN f.pos ELSE f.size
           g == [f EXCEPT !.size = sz, !.modified = TRUE]
           t == [m.fd EXCEPT ![d] = g]
           x == Grown(m, d)
<1>1. m.fd \in [Fds -> FdType] /\ f \in FdType
  BY DEF MemType
<1>2. x = [m EXCEPT !.fd = t]
  BY <1>1 DEF Grown
<1>3. f.pos \in Nat /\ f.size \in Nat /\ sz \in 0..MaxFileSize
  BY <1>1, Sizes DEF FdType
<1>4. sz = Extent(f)
  BY <1>3 DEF Extent
<1>5. /\ g.in_use = f.in_use /\ g.name = f.name /\ g.first = f.first /\ g.mode = f.mode
      /\ g.cur = f.cur /\ g.pos = f.pos /\ g.size = sz /\ g.modified = TRUE
  <2> HIDE DEF sz
  <2> QED
    BY <1>1 DEF FdType
<1> HIDE DEF sz
<1>6. g \in FdType
  BY <1>1, <1>3 DEF FdType
<1> HIDE DEF g
<1>7. t \in [Fds -> FdType] /\ t[d] = g /\ \A e \in Fds : e # d => t[e] = m.fd[e]
  BY <1>1, <1>6
<1> HIDE DEF t
<1>8. /\ x.super = m.super /\ x.fat = m.fat /\ x.dir = m.dir /\ x.data = m.data /\ x.fd = t
      /\ x \in MemType
  BY <1>2, <1>7 DEF MemType
<1> QED
  BY <1>4, <1>5, <1>7, <1>8

LEMMA GrownOK ==
  ASSUME NEW m, NEW Q, Files(m, Q), NEW d \in Fds, NEW s0 \in DirSlots, Writes(m, d, s0),
         NEW x, x = Grown(m, d)
  PROVE  Files(x, Q) /\ (Clean(m, Q) => Clean(x, Q))
<1> DEFINE f == m.fd[d]
           g == x.fd[d]
<1>1. m \in MemType
  BY DEF Files
<1>2. /\ x \in MemType /\ x.super = m.super /\ x.fat = m.fat /\ x.dir = m.dir
      /\ x.data = m.data
      /\ \A e \in Fds : e # d => x.fd[e] = m.fd[e]
      /\ g.in_use = f.in_use /\ g.name = f.name /\ g.first = f.first
      /\ g.mode = f.mode /\ g.cur = f.cur /\ g.pos = f.pos
      /\ g.size = Extent(f)
  BY <1>1, GrownIs
<1>3. f.pos \in Nat /\ f.size \in Nat
  BY FilesTypes
<1>4. Extent(g) = Extent(f) /\ f.size <= g.size /\ f.pos <= g.size
      /\ (g.size = f.size \/ g.size = g.pos)
  <2>1. PICK p \in Nat, z \in Nat : p = f.pos /\ z = f.size
    BY <1>3
  <2>2. g.pos = p /\ g.size = IF z < p THEN p ELSE z
    BY <1>2, <2>1 DEF Extent
  <2> QED
    BY <2>1, <2>2 DEF Extent
<1> HIDE DEF f, g
<1>5. \A e \in Fds :
        /\ x.fd[e].in_use = m.fd[e].in_use /\ x.fd[e].name = m.fd[e].name
        /\ x.fd[e].mode = m.fd[e].mode /\ x.fd[e].first = m.fd[e].first
        /\ Extent(x.fd[e]) = Extent(m.fd[e])
  BY <1>2, <1>4 DEF f, g
<1>6. ASSUME NEW s \in DirSlots
      PROVE  /\ \A e \in Fds : HasFd(x, e, s) <=> HasFd(m, e, s)
             /\ \A e \in Fds : Writes(x, e, s) <=> Writes(m, e, s)
             /\ InUse(x, s) <=> InUse(m, s)
             /\ Unwritten(x, s) <=> Unwritten(m, s)
  <2>1. \A e \in Fds : HasFd(x, e, s) <=> HasFd(m, e, s)
    BY <1>2, <1>5 DEF HasFd
  <2>2. \A e \in Fds : Writes(x, e, s) <=> Writes(m, e, s)
    BY <1>5, <2>1 DEF Writes
  <2>3. InUse(x, s) <=> InUse(m, s)
    BY <1>2 DEF InUse
  <2> QED
    BY <2>1, <2>2, <2>3 DEF Unwritten
<1>7. ASSUME NEW s \in DirSlots PROVE SlotOK(x, Q[s], s)
  <2>1. SlotOK(m, Q[s], s)
    BY DEF Files, SlotsOK
  <2> QED
    BY <1>2, <1>5, <1>6, <2>1 DEF SlotOK
<1>8. ASSUME NEW e \in Fds, NEW s \in DirSlots, HasFd(x, e, s)
      PROVE  FdOK(x.fd[e], x.dir[s], Q[s])
  <2>1. HasFd(m, e, s) /\ FdOK(m.fd[e], m.dir[s], Q[s])
    BY <1>6, <1>8 DEF Files, FdsOK
  <2>2. CASE e # d
    BY <1>2, <2>1, <2>2
  <2>3. CASE e = d
    <3>1. s = s0 /\ f.mode # READ
      BY <2>1, <2>3, WriterIs DEF Files, Writes, f
    <3>2. CursorOK(g, Q[s])
      BY <1>2, <2>1, <2>3 DEF FdOK, CursorOK, f
    <3>3. Behind(g, m.dir[s])
      <4>1. Behind(f, m.dir[s])
        BY <2>1, <2>3, <3>1 DEF FdOK, f
      <4>2. g.size \in Nat /\ m.dir[s].size \in Nat
        BY <1>2, <1>3, FilesTypes DEF Extent, f
      <4>3. g.size <= ClusterSize \/ g.size <= g.pos
        BY <1>2, <1>4, <4>1, <4>2 DEF Behind
      <4>4. m.dir[s].size <= g.size
        BY <1>3, <1>4, <4>1, <4>2 DEF Behind
      <4> QED
        BY <1>2, <4>1, <4>3, <4>4 DEF Behind
    <3> QED
      BY <1>2, <2>3, <3>1, <3>2, <3>3 DEF FdOK, g
  <2> QED
    BY <2>2, <2>3
<1>9. OneSlot(x) /\ OneWriter(x) /\ Housed(x)
  <2>1. OneSlot(x)
    BY <1>2 DEF Files, OneSlot, InUse
  <2>2. OneWriter(x)
    BY <1>5 DEF Files, OneWriter
  <2>3. Housed(x)
    BY <1>2, <1>5 DEF Files, Housed
  <2> QED
    BY <2>1, <2>2, <2>3
<1>10. Files(x, Q)
  BY <1>2, <1>7, <1>8, <1>9 DEF Files, SlotsOK, FdsOK
<1>11. Clean(m, Q) => Clean(x, Q)
  BY <1>2, <1>5, <1>6 DEF Clean, Tight, Counted
<1> QED
  BY <1>10, <1>11

LEMMA WriteOK ==
  ASSUME FilesInv, NEW d \in Fds, NEW count \in 1..MaxFileSize, fs_write(d, count)
  PROVE  FilesInv'
<1> DEFINE ws == << "fat", "super" >>
<1>1. PICK a, m1, m : /\ a = Allowed(d, count) /\ m1 = AfterWrite(d, a) /\ m = Grown(m1, d)
                      /\ Writable(d) /\ Finish("write", m, ws)
  BY DEF fs_write
<1>2. Valid /\ fd_table[d].in_use /\ fd_table[d].mode # READ
  BY <1>1 DEF Writable
<1>3. PICK Q0 : Files(Mem, Q0) /\ AtRest(Mem) /\ (failures = 0 => Clean(Mem, Q0))
  BY <1>2, InvIs
<1>4. PICK s0 \in DirSlots : Writes(Mem, d, s0)
  BY <1>2, <1>3, MemIs DEF Files, Housed, HasFd, Writes
<1>5. a \in Nat /\ fd_table[d].pos + a <= MaxFileSize
  <2>1. fd_table[d].pos \in Nat /\ fd_table[d].pos <= MaxFileSize
    BY <1>3, MemIs, FilesTypes
  <2> QED
    BY <1>1, <2>1, Sizes DEF Allowed, Min2
<1>6. m1 \in MemType /\ Midway(m1, Q0, d, s0)
  BY <1>1, <1>3, <1>4, <1>5, AfterWriteIs
<1>7. PICK Q : Files(m1, Q) /\ Since(m1, Q, Q0, d, s0) /\ (failures = 0 => Clean(m1, Q))
  BY <1>6 DEF Midway
<1>8. /\ m1.dir = root_dir /\ m1.super.valid = superblock.valid
      /\ \A x \in Fds : x # d => m1.fd[x] = fd_table[x]
      /\ Writes(m1, d, s0)
  BY <1>4, <1>7, MemIs DEF Since, Writes, HasFd
<1>9. Files(m, Q) /\ (failures = 0 => Clean(m, Q))
  BY <1>1, <1>7, <1>8, GrownOK
<1>10. /\ m \in MemType /\ m.super = m1.super /\ m.dir = m1.dir /\ m.fat = m1.fat
       /\ m.data = m1.data
       /\ \A x \in Fds : x # d => m.fd[x] = m1.fd[x]
       /\ m.fd[d].pos = m1.fd[d].pos /\ m.fd[d].size = Extent(m1.fd[d]) /\ m.fd[d].modified
  BY <1>1, <1>6, GrownIs
<1>11. AtRest(m)
  <2> SUFFICES ASSUME NEW x \in Fds, NEW s \in DirSlots, HasFd(m, x, s)
               PROVE  Settled(m.fd[x], m.dir[s])
    BY DEF AtRest
  <2>1. CASE x # d
    <3>1. m.fd[x] = Mem.fd[x] /\ m.dir[s] = Mem.dir[s]
      BY <1>8, <1>10, <2>1, MemIs
    <3>2. HasFd(Mem, x, s)
      BY <3>1 DEF HasFd
    <3> QED
      BY <1>3, <3>1, <3>2 DEF AtRest
  <2>2. CASE x = d
    <3>1. m1.fd[d].pos \in Nat /\ m1.fd[d].size \in Nat
      BY <1>7, FilesTypes
    <3>2. m.fd[d].pos <= m.fd[d].size
      BY <1>10, <3>1 DEF Extent
    <3> QED
      BY <1>10, <2>2, <3>2 DEF Settled
  <2> QED
    BY <2>1, <2>2
<1>12. Sound(m)
  BY <1>2, <1>8, <1>9, <1>10, <1>11 DEF Sound, Valid
<1>13. Complete(m, ws)
  <2>1. Len(ws) = 2 /\ ws[1] = "fat" /\ ws[2] = "super"
    OBVIOUS
  <2>2. Got(ws, "fat") /\ Got(ws, "super")
    BY <2>1 DEF Got
  <2> QED
    BY <1>8, <1>10, <2>2 DEF Complete
<1>14. CrashSafe(m)
  <2>1. FilesOnDisk(fat, root_dir, m.data, Forgotten(root_dir, Q0))
    BY <1>3, <1>6, <1>7, <1>10, SinceBoots
  <2>2. FilesOnDisk(m.fat, m.dir, m.data, Forgotten(m.dir, Q))
    BY <1>9, ForgetOK
  <2> QED
    BY <1>8, <1>10, <2>1, <2>2 DEF CrashSafe
<1> HIDE DEF ws
<1> QED
  BY <1>1, <1>2, <1>12, <1>13, <1>14, FinishOK

----------------------------------------------------------------------------
(***************************************************************************)
(* The theorems.                                                           *)
(***************************************************************************)
LEMMA InitOK ==
  ASSUME Init PROVE FilesInv
<1>1. /\ superblock = [valid |-> FALSE, free |-> 0] /\ fat = [c \in ClusterNos |-> FAT_FREE]
      /\ root_dir = NoFiles /\ fd_table = Closed /\ data = [c \in ClusterNos |-> Blank]
      /\ disk = [super |-> superblock, fat |-> fat, dir |-> root_dir] /\ failures = 0
  BY DEF Init
<1>2. superblock \in SuperType /\ ~ superblock.valid
  BY <1>1 DEF SuperType
<1>3. fat \in FatType
  BY <1>1, FatValues DEF FatType, FAT_FREE
<1>4. root_dir \in DirType
  <2>1. FreeEntry \in EntryType
    BY Sizes DEF FreeEntry, EntryType, ClusterNos
  <2> QED
    BY <1>1, <2>1 DEF DirType, EntryType, NoFiles
<1>5. data \in DataType
  <2>1. << NoName, 0 >> \in Marks
    BY Sizes DEF Marks
  <2>2. Blank \in [Bytes -> Marks]
    BY <2>1 DEF Blank
  <2> QED
    BY <1>1, <2>2 DEF DataType
<1>6. Mem \in MemType
  BY <1>1, <1>2, <1>3, <1>4, <1>5, ClosedIs DEF Mem, MemType
<1>7. failures \in 0..MaxFailures
  BY <1>1, FileSystemAssumption
<1> QED
  BY <1>1, <1>2, <1>6, <1>7 DEF FilesInv, Durable, Valid

LEMMA SameFiles == ASSUME FilesInv, UNCHANGED vars PROVE FilesInv'
<1>1. UNCHANGED << superblock, fat, root_dir, fd_table, data, disk, failures >>
  BY DEF vars, memory
<1>2. Mem' = Mem
  BY <1>1 DEF Mem
<1>3. Durable' /\ failures' \in 0..MaxFailures
  BY <1>1 DEF FilesInv, Durable
<1>4. CASE ~ Valid
  BY <1>1, <1>2, <1>3, <1>4 DEF FilesInv, Valid, Closed
<1>5. CASE Valid
  <2>1. PICK Q : Files(Mem, Q) /\ AtRest(Mem) /\ (failures = 0 => Clean(Mem, Q))
    BY <1>5, InvIs
  <2>2. Files(Mem', Q) /\ AtRest(Mem') /\ (failures' = 0 => Clean(Mem', Q))
    BY <1>1, <1>2, <2>1
  <2>3. Mem' \in MemType /\ Valid'
    BY <1>1, <1>2, <1>5 DEF FilesInv, Valid
  <2> QED
    BY <1>3, <2>2, <2>3 DEF FilesInv
<1> QED
  BY <1>4, <1>5

LEMMA StepOK ==
  ASSUME KeepsRules, FilesInv, [Next]_vars PROVE FilesInv'
<1>1. CASE fs_format
  BY <1>1, FormatOK DEF KeepsRules
<1>2. ASSUME NEW name \in Names, fs_create(name) PROVE FilesInv'
  BY <1>2, CreateOK
<1>3. ASSUME NEW name \in Names, NEW mode \in Modes, fs_open(name, mode) PROVE FilesInv'
  <2>1. OpenFds(name) = {} \/ (mode = READ /\ WritingFds(name) = {})
    BY <1>3 DEF fs_open, MayOpen, KeepsRules
  <2>2. PICK s0 \in find_file_by_name(Mem, name) : MayReopen(root_dir[s0], mode)
    BY <1>3 DEF fs_open
  <2>3. \A s \in find_file_by_name(Mem, name) : s = s0
    <3>1. Valid
      BY <1>3 DEF fs_open
    <3>2. OneSlot(Mem)
      BY <3>1, InvIs DEF Files
    <3>3. name # NoName
      BY FileSystemAssumption
    <3> QED
      BY <3>2, <3>3 DEF OneSlot, InUse, find_file_by_name
  <2>4. \A s \in find_file_by_name(Mem, name) : mode = READ \/ root_dir[s].size <= ClusterSize
    BY <2>2, <2>3 DEF MayReopen, KeepsRules
  <2> QED
    BY <1>3, <2>1, <2>4, OpenOK
<1>4. ASSUME NEW name \in Names, fs_delete(name) PROVE FilesInv'
  <2>1. OpenFds(name) = {} /\ SafeCuts
    BY <1>4 DEF fs_delete, MayDelete, KeepsRules
  <2> QED
    BY <1>4, <2>1, DeleteOK
<1>5. ASSUME NEW d \in Fds, fs_close(d) PROVE FilesInv'
  BY <1>5, CloseOK
<1>6. ASSUME NEW d \in Fds, NEW count \in 1..MaxFileSize, fs_read(d, count) PROVE FilesInv'
  BY <1>6, ReadOK
<1>7. ASSUME NEW d \in Fds, NEW count \in 1..MaxFileSize, fs_write(d, count) PROVE FilesInv'
  BY <1>7, WriteOK
<1>8. CASE fs_sync
  BY <1>8, SyncOK
<1>9. CASE UNCHANGED vars
  BY <1>9, SameFiles
<1> QED
  BY <1>1, <1>2, <1>3, <1>4, <1>5, <1>6, <1>7, <1>8, <1>9 DEF Next

\* What the invariant says about files.
LEMMA TypesFromInv == FilesInv => TypeOK
<1> SUFFICES ASSUME FilesInv PROVE TypeOK
  OBVIOUS
<1>1. /\ superblock \in SuperType /\ fat \in FatType /\ root_dir \in DirType
      /\ fd_table \in [Fds -> FdType] /\ data \in DataType /\ failures \in 0..MaxFailures
  BY MemIs DEF FilesInv, MemType
<1>2. disk.super = superblock /\ disk.fat = fat /\ disk.dir = root_dir
  BY DEF FilesInv, Durable
<1> QED
  BY <1>1, <1>2 DEF TypeOK, FdType, DataType, Marks

LEMMA ChainsFromInv == FilesInv => ChainsSound
<1> SUFFICES ASSUME FilesInv PROVE ChainsSound
  OBVIOUS
<1>1. CASE Valid
  BY <1>1, InvIs, ChainsFollow
<1>2. CASE ~ Valid
  BY <1>2 DEF ChainsSound
<1> QED
  BY <1>1, <1>2

LEMMA BytesFromInv == FilesInv => BytesInPlace
<1> SUFFICES ASSUME FilesInv PROVE BytesInPlace
  OBVIOUS
<1>1. CASE Valid
  BY <1>1, InvIs, BytesFollow
<1>2. CASE ~ Valid
  BY <1>2 DEF BytesInPlace
<1> QED
  BY <1>1, <1>2

LEMMA CursorFromInv == FilesInv => CursorOnChain
<1> SUFFICES ASSUME FilesInv PROVE CursorOnChain
  OBVIOUS
<1>1. CASE Valid
  BY <1>1, InvIs, CursorFollows
<1>2. CASE ~ Valid
  <2>1. \A d \in Fds : ~ fd_table[d].in_use
    BY <1>2, ClosedIs DEF FilesInv
  <2> QED
    BY <2>1 DEF CursorOnChain
<1> QED
  BY <1>1, <1>2

LEMMA ClustersFromInv == FilesInv => NoClusterLost
<1> SUFFICES ASSUME FilesInv PROVE NoClusterLost
  OBVIOUS
<1>1. CASE Valid /\ failures = 0
  <2>1. PICK Q : Files(Mem, Q) /\ AtRest(Mem) /\ Clean(Mem, Q)
    BY <1>1, InvIs
  <2>2. Kept(fat, Q)
    BY <2>1, MemIs DEF Clean
  <2> QED
    BY <2>1, <2>2, LostFollows
<1>2. CASE ~ (Valid /\ failures = 0)
  BY <1>2 DEF NoClusterLost
<1> QED
  BY <1>1, <1>2

LEMMA CounterFromInv == FilesInv => FreeCountFollows
<1> SUFFICES ASSUME FilesInv PROVE FreeCountFollows
  OBVIOUS
<1>1. CASE Valid /\ failures = 0
  <2>1. PICK Q : Clean(Mem, Q)
    BY <1>1, InvIs
  <2>2. superblock.free = Cardinality(FreeClusters(fat)) + 2
    BY <2>1, MemIs DEF Clean, Counted
  <2> QED
    BY <2>2 DEF FreeCountFollows
<1>2. CASE ~ (Valid /\ failures = 0)
  BY <1>2 DEF FreeCountFollows
<1> QED
  BY <1>1, <1>2

\* Memory and disk of filesystem.c keep their shape, and an inductive invariant
\* about every file's chain, bytes and descriptors holds, for any sizes.
THEOREM FilesHold == ASSUME KeepsRules PROVE Spec => []FilesInv
<1>1. Init => FilesInv
  BY InitOK
<1>2. FilesInv /\ [Next]_vars => FilesInv'
  BY StepOK
<1> QED
  BY <1>1, <1>2, PTL DEF Spec

\* The superblock, the FAT, the directory, the descriptors and what the disk has
\* of them keep their types, through every operation and failure of the power.
THEOREM TypesHold == ASSUME KeepsRules PROVE Spec => []TypeOK
<1> QED
  BY TypesFromInv, FilesHold, PTL

\* No two files ever share a cluster, and every chain is long enough for its
\* file, through writes that run out of clusters, deletes, and failures of the
\* power between any two writes of create, write, close and sync.
THEOREM ChainsAreSound == ASSUME KeepsRules PROVE Spec => []ChainsSound
<1> QED
  BY ChainsFromInv, FilesHold, PTL

\* fs_write puts every byte where fs_read of the same offset looks for it, and
\* no other file's write, no delete and no failure of the power moves it.
THEOREM BytesStayInPlace == ASSUME KeepsRules PROVE Spec => []BytesInPlace
<1> QED
  BY BytesFromInv, FilesHold, PTL

\* An open descriptor's current cluster always holds the byte before its
\* position: fs_read and fs_write continue on the file's own chain.
THEOREM CursorStaysOnChain == ASSUME KeepsRules PROVE Spec => []CursorOnChain
<1> QED
  BY CursorFromInv, FilesHold, PTL

\* While the power does not fail, every allocated cluster belongs to a file.
THEOREM ClustersAreKept == ASSUME KeepsRules PROVE Spec => []NoClusterLost
<1> QED
  BY ClustersFromInv, FilesHold, PTL

\* While the power does not fail, the superblock's counter is the number of free
\* clusters (and the two reserved ones), so that alloc_cluster refuses only when
\* the disk is full.
THEOREM CounterIsRight == ASSUME KeepsRules PROVE Spec => []FreeCountFollows
<1> QED
  BY CounterFromInv, FilesHold, PTL

=============================================================================
