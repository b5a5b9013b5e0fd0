----------------------------- MODULE FileSystem -----------------------------
(***************************************************************************)
(* filesystem.c: superblock, FAT and root directory cached in memory and   *)
(* written back one disk_write_sectors call after the other.  Cluster data *)
(* goes to the disk at once.  The power may fail between two writes of an  *)
(* operation that Cuts names; the machine then boots from what the disk    *)
(* holds.  The disk reports no errors here, and has no more clusters than  *)
(* the FAT cache has entries.                                              *)
(***************************************************************************)
EXTENDS Integers, Sequences, FiniteSets

CONSTANTS
  Names,        \* file names
  MaxFiles,     \* FS_MAX_FILES
  MaxOpen,      \* FS_MAX_OPEN
  Clusters,     \* superblock.total_clusters
  ClusterSize,  \* FS_CLUSTER_SIZE
  MaxFileSize,  \* FS_MAX_FILESIZE
  Overlap,      \* whether programs open or delete a file somebody writes, or
                \* write or delete a file somebody has open
  LongModes,    \* modes other than READ in which programs open a file that
                \* is longer than a cluster
  Cuts,         \* operations the power may fail in
  MaxFailures   \* bound: how often the power fails

READ == "read"
WRITE == "write"
APPEND == "append"
Modes == {READ, WRITE, APPEND}
NoName == "none"

ASSUME FileSystemAssumption ==
  /\ NoName \notin Names
  /\ \A n \in {MaxFiles, MaxOpen, ClusterSize, MaxFileSize} : n \in Nat \ {0}
  /\ Clusters \in Nat /\ Clusters > 2
  /\ Overlap \in BOOLEAN
  /\ LongModes \subseteq {WRITE, APPEND}
  /\ Cuts \subseteq {"format", "create", "close", "write", "delete", "sync"}
  /\ MaxFailures \in Nat

VARIABLES
  superblock,  \* whether the magic number is right, and free_clusters;
               \* total_files is left out: nothing ever reads it
  fat,
  root_dir,
  fd_table,
  data,        \* for every byte of a cluster the file and offset it was
               \* written for since the cluster was last free
  disk,        \* superblock, FAT and root directory as the disk has them
  failures     \* how often the power has failed

memory == << superblock, fat, root_dir, fd_table >>
vars == << memory, data, disk, failures >>

FAT_FREE == 0
FAT_EOF == Clusters + 1
FAT_BAD == Clusters

ClusterNos == 0..(Clusters - 1)
Bytes == 0..(ClusterSize - 1)
DirSlots == 0..(MaxFiles - 1)
Fds == 0..(MaxOpen - 1)

FreeEntry == [name |-> NoName, first |-> 0, size |-> 0]
ClosedFd == [in_use |-> FALSE, name |-> NoName, first |-> 0, size |-> 0, pos |-> 0,
             cur |-> 0, mode |-> READ, modified |-> FALSE]
Blank == [b \in Bytes |-> << NoName, 0 >>]

SuperType == [valid : BOOLEAN, free : Nat]
FatType == [ClusterNos -> 0..FAT_EOF]
DirType == [DirSlots -> [name : Names \cup {NoName}, first : ClusterNos, size : 0..MaxFileSize]]

TypeOK ==
  /\ superblock \in SuperType
  /\ fat \in FatType
  /\ root_dir \in DirType
  /\ \A d \in Fds :
       fd_table[d] \in [in_use : BOOLEAN, name : Names \cup {NoName}, first : ClusterNos,
                        size : 0..MaxFileSize, pos : 0..MaxFileSize, cur : ClusterNos,
                        mode : Modes, modified : BOOLEAN]
  /\ data \in [ClusterNos -> [Bytes -> (Names \cup {NoName}) \X (0..MaxFileSize)]]
  /\ failures \in 0..MaxFailures
  /\ disk.super \in SuperType /\ disk.fat \in FatType /\ disk.dir \in DirType

NoFiles == [s \in DirSlots |-> FreeEntry]
Closed == [d \in Fds |-> ClosedFd]

\* A disk of zeros.
Init ==
  /\ superblock = [valid |-> FALSE, free |-> 0]
  /\ fat = [c \in ClusterNos |-> FAT_FREE]
  /\ root_dir = NoFiles
  /\ fd_table = Closed
  /\ data = [c \in ClusterNos |-> Blank]
  /\ disk = [super |-> superblock, fat |-> fat, dir |-> root_dir]
  /\ failures = 0

----------------------------------------------------------------------------
(***************************************************************************)
(* An operation computes a new memory m and then issues the writes ws.     *)
(***************************************************************************)
Mem == [super |-> superblock, fat |-> fat, dir |-> root_dir, fd |-> fd_table, data |-> data]

Become(m) ==
  /\ superblock' = m.super /\ fat' = m.fat
  /\ root_dir' = m.dir /\ fd_table' = m.fd

\* disk_write_sectors of each structure that ws names.
Written(m, ws) ==
  LET got(s) == \E i \in 1..Len(ws) : ws[i] = s
  IN [super |-> IF got("super") THEN m.super ELSE disk.super,
      fat   |-> IF got("fat") THEN m.fat ELSE disk.fat,
      dir   |-> IF got("dir") THEN m.dir ELSE disk.dir]

\* fs_init.
Mounted(d) == [super |-> d.super, fat |-> d.fat, dir |-> d.dir, fd |-> Closed]

\* The operation op ends, or the power fails after some of its writes.
Finish(op, m, ws) ==
  \/ /\ Become(m)
     /\ data' = m.data
     /\ disk' = Written(m, ws)
     /\ UNCHANGED failures
  \/ /\ op \in Cuts /\ failures < MaxFailures
     /\ failures' = failures + 1
     /\ \E k \in 0..Len(ws) :
          /\ disk' = Written(m, SubSeq(ws, 1, k))
          /\ Become(Mounted(disk'))
          /\ data' = [c \in ClusterNos |->
                        IF disk'.fat[c] = FAT_FREE THEN Blank ELSE m.data[c]]

----------------------------------------------------------------------------
Least(S) == CHOOSE i \in S : \A j \in S : i <= j

find_file_by_name(m, name) == {s \in DirSlots : m.dir[s].name = name}
FreeSlots(m) == {s \in DirSlots : m.dir[s].name = NoName}
FreeFds(m) == {d \in Fds : ~ m.fd[d].in_use}
FreeClusters(f) == {c \in ClusterNos : f[c] = FAT_FREE}

\* alloc_cluster fails without a free cluster, or when the counter says so.
CanAlloc(m) == m.super.free # 0 /\ FreeClusters(m.fat) # {}

\* Faulty variant: the cluster is not marked as taken.
alloc_cluster_unmarked(m, c) == [m EXCEPT !.super.free = @ - 1]

alloc_cluster(m, c) == [m EXCEPT !.fat[c] = FAT_EOF, !.super.free = @ - 1]

fat_read(m, c) == IF c < Clusters THEN m.fat[c] ELSE FAT_BAD
fat_write(m, c, v) == IF c < Clusters THEN [m EXCEPT !.fat[c] = v] ELSE m

\* Faulty variant: the counter is not touched.
free_cluster_uncounted(m, c) == [m EXCEPT !.fat[c] = FAT_FREE, !.data[c] = Blank]

free_cluster(m, c) ==
  [m EXCEPT !.fat[c] = FAT_FREE, !.super.free = @ + 1, !.data[c] = Blank]

\* Faulty variant: only the first cluster is freed.
free_cluster_head(m, start) == free_cluster(m, start)

\* The walk frees one cluster per step and stops behind the end of the chain
\* or at a cluster that is free already.
free_cluster_chain(m, start) ==
  LET walk[k \in 0..Clusters] ==
        IF k = 0 THEN [m |-> m, at |-> start]
        ELSE LET w == walk[k - 1]
             IN IF w.at >= Clusters \/ fat_read(w.m, w.at) = FAT_FREE THEN w
                ELSE [m |-> free_cluster(w.m, w.at), at |-> fat_read(w.m, w.at)]
  IN walk[Clusters].m

----------------------------------------------------------------------------
\* kernel_main formats a disk without the magic number.  Clusters 0 and 1 are
\* reserved; the free count includes them.
fs_format ==
  /\ ~superblock.valid
  /\ Finish("format",
            [Mem EXCEPT !.super = [valid |-> TRUE, free |-> Clusters],
                        !.fat = [c \in ClusterNos |-> IF c \in {0, 1} THEN FAT_EOF ELSE FAT_FREE],
                        !.dir = NoFiles, !.fd = Closed],
            << "super", "fat", "dir" >>)

\* Every other call returns -1 without a valid file system.
Valid == superblock.valid

fs_create(name) ==
  /\ Valid
  /\ find_file_by_name(Mem, name) = {} /\ FreeSlots(Mem) # {}
  /\ Finish("create",
            [Mem EXCEPT !.dir[Least(FreeSlots(Mem))] = [name |-> name, first |-> 0, size |-> 0]],
            << "dir", "super" >>)

OpenFds(name) == {d \in Fds : fd_table[d].in_use /\ fd_table[d].name = name}
WritingFds(name) == {d \in OpenFds(name) : fd_table[d].mode # READ}

\* What programs ask for.
MayOpen(name, mode) ==
  \/ Overlap
  \/ OpenFds(name) = {}
  \/ mode = READ /\ WritingFds(name) = {}
MayReopen(e, mode) == mode = READ \/ e.size <= ClusterSize \/ mode \in LongModes
MayDelete(name) == Overlap \/ OpenFds(name) = {}

fs_open(name, mode) ==
  /\ Valid /\ MayOpen(name, mode)
  /\ FreeFds(Mem) # {}
  /\ \E s \in find_file_by_name(Mem, name) :
       LET e == root_dir[s]
       IN /\ MayReopen(e, mode)
          /\ fd_table' = [fd_table EXCEPT ![Least(FreeFds(Mem))] =
                            [in_use |-> TRUE, name |-> name, first |-> e.first, size |-> e.size,
                             pos |-> IF mode = APPEND THEN e.size ELSE 0,
                             cur |-> e.first, mode |-> mode, modified |-> FALSE]]
  /\ UNCHANGED << superblock, fat, root_dir, data, disk, failures >>

\* A modified file gets the descriptor's first cluster and size, if the
\* directory still has an entry of its name.
fs_close(d) ==
  /\ Valid /\ fd_table[d].in_use
  /\ LET f == fd_table[d]
         S == IF f.modified THEN find_file_by_name(Mem, f.name) ELSE {}
         m == [Mem EXCEPT !.fd[d] = ClosedFd,
                          !.dir = [s \in DirSlots |->
                                     IF s \in S THEN [@[s] EXCEPT !.first = f.first, !.size = f.size]
                                     ELSE @[s]]]
     IN Finish("close", m, IF S = {} THEN << >> ELSE << "dir" >>)

AtBoundary(f) == f.pos % ClusterSize = 0 /\ f.pos > 0
Min2(a, b) == IF a < b THEN a ELSE b

\* The descriptor after the loop of fs_read: cluster by cluster, moving to the
\* next one before the first byte of it is read.
ReadLoop(d, count) ==
  LET f == fd_table[d]
      n == Min2(count, f.size - f.pos)
      step[k \in 0..count] ==
        IF k = 0 THEN [f |-> f, left |-> n]
        ELSE LET w == step[k - 1]
                 c == IF AtBoundary(w.f) THEN fat_read(Mem, w.f.cur) ELSE w.f.cur
                 chunk == Min2(w.left, ClusterSize - (w.f.pos % ClusterSize))
             IN IF w.left = 0 \/ c >= FAT_EOF THEN [w EXCEPT !.left = 0]
                ELSE [f |-> [w.f EXCEPT !.cur = c, !.pos = @ + chunk], left |-> w.left - chunk]
  IN step[count].f

\* Faulty variant: the cluster reached is not kept in the descriptor.
AfterReadForgets(d, count) == [ReadLoop(d, count) EXCEPT !.cur = fd_table[d].cur]

AfterRead(d, count) == ReadLoop(d, count)

fs_read(d, count) ==
  /\ Valid /\ fd_table[d].in_use /\ fd_table[d].mode = READ
  /\ fd_table[d].size # 0
  /\ fd_table' = [fd_table EXCEPT ![d] = AfterRead(d, count)]
  /\ UNCHANGED << superblock, fat, root_dir, data, disk, failures >>

\* A file that needs a cluster gets a new one, linked behind the current one.
Extend(m, d, c) ==
  LET f == m.fd[d]
      a == alloc_cluster(m, c)
  IN IF f.first = 0
     THEN [a EXCEPT !.fd[d].first = c, !.fd[d].cur = c]
     ELSE [fat_write(a, f.cur, c) EXCEPT !.fd[d].cur = c]

NeedsCluster(f) == f.cur = 0 \/ AtBoundary(f)

\* n bytes at the position go to the current cluster.
Store(m, d, n) ==
  LET f == m.fd[d]
      off == f.pos % ClusterSize
  IN [m EXCEPT !.data[f.cur] = [b \in Bytes |->
                                  IF b \in off..(off + n - 1)
                                  THEN << f.name, f.pos + b - off >> ELSE @[b]],
               !.fd[d].pos = @ + n]

\* The loop of fs_write, at most one cluster per turn, until all is written or
\* no cluster is left.
AfterWrite(d, count) ==
  LET turn[k \in 0..count] ==
        IF k = 0 THEN [m |-> Mem, left |-> count]
        ELSE LET w == turn[k - 1]
                 f == w.m.fd[d]
                 n == Min2(w.left, ClusterSize - (f.pos % ClusterSize))
             IN IF w.left = 0 THEN w
                ELSE IF ~NeedsCluster(f) THEN [m |-> Store(w.m, d, n), left |-> w.left - n]
                ELSE IF ~CanAlloc(w.m) THEN [w EXCEPT !.left = 0]
                ELSE [m |-> Store(Extend(w.m, d, Least(FreeClusters(w.m.fat))), d, n),
                      left |-> w.left - n]
  IN turn[count].m

\* The descriptor's new size, and the mark for fs_close.
Grown(m, d) ==
  [m EXCEPT !.fd[d].size = IF m.fd[d].pos > @ THEN m.fd[d].pos ELSE @,
            !.fd[d].modified = TRUE]

Writable(d) == Valid /\ fd_table[d].in_use /\ fd_table[d].mode # READ
Allowed(d, count) == Min2(count, MaxFileSize - fd_table[d].pos)

\* Faulty variant: the FAT is not written back.
fs_write_keeps_fat(d, count) ==
  /\ Writable(d) /\ Allowed(d, count) # 0
  /\ Finish("write", Grown(AfterWrite(d, Allowed(d, count)), d), << "super" >>)

fs_write(d, count) ==
  /\ Writable(d) /\ Allowed(d, count) # 0
  /\ Finish("write", Grown(AfterWrite(d, Allowed(d, count)), d), << "fat", "super" >>)

fs_delete(name) ==
  /\ Valid /\ MayDelete(name)
  /\ \E s \in find_file_by_name(Mem, name) :
       LET first == root_dir[s].first
           m == IF first = 0 THEN Mem ELSE free_cluster_chain(Mem, first)
       IN Finish("delete",
                 [m EXCEPT !.dir[s] = FreeEntry],
                 << "fat", "dir", "super" >>)

fs_sync ==
  /\ Valid
  /\ Finish("sync", Mem, << "super", "fat", "dir" >>)

Next ==
  \/ fs_format
  \/ \E name \in Names :
       \/ fs_create(name)
       \/ \E mode \in Modes : fs_open(name, mode)
       \/ fs_delete(name)
  \/ \E d \in Fds :
       \/ fs_close(d)
       \/ \E count \in 1..MaxFileSize : fs_read(d, count) \/ fs_write(d, count)
  \/ fs_sync

Spec == Init /\ [][Next]_vars

----------------------------------------------------------------------------
\* The k-th cluster of the chain that starts at c in the FAT f; behind the
\* end of the chain, no cluster number.
Link(f, c, k) ==
  LET at[i \in 0..k] ==
        IF i = 0 THEN c ELSE IF at[i - 1] \in ClusterNos THEN f[at[i - 1]] ELSE FAT_EOF
  IN at[k]
Chain(f, c) ==
  IF c = 0 THEN {} ELSE {Link(f, c, k) : k \in ClusterNos} \cap ClusterNos

\* A file as its writer sees it, if somebody writes it, and as the directory
\* has it otherwise.
Entry(s) ==
  LET W == WritingFds(root_dir[s].name)
  IN IF W = {} THEN root_dir[s] ELSE LET d == Least(W)
                                     IN [name |-> fd_table[d].name, first |-> fd_table[d].first,
                                         size |-> fd_table[d].size]
Used == {s \in DirSlots : root_dir[s].name # NoName}
ClustersOf(s) == Chain(fat, Entry(s).first)

\* No cluster belongs to two files, a file holds no free and no reserved
\* cluster, and its chain is long enough for its size: through writes that
\* run out of clusters, deletes, and a failure of the power between any two
\* writes of create, write, close and sync.
ChainsSound ==
  Valid =>
    /\ \A s \in Used :
         /\ ClustersOf(s) \subseteq 2..(Clusters - 1)
         /\ \A c \in ClustersOf(s) : fat[c] # FAT_FREE
         /\ Entry(s).size <= ClusterSize * Cardinality(ClustersOf(s))
    /\ \A s, t \in Used : s # t => ClustersOf(s) \cap ClustersOf(t) = {}

\* Each byte of a file is where a reader looks for it: it was last written for
\* this file and this offset.
BytesInPlace ==
  Valid => \A s \in Used : \A i \in 0..(Entry(s).size - 1) :
    LET c == Link(fat, Entry(s).first, i \div ClusterSize)
    IN c \in ClusterNos /\ data[c][i % ClusterSize] = << Entry(s).name, i >>

\* An open file's current cluster is the one that holds the byte before its
\* position, so that the next read or write continues there.
CursorOnChain ==
  \A d \in Fds : fd_table[d].in_use =>
    LET f == fd_table[d]
    IN f.cur = IF f.pos = 0 THEN f.first
               ELSE Link(fat, f.first, (f.pos - 1) \div ClusterSize)

\* filesystem.c allocates a cluster only when one is needed: while the power
\* does not fail, what is allocated belongs to a file.
NoClusterLost ==
  Valid /\ failures = 0 => {c \in ClusterNos : fat[c] # FAT_FREE} \subseteq
             {0, 1} \cup UNION {ClustersOf(s) : s \in Used}

\* The counter follows the FAT while the power does not fail: allocation fails
\* only when no cluster is free.  (It counts the two reserved clusters as well.)
FreeCountFollows ==
  Valid /\ failures = 0 => superblock.free = Cardinality(FreeClusters(fat)) + 2

=============================================================================
