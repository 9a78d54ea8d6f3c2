-------------------------------- MODULE Ext2 --------------------------------
(***************************************************************************)
(* A mounted ext2 volume: the block bitmap, the free counts of the groups  *)
(* and of the superblock, the inodes on the disk, and the copies of them   *)
(* that open files hold (each lookup makes a new one).                     *)
(*                                                                         *)
(* Source: zenos-kernel/src/disk/fs/ext2/{mod,plumbing}.rs.  Operations    *)
(* run under the volume's lock.  As in Fat, sizes count cells and a cell   *)
(* that was written is named by its inode and position.                    *)
(***************************************************************************)
EXTENDS Integers, Sequences, FiniteSets, FiniteSetsExt, SequencesExt, Functions

CONSTANTS
    BlockCells,      \* cells per block
    Direct,          \* direct pointers of an inode (12)
    Pointers,        \* pointers per block (block size / 4)
    BlocksPerGroup,
    GroupCount,
    FirstDataBlock,  \* first_data_blk: 1 when blocks are of 1 KiB, else 0
    Reserved,        \* the blocks of superblocks, descriptors, bitmaps and inode tables
    Inodes,          \* the inode numbers of the files
    Modes,           \* for each inode, its owner's permissions: subsets of {"r", "w"}
    Kinds,           \* the type of every inode that the directory names
    DirBlocks,       \* the directory's blocks: sequences of records (<<>>: no block)
    DirBytes,        \* its size
    BlockBytes,      \* bytes per block, in the directory
    Copies           \* identities of in-memory copies

VARIABLES
    used,        \* the block bitmap: the blocks marked as used
    groupFree,   \* bg_free_blocks_count, in memory
    superFree,   \* the superblock's free_blocks, in memory
    diskFree,    \* both counts as they are on the disk
    blocks,      \* the contents of the blocks
    inodes,      \* the inodes on the disk
    copy,        \* the ExtFileInodeOps alive: its inode, and the disk's as last read or written
    readOnly,    \* the volume is mounted read-only
    kept,        \* history: for each inode, the positions written and not truncated
    extRefused,  \* history: a write failed half-way
    strayed      \* history: an operation used a copy older than the inode on the disk

ext2Vars == <<used, groupFree, superFree, diskFree, blocks, inodes, copy, readOnly, kept,
              extRefused, strayed>>

Groups == 0 .. GroupCount - 1
Blocks == FirstDataBlock .. FirstDataBlock + GroupCount * BlocksPerGroup - 1
InGroup(g) == {b \in Blocks : (b - FirstDataBlock) \div BlocksPerGroup = g}
GroupOf(b) == (b - FirstDataBlock) \div BlocksPerGroup

Width == IF Pointers > BlockCells THEN Pointers ELSE BlockCells
Stale == -1                                   \* what was in a block before
Super == -2                                   \* a copy of the superblock
Tag(ino, at) == 100 * ino + at                \* the data of a file at a position
Zeros == [k \in 0 .. Width - 1 |-> 0]
NoInode == [size |-> 0, direct |-> [k \in 0 .. Direct - 1 |-> 0], single |-> 0, double |-> 0]
NoCopy == [ino |-> 0, inode |-> NoInode, disk |-> NoInode]

-----------------------------------------------------------------------------
(* A call works on what it has locked: the bitmap, counts and blocks, the  *)
(* inode it holds, the block it has reached, and whether it has failed.    *)
Work(inode) == [used |-> used, groups |-> groupFree, super |-> superFree, blocks |-> blocks,
                inode |-> inode, at |-> 0, ok |-> TRUE]

(* allocate_block: the first free bit of the first group that counts one.  *)
Candidates(w) == {g \in Groups : w.groups[g] > 0 /\ InGroup(g) \ w.used # {}}

AllocateUncounted(w) ==                       \* mutant: the superblock's count is left
    IF ~w.ok \/ Candidates(w) = {} THEN [w EXCEPT !.ok = FALSE]
    ELSE LET g == Min(Candidates(w))
             b == Min(InGroup(g) \ w.used)
         IN  [w EXCEPT !.used = @ \cup {b}, !.groups[g] = @ - 1, !.at = b]
allocate_block(w) ==
    IF ~w.ok \/ Candidates(w) = {} THEN [w EXCEPT !.ok = FALSE]
    ELSE LET g == Min(Candidates(w))
             b == Min(InGroup(g) \ w.used)
         IN  [w EXCEPT !.used = @ \cup {b}, !.groups[g] = @ - 1, !.super = @ - 1, !.at = b]

(* free_block: the bit is cleared and counted whether or not it was set.   *)
free_block(w, b) ==
    [w EXCEPT !.used = @ \ {b}, !.groups[GroupOf(b)] = @ + 1, !.super = @ + 1]

(* One step of get_or_alloc_block: follow a pointer, or allocate a block   *)
(* for it.  New pointer blocks are zeroed.                                 *)
Cleared(w) == IF w.ok THEN [w EXCEPT !.blocks[w.at] = Zeros] ELSE w

DirectStep(w, k) ==
    IF w.inode.direct[k] # 0 THEN [w EXCEPT !.at = w.inode.direct[k]]
    ELSE LET a == allocate_block(w)
         IN  IF a.ok THEN [a EXCEPT !.inode.direct[k] = a.at] ELSE a
SingleStep(w) ==
    IF w.inode.single # 0 THEN [w EXCEPT !.at = w.inode.single]
    ELSE LET a == Cleared(allocate_block(w))
         IN  IF a.ok THEN [a EXCEPT !.inode.single = a.at] ELSE a
DoubleStep(w) ==
    IF w.inode.double # 0 THEN [w EXCEPT !.at = w.inode.double]
    ELSE LET a == Cleared(allocate_block(w))
         IN  IF a.ok THEN [a EXCEPT !.inode.double = a.at] ELSE a
PointerStep(w, k, toPointers) ==
    IF ~w.ok THEN w
    ELSE IF w.blocks[w.at][k] # 0 THEN [w EXCEPT !.at = w.blocks[w.at][k]]
    ELSE LET a == allocate_block(w)
             c == IF toPointers THEN Cleared(a) ELSE a
         IN  IF a.ok THEN [c EXCEPT !.blocks[w.at][k] = a.at] ELSE a

(* Blocks beyond the double indirect ones are refused.                     *)
get_or_alloc_block(w, i) ==
    LET j == i - Direct
        m == j - Pointers
    IN  IF i < Direct THEN DirectStep(w, i)
        ELSE IF j < Pointers THEN PointerStep(SingleStep(w), j, FALSE)
        ELSE IF m < Pointers * Pointers
        THEN PointerStep(PointerStep(DoubleStep(w), m \div Pointers, TRUE), m % Pointers, FALSE)
        ELSE [w EXCEPT !.ok = FALSE]

(* collect_data_blocks: the data blocks in order, but pointer blocks that  *)
(* do not exist contribute nothing.                                        *)
PointersIn(b) == [k \in 1 .. Pointers |-> blocks[b][k - 1]]
Level2(b) == FlattenSeq([k \in 1 .. Pointers |->
                 IF blocks[b][k - 1] = 0 THEN <<>> ELSE PointersIn(blocks[b][k - 1])])
collect_data_blocks(n) ==
    [k \in 1 .. Direct |-> n.direct[k - 1]]
        \o (IF n.single = 0 THEN <<>> ELSE PointersIn(n.single))
        \o (IF n.double = 0 THEN <<>> ELSE Level2(n.double))

-----------------------------------------------------------------------------
(* The directory.  get_dentries goes through its blocks up to its size,    *)
(* and through the records of each; one that cannot be right ends its      *)
(* block.                                                                  *)
RecordOk(r, left) ==
    r.len >= 8 /\ r.len <= left /\ r.len % 4 = 0 /\ r.nameLen <= r.len - 8
Scan(a, r) ==
    IF a.stopped \/ ~RecordOk(r, BlockBytes - a.at) THEN [a EXCEPT !.stopped = TRUE]
    ELSE [a EXCEPT !.at = @ + r.len, !.read = @ + r.len,
                   !.entries = IF r.ino = 0 THEN @ ELSE Append(@, r)]
ScanBlock(a, block) ==
    IF a.done \/ block = <<>> \/ a.read >= DirBytes THEN [a EXCEPT !.done = TRUE]
    ELSE FoldLeft(Scan, [a EXCEPT !.at = 0, !.stopped = FALSE], block)
get_dentries ==
    FoldLeft(ScanBlock, [done |-> FALSE, stopped |-> FALSE, read |-> 0, at |-> 0,
                         entries |-> <<>>], DirBlocks).entries

(* lookup takes the first record with the name.  The type of its inode     *)
(* decides: a symbolic link is a panic.  read_dir fails on such a record.  *)
ExtNamed(n) == SelectSeq(get_dentries, LAMBDA r : r.name = n)
ExtKind(n) == IF ExtNamed(n) = <<>> THEN "none" ELSE Kinds[ExtNamed(n)[1].ino]
ExtLookup(n) == ExtNamed(n)[1].ino
ExtListable == \A k \in DOMAIN get_dentries : Kinds[get_dentries[k].ino] \in {"dir", "file"}

-----------------------------------------------------------------------------
(* sync_inode: the inode, then sync_superblock with its backups, and       *)
(* sync_bgdt.  A backup goes to the block numbered group * blocks_per_grp. *)
RECURSIVE PowerOf(_, _)
PowerOf(base, n) == n = base \/ (n % base = 0 /\ n > base /\ PowerOf(base, n \div base))
has_superblock_backup(g) == g \in {0, 1} \/ \E base \in {3, 5, 7} : PowerOf(base, g)
\* mutant: a copy is written one block too far
BackupsNextBlock == {g * BlocksPerGroup + 1 : g \in {h \in Groups \ {0} : has_superblock_backup(h)}}
SuperblockBackups == {g * BlocksPerGroup : g \in {h \in Groups \ {0} : has_superblock_backup(h)}}

SyncInode(c, w) ==
    LET i == copy[c].ino
    IN  /\ inodes' = [inodes EXCEPT ![i] = w.inode]
        /\ copy' = [copy EXCEPT ![c] = [ino |-> i, inode |-> w.inode, disk |-> w.inode]]
        /\ blocks' = [b \in Blocks |-> IF b \in SuperblockBackups
                                       THEN [k \in 0 .. Width - 1 |-> Super] ELSE w.blocks[b]]
        /\ used' = w.used
        /\ groupFree' = w.groups
        /\ superFree' = w.super
        /\ diskFree' = [groups |-> w.groups, super |-> w.super]

(* A copy that the inode on the disk has moved away from.                  *)
Outdated(c) == copy[c].disk # inodes[copy[c].ino]
Stray ==
    /\ ~strayed /\ strayed' = TRUE
    /\ UNCHANGED <<used, groupFree, superFree, diskFree, blocks, inodes, copy, readOnly, kept,
                   extRefused>>

(* lookup makes a copy.                                                    *)
CopyOf(i) == [ino |-> i, inode |-> inodes[i], disk |-> inodes[i]]
ExtOpen(i, c) ==
    /\ copy' = [copy EXCEPT ![c] = CopyOf(i)]
    /\ UNCHANGED <<used, groupFree, superFree, diskFree, blocks, inodes, readOnly, kept,
                   extRefused, strayed>>

(* read: as far as the size and the collected blocks reach.  The inode is  *)
(* written back, with its access time, also when nothing was read.         *)
ExtReadLength(c, at, n) ==
    LET size == copy[c].inode.size
        end == BlockCells * Len(collect_data_blocks(copy[c].inode))
    IN  IF at >= size THEN 0
        ELSE Min({n, size - at} \cup {IF end > at THEN end - at ELSE 0})
ExtRead(c) ==
    /\ SyncInode(c, Work(copy[c].inode))
    /\ UNCHANGED <<readOnly, kept, extRefused, strayed>>

(* write: block by block, with no way back.                                *)
WriteBlock(w, i, ino, at, n) ==
    LET g == get_or_alloc_block(w, i)
    IN  IF ~w.ok THEN w
        ELSE IF ~g.ok THEN g
        ELSE [g EXCEPT !.blocks[g.at] = [k \in 0 .. Width - 1 |->
                  LET p == i * BlockCells + k
                  IN  IF k < BlockCells /\ p \in at .. at + n - 1 THEN Tag(ino, p) ELSE @[k]]]
WriteBlocks(c, at, n) ==
    LET first == at \div BlockCells
        count == (at + n - 1) \div BlockCells - first + 1
    IN  FoldLeft(LAMBDA w, k : WriteBlock(w, first + k - 1, copy[c].ino, at, n),
                 Work(copy[c].inode), [k \in 1 .. count |-> k])

ExtWrite(c, at, n) ==
    LET w == WriteBlocks(c, at, n)
    IN  /\ ~readOnly /\ w.ok
        /\ SyncInode(c, [w EXCEPT !.inode.size = IF at + n > @ THEN at + n ELSE @])
        /\ kept' = [kept EXCEPT ![copy[c].ino] = @ \cup (at .. at + n - 1)]
        /\ UNCHANGED <<readOnly, extRefused, strayed>>

(* A write that finds no block keeps what it allocated in its copy.  One   *)
(* is let happen, the bound of this model.                                 *)
ExtWriteFails(c, at, n) ==
    LET w == WriteBlocks(c, at, n)
    IN  /\ ~readOnly /\ ~w.ok /\ ~extRefused
        /\ copy' = [copy EXCEPT ![c].inode = w.inode]
        /\ used' = w.used
        /\ groupFree' = w.groups
        /\ superFree' = w.super
        /\ blocks' = w.blocks
        /\ extRefused' = TRUE
        /\ UNCHANGED <<diskFree, inodes, readOnly, kept, strayed>>

(* truncate(0): data blocks, then the single indirect block, then the      *)
(* pointer blocks of the double indirect one and itself.  An empty file is *)
(* only written back.                                                      *)
NonZero(s) == SelectSeq(s, LAMBDA b : b # 0)
TreeBlocks(n) ==
    NonZero(collect_data_blocks(n) \o <<n.single>>
            \o (IF n.double = 0 THEN <<>> ELSE PointersIn(n.double)) \o <<n.double>>)
DataBlocksOnly(n) == NonZero(collect_data_blocks(n))     \* mutant: pointer blocks are kept
FreedByTruncate(n) == TreeBlocks(n)

ExtOpenTruncated(i, c) ==
    LET n == inodes[i]
        freed == IF n.size = 0 THEN <<>> ELSE FreedByTruncate(n)
        w == FoldLeft(free_block, Work(IF n.size = 0 THEN n ELSE NoInode), freed)
        erased == [b \in Blocks |-> IF b \in Range(freed) THEN [k \in 0 .. Width - 1 |-> Stale]
                                    ELSE w.blocks[b]]
    IN  /\ ~readOnly
        /\ inodes' = [inodes EXCEPT ![i] = w.inode]
        /\ copy' = [copy EXCEPT ![c] = [ino |-> i, inode |-> w.inode, disk |-> w.inode]]
        /\ blocks' = [b \in Blocks |-> IF b \in SuperblockBackups
                                       THEN [k \in 0 .. Width - 1 |-> Super] ELSE erased[b]]
        /\ used' = w.used /\ groupFree' = w.groups /\ superFree' = w.super
        /\ diskFree' = [groups |-> w.groups, super |-> w.super]
        /\ kept' = [kept EXCEPT ![i] = {}]
        /\ UNCHANGED <<readOnly, extRefused, strayed>>

(* The last handle of a copy is closed.                                    *)
ExtDrop(gone) ==
    /\ copy' = [c \in Copies |-> IF c \in gone THEN NoCopy ELSE copy[c]]
    /\ UNCHANGED <<used, groupFree, superFree, diskFree, blocks, inodes, readOnly, kept,
                   extRefused, strayed>>

-----------------------------------------------------------------------------
(* A volume as mkfs makes it, with empty files, mounted: read-only when it *)
(* has features that the driver cannot write.                              *)
FreeIn(g) == Cardinality(InGroup(g) \ Reserved)
Ext2Init(ro) ==
    /\ used = Reserved
    /\ groupFree = [g \in Groups |-> FreeIn(g)]
    /\ superFree = Cardinality(Blocks \ Reserved)
    /\ diskFree = [groups |-> groupFree, super |-> superFree]
    /\ blocks = [b \in Blocks |-> IF b \in SuperblockBackups THEN [k \in 0 .. Width - 1 |-> Super]
                                  ELSE [k \in 0 .. Width - 1 |-> Stale]]
    /\ inodes = [i \in Inodes |-> NoInode]
    /\ copy = [c \in Copies |-> NoCopy]
    /\ readOnly = ro
    /\ kept = [i \in Inodes |-> {}]
    /\ extRefused = FALSE
    /\ strayed = FALSE

-----------------------------------------------------------------------------
(* The inodes in use: on the disk, and in the copies that are current.     *)
Current == {[ino |-> i, inode |-> inodes[i]] : i \in Inodes}
    \cup {[ino |-> copy[c].ino, inode |-> copy[c].inode] :
              c \in {d \in Copies : copy[d] # NoCopy /\ ~Outdated(d)}}

(* Until a copy strays, every block belongs to one file at most and has    *)
(* one place in it, and is marked as used; a block marked as used is       *)
(* reserved or belongs to a file, unless a write failed half-way.  This is *)
(* what allocate_block, free_block, get_or_alloc_block and truncate must   *)
(* keep between them, with files that reach the double indirect level.     *)
BlocksOwnedOnce ==
    ~strayed =>
        /\ \A v \in Current :
            /\ IsInjective(TreeBlocks(v.inode))
            /\ Range(TreeBlocks(v.inode)) \subseteq used \ Reserved
            /\ \A u \in Current : u.ino # v.ino =>
                   Range(TreeBlocks(u.inode)) \cap Range(TreeBlocks(v.inode)) = {}
        /\ ~extRefused =>
               used = Reserved \cup UNION {Range(TreeBlocks(v.inode)) : v \in Current}

(* The free counts in memory agree with the bitmap, group by group and in  *)
(* the superblock, at every call boundary and also after a failed write;   *)
(* those on the disk agree with memory unless a write failed.              *)
CountsMatch ==
    ~strayed =>
        /\ \A g \in Groups : groupFree[g] = Cardinality(InGroup(g) \ used)
        /\ superFree = Cardinality(Blocks \ used)
        /\ ~extRefused => diskFree = [groups |-> groupFree, super |-> superFree]

(* What write reported as written is in the block that the inode on the    *)
(* disk leads to, until the file is truncated; and read, which collects    *)
(* the blocks in order, finds it there unless pointer blocks before it are *)
(* missing (a file with a hole as large as a pointer block).               *)
PointerTo(n, i) ==
    LET j == i - Direct
        m == j - Pointers
    IN  IF i < Direct THEN n.direct[i]
        ELSE IF j < Pointers THEN blocks[n.single][j]
        ELSE blocks[blocks[n.double][m \div Pointers]][m % Pointers]
Gapless(n) ==
    n.double # 0 =>
        /\ n.single # 0
        /\ \A j, k \in 0 .. Pointers - 1 :
               j < k /\ blocks[n.double][k] # 0 => blocks[n.double][j] # 0
ExtWritesKept ==
    ~strayed => \A i \in Inodes : \A at \in kept[i] :
        LET n == inodes[i]
            b == PointerTo(n, at \div BlockCells)
        IN  /\ at < n.size
            /\ b # 0 /\ blocks[b][at % BlockCells] = Tag(i, at)
            /\ Gapless(n) => collect_data_blocks(n)[at \div BlockCells + 1] = b
=============================================================================
