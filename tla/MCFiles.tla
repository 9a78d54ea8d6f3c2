------------------------------ MODULE MCFiles ------------------------------
(* Files on small disks: each of them leads to a machine of its own.       *)
EXTENDS Files

(* Boot sectors and superblocks, good and bad.                             *)
Bpb(size, fats, fat16, roots, first) ==
    [bytes_per_sector |-> 512, sectors_per_cluster |-> 2, reserved_sector_count |-> 1,
     num_fats |-> fats, root_entry_count |-> roots, total_sectors_16 |-> size,
     total_sectors_32 |-> size + 3, fat_size_16 |-> fat16, fat_size_32 |-> 20, root_cluster |-> first]
FatBpb == Bpb(20, 2, 3, 16, 0)
MCBpbs ==
    {[Bpb(size, fats, fat16, roots, 2) EXCEPT !.sectors_per_cluster = spc, !.bytes_per_sector = bps] :
        size \in {0, 6, 9, 20, 50, 63}, fats \in {0, 1, 2}, fat16 \in {0, 3, 30, 32},
        roots \in {0, 16, 40}, spc \in {0, 1, 2, 3}, bps \in {500, 512}}
ExtSuper == [magic |-> "EF53", log_blk_size |-> 0, rev_level |-> 1, inode_size |-> 128,
             blocks_per_grp |-> 5, inodes_per_grp |-> 4, blk_count |-> 10, free_blocks |-> 7,
             ino_count |-> 8, free_inodes |-> 4, first_ino |-> 11, incompat |-> {"filetype"},
             ro_compat |-> {"sparse_super"}]
MCSupers ==
    {[ExtSuper EXCEPT !.rev_level = rev, !.inode_size = size, !.inodes_per_grp = per,
                      !.log_blk_size = log, !.free_inodes = free] :
        rev \in {0, 1}, size \in {0, 126, 128, 132}, per \in {0, 1, 3, 8}, log \in {0, 6, 7, 22, 32},
        free \in {4, 9}}

(* Disks.                                                                  *)
Part(n, bpb, super) == [kind |-> "data", name |-> n, bpb |-> bpb, super |-> super]
NoBpb == [FatBpb EXCEPT !.num_fats = 0]
NoSuper == [ExtSuper EXCEPT !.magic = "0000"]
Fat(n) == Part(n, FatBpb, NoSuper)
Ext(n) == Part(n, NoBpb, ExtSuper)
ExtReadOnly(n) == Part(n, NoBpb, [ExtSuper EXCEPT !.ro_compat = {"large_file"}])
Both(n) == Part(n, FatBpb, ExtSuper)          \* an old boot sector before an ext2 volume
Unused == [Part("", NoBpb, NoSuper) EXCEPT !.kind = "unused"]
Gpt(parts) == [present |-> TRUE, signature |-> "EFI PART", headerSize |-> 92, crcMatches |-> TRUE,
               entrySize |-> 128, entries |-> parts]
NoDisk == [Gpt(<<>>) EXCEPT !.present = FALSE]
FatRoot == Gpt(<<Fat("sys"), Unused>>)
ExtRoot == Gpt(<<Part("swap", NoBpb, NoSuper), Ext("sys")>>)
BootAndRoot == Gpt(<<Fat("boot"), Ext("sys")>>)
RootAndData == Gpt(<<Ext("sys"), Fat("boot")>>)
ReadOnlyRoot == Gpt(<<ExtReadOnly("sys")>>)
Unbootable == {[FatRoot EXCEPT !.crcMatches = FALSE], [FatRoot EXCEPT !.headerSize = 91],
               Gpt(<<Fat("boot"), Ext("boot")>>), Gpt(<<Ext("sys"), Both("data")>>)}
ShortEntries == [FatRoot EXCEPT !.entrySize = 64]

Seeks(S) == {<<"start", n>> : n \in S}
Idle == [disk |-> NoDisk, fd |-> 4, touched |-> {3, 4}, forks |-> FALSE, dups |-> FALSE,
         unlinks |-> FALSE, roots |-> {0}, paths |-> {}, flags |-> {{}}, sizes |-> {}, seeks |-> {}, at |-> 4,
         tables |-> {<<"fat16", 0>>}, values |-> {}]

(* Two files on a volume of three clusters: writes of a cluster and a half *)
(* from two offsets, through two handles.                                  *)
FatData == [Idle EXCEPT !.disk = FatRoot, !.roots = {0, 2}, !.unlinks = TRUE,
            !.paths = {<<"A">>, <<"B">>},
            !.flags = {{"rdwr", "create"}, {"rdwr", "create", "trunc"}},
            !.sizes = {3}, !.seeks = Seeks({1})]
(* Names that do not fit an entry, until the directory is full.            *)
FatNames == [Idle EXCEPT !.disk = FatRoot, !.roots = {0, 2}, !.unlinks = TRUE,
             !.paths = {<<"A">>, <<"LONG">>, <<"L">>, <<>>},
             !.flags = {{}, {"create"}}, !.sizes = {1}, !.at = 2, !.fd = 3]
(* Two files that reach the double indirect blocks, one handle at a time;  *)
(* B may be written only with both access bits.                            *)
ExtData == [Idle EXCEPT !.disk = ExtRoot, !.paths = {<<"A">>, <<"B">>},
            !.flags = {{"rdwr"}, {"wronly", "rdwr", "trunc"}},
            !.sizes = {3}, !.seeks = Seeks({0, 8}), !.at = 11, !.fd = 3]
(* The same on a read-only volume.                                         *)
ExtNoWrite == [ExtData EXCEPT !.disk = ReadOnlyRoot, !.paths = {<<"A">>, <<>>}]
(* Two handles, perhaps of one file.                                       *)
ExtTwice == [ExtData EXCEPT !.seeks = {<<"current", -1>>}, !.at = 3, !.fd = 4]
(* Descriptors shared by fork, dup and dup2, and lost by execve.           *)
Sharing == [Idle EXCEPT !.disk = FatRoot, !.paths = {<<"A">>}, !.forks = TRUE, !.dups = TRUE, !.touched = {3},
            !.flags = {{"rdwr", "create"}, {"rdwr", "create", "cloexec"}},
            !.sizes = {1}, !.seeks = {<<"end", 0>>, <<"start", 0>>}, !.at = 1]
(* No disk, only procfs.                                                   *)
ProcOnly == [Idle EXCEPT !.paths = {<<"proc">>, <<"proc", "self", "status">>, <<"proc", "2", "status">>},
             !.forks = TRUE, !.sizes = {1, 3}, !.at = 6]
(* Two volumes.                                                            *)
TwoVolumes == {[Idle EXCEPT !.disk = d, !.paths = {<<"boot", "A">>, <<"bootx">>, <<"mnt", "boot", "..", "boot", "A">>, <<"A">>, <<"link">>, <<>>},
                !.flags = {{}, {"rdwr", "create"}}, !.sizes = {3}, !.at = 3, !.fd = 3]
                    : d \in {BootAndRoot, RootAndData}}
(* One volume of any kind.                                                 *)
AnyVolume == {[Idle EXCEPT !.disk = Gpt(<<Part("sys", b, NoSuper)>>)] : b \in MCBpbs}
    \cup {[Idle EXCEPT !.disk = Gpt(<<Part("sys", NoBpb, s)>>)] : s \in MCSupers}
(* Tables of each type.                                                    *)
Tables == [Idle EXCEPT !.tables = {"fat12", "fat16", "fat32"} \X {0, 255, 90},
           !.values = {0, 1365, 4095, 65535, 268435455}]
MCLoads == {Tables, FatData, FatNames, ExtData, ExtTwice, ExtNoWrite, Sharing, ProcOnly} \cup TwoVolumes
    \cup AnyVolume \cup {[Idle EXCEPT !.disk = d] : d \in Unbootable \cup {ShortEntries}}

MCPaths == UNION {l.paths : l \in MCLoads} \cup {<<"procs">>, <<"mnt", "boot">>, <<"..", "boot", ".", "A">>}
MCRest == [x \in {<<"bootx", "boot">>, <<"procs", "proc">>} |-> IF x[1] = "bootx" THEN "x" ELSE "s"]
MCShortName == [n \in {"A", "B", "L", "LONG", "x"} |-> IF n = "LONG" THEN "L" ELSE n]
MCModes == [i \in {1, 2} |-> IF i = 1 THEN {"r", "w"} ELSE {"r"}]
Record(i, n, len) == [ino |-> i, name |-> n, len |-> len, nameLen |-> 4]
MCDirBlocks == <<<<Record(9, ".", 12), Record(9, "..", 12), Record(1, "A", 12), Record(0, "B", 28)>>,
                 <<Record(2, "B", 32), Record(8, "link", 32), Record(7, "stale", 32)>>, <<>>>>
MCKinds == [i \in {1, 2, 8, 9} |-> IF i = 9 THEN "dir" ELSE IF i = 8 THEN "symlink" ELSE "file"]
MCPidOf == [n \in {"2"} |-> 2]
=============================================================================
