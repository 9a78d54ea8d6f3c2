------------------------------ MODULE Volumes ------------------------------
(***************************************************************************)
(* What the FAT and ext2 drivers make of the sectors that describe a       *)
(* volume: whether it can be mounted, of which type it is, and where its   *)
(* clusters, table entries and inodes are.                                 *)
(*                                                                         *)
(* Source: zenos-kernel/src/disk/fs/fat/plumbing.rs, ext2/plumbing.rs and  *)
(* ext2/mod.rs (mount).  Operators, and a table of which entries are       *)
(* written.  Sums and products of the code's u32 are taken modulo Word; a  *)
(* build with debug assertions panics where they wrap.                     *)
(***************************************************************************)
EXTENDS Integers, FiniteSets

CONSTANTS
    Word,            \* 2^32
    SectorSizes,     \* 512, 1024, 2048, 4096
    Fat12Clusters,   \* a volume with fewer clusters is FAT12 (4085)
    Fat16Clusters,   \* a volume with fewer clusters is FAT16 (65525)
    SectorBytes,     \* bytes per sector of the table
    TableBytes,      \* its size
    TableWrites      \* bound on the entries of it that differ from what they were

VARIABLES
    table,    \* a file allocation table: its type and its bytes
    entries   \* history: what each of its entries was last set to

tableVars == <<table, entries>>

ASSUME VolumeConstants ==
    /\ Word \in Nat \ {0} /\ SectorSizes \subseteq Nat \ {0}
    /\ Fat12Clusters \in Nat /\ Fat16Clusters \in Nat /\ Fat12Clusters <= Fat16Clusters

-----------------------------------------------------------------------------
(* BiosParameterBlock.                                                     *)
fat_size(b) == IF b.fat_size_16 # 0 THEN b.fat_size_16 ELSE b.fat_size_32
total_sectors(b) == IF b.total_sectors_16 # 0 THEN b.total_sectors_16 ELSE b.total_sectors_32
root_dir_sectors(b) ==
    (b.root_entry_count * 32 + b.bytes_per_sector - 1) \div b.bytes_per_sector
first_data_sector(b) ==
    (b.reserved_sector_count + b.num_fats * fat_size(b) + root_dir_sectors(b)) % Word

TypeFor(count) ==
    IF count < Fat12Clusters THEN "fat12" ELSE IF count < Fat16Clusters THEN "fat16" ELSE "fat32"
fat_type(b) ==
    TypeFor(((total_sectors(b) - first_data_sector(b)) % Word) \div b.sectors_per_cluster)

PowersOfTwo == {1, 2, 4, 8, 16, 32, 64, 128}

(* validate, in the order of its tests; fat_type subtracts before the last *)
(* one has made sure that it may.                                          *)
FieldsValid(b) ==
    /\ b.bytes_per_sector \in SectorSizes
    /\ b.sectors_per_cluster \in PowersOfTwo
    /\ b.reserved_sector_count # 0 /\ b.num_fats # 0
    /\ total_sectors(b) # 0 /\ fat_size(b) # 0
    /\ IF fat_type(b) = "fat32"
       THEN b.root_entry_count = 0 /\ b.root_cluster >= 2 /\ b.fat_size_32 # 0
       ELSE b.root_entry_count # 0
NoLayoutTest(b) == FieldsValid(b)             \* mutant: without the layout test
fat_validate(b) == FieldsValid(b) /\ first_data_sector(b) < total_sectors(b)

(* Where a cluster is, and how many allocate_cluster looks at.             *)
cluster_to_sector(b, c) == ((c - 2) * b.sectors_per_cluster + first_data_sector(b)) % Word
total_clusters(b) == (total_sectors(b) - first_data_sector(b)) \div b.sectors_per_cluster

-----------------------------------------------------------------------------
(* FatTable: a table is a function from byte positions to bytes.           *)
fat_offset(type, c) ==
    CASE type = "fat12" -> c + c \div 2
      [] type = "fat16" -> c * 2
      [] type = "fat32" -> c * 4

Word16(t, at) == t[at] + 256 * t[at + 1]

(* read_entry reads the second half of an entry from the next sector when  *)
(* it has to.                                                              *)
ReadTable(t, type, c) ==
    LET at == fat_offset(type, c)
    IN  CASE type = "fat12" -> IF c % 2 = 1 THEN Word16(t, at) \div 16 ELSE Word16(t, at) % 4096
          [] type = "fat16" -> Word16(t, at)
          [] type = "fat32" -> Word16(t, at) + 65536 * (Word16(t, at + 2) % 4096)

(* write_entry changes only the sector in which the entry begins: of a     *)
(* FAT12 entry across two sectors it writes the first byte, taking the     *)
(* other one for 0.                                                        *)
Straddles(type, c) == type = "fat12" /\ fat_offset(type, c) % SectorBytes = SectorBytes - 1

WholeByte(old, c, value) == IF c % 2 = 1 THEN value * 16 ELSE value   \* mutant: no masking
Merged(old, c, value) ==
    IF c % 2 = 1 THEN (old % 16) + ((value * 16) % 65536)
    ELSE old - (old % 4096) + (value % 4096)

write_entry(t, type, c, value) ==
    LET at == fat_offset(type, c)
        second == IF Straddles(type, c) THEN 0 ELSE t[at + 1]
        v == Merged(t[at] + 256 * second, c, value)
    IN  CASE type = "fat12" ->
                 [t EXCEPT ![at] = v % 256,
                           ![at + 1] = IF Straddles(type, c) THEN @ ELSE (v \div 256) % 256]
          [] type = "fat16" ->
                 [t EXCEPT ![at] = value % 256, ![at + 1] = (value \div 256) % 256]
          [] type = "fat32" ->
                 [t EXCEPT ![at] = value % 256, ![at + 1] = (value \div 256) % 256,
                           ![at + 2] = (value \div 65536) % 256,
                           ![at + 3] = @ - (@ % 16) + ((value \div 16777216) % 16)]

(* The entries that lie in the table, and the values they can hold.        *)
EntriesOf(type) == {c \in 2 .. TableBytes : fat_offset(type, c) + 4 <= TableBytes}
Limit(type) == CASE type = "fat12" -> 4096 [] type = "fat16" -> 65536 [] type = "fat32" -> 268435456

Filled(fill) == [k \in 0 .. TableBytes - 1 |-> fill]
TableInit(type, fill) ==
    /\ table = [type |-> type, fill |-> fill, bytes |-> Filled(fill)]
    /\ entries = [c \in EntriesOf(type) |-> ReadTable(Filled(fill), type, c)]

WriteTable(c, value) ==
    /\ value < Limit(table.type)
    /\ table' = [table EXCEPT !.bytes = write_entry(@, table.type, c, value)]
    /\ entries' = [entries EXCEPT ![c] = value]
    /\ Cardinality({d \in DOMAIN entries :
                       entries'[d] # ReadTable(Filled(table.fill), table.type, d)}) <= TableWrites

is_eoc(type, entry) ==
    CASE type = "fat12" -> entry >= 4088
      [] type = "fat16" -> entry >= 65528
      [] type = "fat32" -> entry >= 268435448

-----------------------------------------------------------------------------
(* Ext2Superblock::validate.  The block size is in KiB.                    *)
block_size(s) == (2 ^ s.log_blk_size) % 4194304
ext2_validate(s) ==
    /\ s.magic = "EF53"
    /\ s.log_blk_size < 32 /\ block_size(s) \in 1 .. 64
    /\ s.rev_level >= 1 => s.inode_size >= 128 /\ s.inode_size % 4 = 0
    /\ s.blocks_per_grp # 0 /\ s.inodes_per_grp # 0
    /\ s.free_blocks <= s.blk_count /\ s.free_inodes <= s.ino_count
    /\ s.first_ino # 0
    /\ s.incompat \subseteq {"filetype"}

(* mount: read-only with features that the driver cannot write.            *)
mounts_read_only(s) == ~(s.ro_compat \subseteq {"sparse_super"})
group_count(s) == (s.blk_count + s.blocks_per_grp - 1) \div s.blocks_per_grp
bgdt_block(s) == IF block_size(s) = 1 THEN 2 ELSE 1

(* get_block_offset_for_inode_num: group, and byte in the group's table;   *)
(* the inode's record of inode_size bytes is read from there.              *)
inode_group(s, n) == (n - 1) \div s.inodes_per_grp
inode_byte(s, n) == ((n - 1) % s.inodes_per_grp) * s.inode_size
InodeFound(s, n) == inode_group(s, n) < group_count(s)

-----------------------------------------------------------------------------
(* The clusters that allocate_cluster can return on a volume that validate *)
(* accepted lie in its data area, apart from each other, and its type is   *)
(* the one that exact arithmetic gives, although fat_type computes it      *)
(* before the layout is tested.  Left out: tables so large that their size *)
(* in sectors wraps.                                                       *)
DataArea(b) == b.reserved_sector_count + b.num_fats * fat_size(b) + root_dir_sectors(b)
LayoutSound(b) ==
    fat_validate(b) /\ DataArea(b) < Word =>
        /\ fat_type(b) = TypeFor((total_sectors(b) - DataArea(b)) \div b.sectors_per_cluster)
        /\ \A c \in 2 .. total_clusters(b) + 1 :
            /\ cluster_to_sector(b, c) >= DataArea(b)
            /\ cluster_to_sector(b, c) + b.sectors_per_cluster <= total_sectors(b)
            /\ \A d \in 2 .. c - 1 :
                   cluster_to_sector(b, d) + b.sectors_per_cluster <= cluster_to_sector(b, c)

(* The records of two inodes of one group do not overlap, on a volume that *)
(* validate accepted.  Left out: revision 0, whose inode size is not       *)
(* tested and taken from a field that revision does not have.              *)
InodesApart(s) ==
    ext2_validate(s) /\ s.rev_level >= 1 =>
        \A m, n \in 1 .. s.ino_count :
            m < n /\ inode_group(s, m) = inode_group(s, n) =>
                inode_byte(s, m) + s.inode_size <= inode_byte(s, n)

(* An entry of the table reads as what it was last set to: though FAT12    *)
(* entries share bytes and FAT32 entries have reserved bits, no sequence   *)
(* of writes disturbs another entry, and the mark that allocate_cluster    *)
(* writes is read as the end of a chain.  Left out: reading an entry       *)
(* across two sectors.                                                     *)
EntriesIndependent ==
    \A c \in DOMAIN entries :
        Straddles(table.type, c) \/
            /\ ReadTable(table.bytes, table.type, c) = entries[c]
            /\ is_eoc(table.type, ReadTable(table.bytes, table.type, c)) <=>
                   entries[c] \in Limit(table.type) - 8 .. Limit(table.type) - 1
=============================================================================
