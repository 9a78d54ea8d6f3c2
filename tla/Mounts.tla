------------------------------- MODULE Mounts -------------------------------
(***************************************************************************)
(* From the partition table of a disk to the mount table, and from a path  *)
(* to the file system it names.                                            *)
(*                                                                         *)
(* Source: zenos-kernel/src/disk/mod.rs (init), disk/block/mod.rs (GPT),   *)
(* disk/vfs.rs (VFS).  init runs once, before there are processes, so its  *)
(* result is an operator.  A path is the sequence of its components.       *)
(***************************************************************************)
EXTENDS Volumes, Sequences, SequencesExt, Functions

CONSTANTS
    MinHeader,  \* the smallest header a GPT may announce (92)
    Sector,     \* the block size (512)
    Paths,      \* the paths that programs use
    Rest        \* Rest[<<name, prefix>>]: what follows a proper prefix of a name

VARIABLES
    mounts,   \* the mount table: mount point -> volume
    up        \* the kernel has not panicked

mountVars == <<mounts, up, tableVars>>

-----------------------------------------------------------------------------
(* GPTHeader::deserialize and get_partition_entries: an entry shorter than *)
(* 128 bytes is dropped; init keeps those in use.                          *)
HeaderValid(disk) ==
    /\ disk.signature = "EFI PART"
    /\ disk.headerSize \in MinHeader .. Sector
    /\ disk.crcMatches
get_partition_entries(disk) == IF disk.entrySize < 128 THEN <<>> ELSE disk.entries
is_used(entry) == entry.kind # "unused"
Partitions(disk) == SelectSeq(get_partition_entries(disk), is_used)

(* VFS::mount; init unwraps its result.                                    *)
mount(b, point, volume) ==
    IF point \in DOMAIN b.mounts THEN [b EXCEPT !.up = FALSE]
    ELSE [b EXCEPT !.mounts = [m \in DOMAIN b.mounts \cup {point} |->
                                   IF m = point THEN volume ELSE b.mounts[m]]]

(* One pass of init's loop over FILESYSTEMS for one partition: only what   *)
(* mounts before there is a root ends the loop.                            *)
Boot == <<"boot">>
Root == <<>>
Mountable(part, kind) ==
    CASE kind = "fat" -> fat_validate(part.bpb) [] kind = "ext2" -> ext2_validate(part.super)
Try(b, part, kind) ==
    IF ~b.up \/ b.done \/ ~Mountable(part, kind) THEN b
    ELSE IF b.rooted THEN mount(b, <<"mnt", part.name>>, kind)
    ELSE IF part.name = "boot" THEN [mount(b, Boot, kind) EXCEPT !.done = TRUE]
    ELSE [mount(b, Root, kind) EXCEPT !.done = TRUE, !.rooted = TRUE]

FileSystems == <<"fat", "ext2">>
MountPartition(b, part) ==
    FoldLeft(LAMBDA a, kind : Try(a, part, kind), [b EXCEPT !.done = FALSE], FileSystems)

Start == [mounts |-> [m \in {} |-> ""], up |-> TRUE, rooted |-> FALSE, done |-> FALSE]
MountDisk(disk) ==
    IF ~disk.present THEN Start
    ELSE IF ~HeaderValid(disk) THEN [Start EXCEPT !.up = FALSE]
    ELSE FoldLeft(MountPartition, Start, Partitions(disk))
init(disk) ==
    LET b == MountDisk(disk) IN IF b.up THEN mount(b, <<"proc">>, "proc") ELSE b

MountsInit(disk) == mounts = init(disk).mounts /\ up = init(disk).up

(* Whether the ext2 volume is mounted read-only, if there is one.          *)
Ext2Parts(disk) == {p \in Range(Partitions(disk)) : Mountable(p, "ext2") /\ ~Mountable(p, "fat")}
ReadOnlyDisk(disk) == \E p \in Ext2Parts(disk) : mounts_read_only(p.super)

-----------------------------------------------------------------------------
(* normalize_path.                                                         *)
Normal(path) ==
    FoldLeft(LAMBDA done, part :
                 IF part \in {"", "."} THEN done
                 ELSE IF part = ".." THEN (IF done = <<>> THEN done ELSE Front(done))
                 ELSE Append(done, part),
             <<>>, path)

(* starts_with on the strings: the last component of the mount point may   *)
(* be a part of a name.                                                    *)
starts_with(path, m) ==
    \/ m = Root
    \/ /\ Len(m) <= Len(path)
       /\ Front(m) = SubSeq(path, 1, Len(m) - 1)
       /\ path[Len(m)] = Last(m) \/ <<path[Len(m)], Last(m)>> \in DOMAIN Rest

(* path_to_fs: the longest mount point that the path starts with.          *)
Matching(path) == {m \in DOMAIN mounts : starts_with(path, m)}
\* mutant: the shortest prefix wins
ShortestMount(path) == CHOOSE m \in Matching(path) : \A k \in Matching(path) : Len(m) <= Len(k)
path_to_fs(path) == CHOOSE m \in Matching(path) : \A k \in Matching(path) : Len(k) <= Len(m)

(* What is left of the path below its mount point.                         *)
relative_path(path) ==
    LET m == path_to_fs(path)
        tail == SubSeq(path, Len(m) + 1, Len(path))
    IN  IF m = Root \/ path[Len(m)] = Last(m) THEN tail
        ELSE <<Rest[<<path[Len(m)], Last(m)>>]>> \o tail

Resolves(path) == up /\ Matching(Normal(path)) # {}
VolumeOf(path) == mounts[path_to_fs(Normal(path))]
Below(path) == relative_path(Normal(path))

-----------------------------------------------------------------------------
(* Every volume that init mounted is reached by its mount point, and a     *)
(* path goes to the deepest volume that it lies below, component by        *)
(* component.  path_to_fs compares strings, so this is not a matter of     *)
(* course: it fails for a name that merely begins like a mount point.      *)
Above(path) == {m \in DOMAIN mounts : IsPrefix(m, path)}
BeginsLikeMount(path) ==
    \E m \in DOMAIN mounts \ {Root} :
        Len(path) >= Len(m) /\ <<path[Len(m)], Last(m)>> \in DOMAIN Rest
OwnMount ==
    up => /\ \A m \in DOMAIN mounts : path_to_fs(m) = m
          /\ \A path \in {Normal(q) : q \in Paths} : BeginsLikeMount(path) \/
                 /\ Above(path) = {} <=> Matching(path) = {}
                 /\ \A m \in Above(path) :
                        (\A k \in Above(path) : Len(k) <= Len(m)) =>
                            path_to_fs(path) = m /\ path = m \o relative_path(path)
=============================================================================
