-------------------------------- MODULE Fat --------------------------------
(***************************************************************************)
(* A mounted FAT volume with one directory: the file allocation table, the *)
(* directory's entries, the contents of the clusters, and the FatFile      *)
(* objects that open files share through the inode cache.                  *)
(*                                                                         *)
(* Source: zenos-kernel/src/disk/fs/fat/{mod,plumbing}.rs.  Every operation *)
(* runs under the volume's lock.  The operators below are the effects of   *)
(* the inode operations; Files makes the system calls of them.             *)
(*                                                                         *)
(* Sizes and offsets count cells, ClusterCells to a cluster.  What a write *)
(* stores in a cell is named by the file (its slot) and the position, so a *)
(* cell found in the wrong place is recognised.                            *)
(***************************************************************************)
EXTENDS Integers, Sequences, FiniteSets, FiniteSetsExt, SequencesExt, Functions

CONSTANTS
    ClusterCells,     \* cells per cluster
    LastCluster,      \* the clusters are 2 .. LastCluster
    SlotsPerCluster,  \* directory entries in a cluster
    RootSlots,        \* root_entry_count: entries of a FAT12/16 root directory
    ShortNames,       \* the names an 8.3 entry can hold
    ShortName         \* what name_to_8_3 makes of each name

VARIABLES
    fat,         \* the table: 0 (free), EOC, or the next cluster
    dir,         \* the directory's first cluster, or 0
    slots,       \* the directory's entries, in order
    cells,       \* the contents of the clusters
    fatFile,     \* for each slot, the entry of its FatFile while one is alive
    stored,      \* history: for each slot, the positions written and not truncated
    fatRefused   \* history: a write ran out of clusters or its transfer failed

fatVars == <<fat, dir, slots, cells, fatFile, stored, fatRefused>>

EOC == 1                                                  \* is_eoc
End == [name |-> "end", first |-> 0, size |-> 0]          \* first byte 0x00
Deleted == [name |-> "deleted", first |-> 0, size |-> 0]  \* first byte 0xE5
Closed == [name |-> "closed", first |-> 0, size |-> 0]    \* no FatFile
Old == <<0, 0>>                                           \* what was there before

Clusters == 2 .. LastCluster
MaxSlots == RootSlots + SlotsPerCluster * Cardinality(Clusters)
SlotNums == 1 .. MaxSlots
IsFile(e) == e.name \in ShortNames

-----------------------------------------------------------------------------
(* The allocation table.                                                   *)

read_entry(c) == fat[c]

RECURSIVE ChainFrom(_, _)
ChainFrom(c, n) ==
    IF c \notin Clusters \/ n = 0 THEN <<>> ELSE <<c>> \o ChainFrom(read_entry(c), n - 1)

(* The clusters of a chain, in order.                                      *)
Chain(first) == ChainFrom(first, LastCluster)

FreeClusters == {c \in Clusters : fat[c] = 0}

(* allocate_cluster k times: each takes the lowest free cluster.           *)
AllocateAny(k) == SubSeq(SetToSortSeq(Clusters, <), 1, k)   \* mutant: no test for free
Allocate(k) == SubSeq(SetToSortSeq(FreeClusters, <), 1, k)

(* The table when write_entry has made a chain of these clusters.          *)
Linked(clusters) ==
    [c \in Clusters |->
        IF \E i \in DOMAIN clusters : clusters[i] = c
        THEN LET i == CHOOSE j \in DOMAIN clusters : clusters[j] = c
             IN  IF i < Len(clusters) THEN clusters[i + 1] ELSE EOC
        ELSE fat[c]]

-----------------------------------------------------------------------------
(* The directory.                                                          *)

DirChain == Chain(dir)
Room == IF dir = 0 THEN RootSlots ELSE SlotsPerCluster * Len(DirChain)

(* read_entries: the entries before the first unused slot.                 *)
ListedToDeleted ==                            \* mutant: a deleted entry ends the directory
    {s \in 1 .. Room : IsFile(slots[s]) /\ \A t \in 1 .. s - 1 : slots[t] \notin {End, Deleted}}
Listed == {s \in 1 .. Room : IsFile(slots[s]) /\ \A t \in 1 .. s - 1 : slots[t] # End}

(* find_entry: the first entry with the name.                              *)
Named(n) == {s \in Listed : slots[s].name = n}
Found(n) == Named(n) # {}
SlotOf(n) == Min(Named(n))

(* create_entry: the first unused or deleted slot.  A full directory made  *)
(* of clusters gets one more; a fixed root has no more room.               *)
FreeSlots == {s \in 1 .. Room : slots[s] \in {End, Deleted}}
CanCreate == FreeSlots # {} \/ (dir # 0 /\ FreeClusters # {})
SlotFor == IF FreeSlots # {} THEN Min(FreeSlots) ELSE Room + 1

name_to_8_3(n) == ShortName[n]

create_entry(n) ==
    /\ CanCreate
    /\ slots' = [slots EXCEPT ![SlotFor] = [name |-> name_to_8_3(n), first |-> 0, size |-> 0]]
    /\ fat' = IF FreeSlots # {} THEN fat ELSE Linked(DirChain \o Allocate(1))
    /\ UNCHANGED <<dir, cells, stored>>

(* create looks its entry up by the name it was given, which the entry may *)
(* not bear; an entry found gets a FatFile (create_and_cache_inode).       *)
FatCreate(n) ==
    /\ create_entry(n)
    /\ fatFile' = IF Found(n)' THEN [fatFile EXCEPT ![SlotOf(n)'] = slots'[SlotOf(n)']]
                  ELSE fatFile
    /\ UNCHANGED fatRefused

-----------------------------------------------------------------------------
(* The operations of a FatFile, on the file of slot s.                     *)

(* sync_entry, after every read and write.                                 *)
Synced(s, e) == [slots EXCEPT ![s] = e]

(* read: bounded by the entry's size and by the chain.                     *)
ReadLength(s, at, n) ==
    IF at >= fatFile[s].size THEN 0
    ELSE Min({n, fatFile[s].size - at, ClusterCells * Len(Chain(fatFile[s].first)) - at})

FatRead(s) ==
    /\ slots' = Synced(s, fatFile[s])
    /\ UNCHANGED <<fat, dir, cells, fatFile, stored, fatRefused>>

ClustersFor(n) == (n + ClusterCells - 1) \div ClusterCells

(* The cells of a chain after a write of n cells at a position, as far as  *)
(* the chain reaches.                                                      *)
Stored(s, clusters, at, n) ==
    [c \in Clusters |-> [k \in 0 .. ClusterCells - 1 |->
        IF \E i \in DOMAIN clusters : clusters[i] = c
                  /\ (i - 1) * ClusterCells + k \in at .. at + n - 1
        THEN LET i == CHOOSE j \in DOMAIN clusters : clusters[j] = c
             IN  <<s, (i - 1) * ClusterCells + k>>
        ELSE cells[c][k]]]

(* write: extend the chain to the end of the write, store, then the size   *)
(* and the entry.                                                          *)
Missing(s, at, n) ==
    LET have == Len(Chain(fatFile[s].first))
        need == ClustersFor(at + n)
    IN  IF need > have THEN need - have ELSE 0

EndOfWrite(size, end) == end                  \* mutant: the size is not kept when larger
Grown(size, end) == IF end > size THEN end ELSE size

FirstOf(clusters) == IF clusters = <<>> THEN 0 ELSE clusters[1]

FatWrite(s, at, n) ==
    LET e == fatFile[s]
        clusters == Chain(e.first) \o Allocate(Missing(s, at, n))
        entry == [e EXCEPT !.first = FirstOf(clusters),
                           !.size = Grown(@, at + n)]
    IN  /\ Missing(s, at, n) <= Cardinality(FreeClusters)
        /\ fat' = Linked(clusters)
        /\ cells' = Stored(s, clusters, at, n)
        /\ fatFile' = [fatFile EXCEPT ![s] = entry]
        /\ slots' = Synced(s, entry)
        /\ stored' = [stored EXCEPT ![s] = @ \cup (at .. at + n - 1)]
        /\ UNCHANGED <<dir, fatRefused>>

(* A write that fails has got some of the clusters it needs: the volume is *)
(* full, or a transfer failed, perhaps between marking a cluster as used   *)
(* and linking it (loose).  It has filled what it got; the entry it leaves *)
(* in memory is not synced.  One is let happen, the bound of this model.   *)
FatWriteFails(s, at, n, got, loose) ==
    LET e == fatFile[s]
        clusters == Chain(e.first) \o Allocate(got)
        table == Linked(clusters)
    IN  /\ got < Missing(s, at, n) /\ ~fatRefused
        /\ got + loose <= Cardinality(FreeClusters)
        /\ fat' = IF loose = 0 THEN table
                  ELSE [table EXCEPT ![Last(Allocate(got + 1))] = EOC]
        /\ cells' = Stored(s, clusters, at, n)
        /\ fatFile' = [fatFile EXCEPT ![s].first = FirstOf(clusters)]
        /\ fatRefused' = TRUE
        /\ UNCHANGED <<dir, slots, stored>>

(* lookup: the file's FatFile, from the cache or made of its entry.        *)
EntryOf(s) == IF fatFile[s] = Closed THEN slots[s] ELSE fatFile[s]
FatOpen(s) ==
    /\ fatFile' = [fatFile EXCEPT ![s] = EntryOf(s)]
    /\ UNCHANGED <<fat, dir, slots, cells, stored, fatRefused>>

(* The same and truncate(0), the only length it is called with: the chain  *)
(* is kept.  History: the cells written before no longer count.            *)
Forgotten(s) == [c \in Clusters |-> [k \in 0 .. ClusterCells - 1 |->
                    IF cells[c][k][1] = s THEN Old ELSE cells[c][k]]]

FatOpenTruncated(s) ==
    LET entry == [EntryOf(s) EXCEPT !.size = 0]
    IN  /\ fatFile' = [fatFile EXCEPT ![s] = entry]
        /\ slots' = Synced(s, entry)
        /\ cells' = Forgotten(s)
        /\ stored' = [stored EXCEPT ![s] = {}]
        /\ UNCHANGED <<fat, dir, fatRefused>>

(* unlink, of a file that is not open.  No system call leads to it.        *)
FreedTail(chain) ==                           \* mutant: the first cluster is not freed
    [c \in Clusters |-> IF c \in Range(chain) /\ c # chain[1] THEN 0 ELSE fat[c]]
Freed(chain) == [c \in Clusters |-> IF c \in Range(chain) THEN 0 ELSE fat[c]]

FatUnlink(s) ==
    LET chain == Chain(slots[s].first)
    IN  /\ s \in Listed /\ s = SlotOf(slots[s].name) /\ fatFile[s] = Closed
        /\ fat' = Freed(chain)
        /\ slots' = [slots EXCEPT ![s] = Deleted]
        /\ cells' = Forgotten(s)
        /\ stored' = [stored EXCEPT ![s] = {}]
        /\ UNCHANGED <<dir, fatFile, fatRefused>>

(* The last handles of these files are closed: their inodes are dropped.   *)
FatDrop(gone) ==
    /\ fatFile' = [s \in SlotNums |-> IF s \in gone THEN Closed ELSE fatFile[s]]
    /\ UNCHANGED <<fat, dir, slots, cells, stored, fatRefused>>

-----------------------------------------------------------------------------
(* A formatted volume, with the root directory in a cluster or, for 0, in  *)
(* the fixed area of FAT12 and FAT16.                                      *)
FatInit(root) ==
    /\ dir = root
    /\ fat = [c \in Clusters |-> IF c = dir THEN EOC ELSE 0]
    /\ slots = [s \in SlotNums |-> End]
    /\ cells = [c \in Clusters |-> [k \in 0 .. ClusterCells - 1 |-> Old]]
    /\ fatFile = [s \in SlotNums |-> Closed]
    /\ stored = [s \in SlotNums |-> {}]
    /\ fatRefused = FALSE

-----------------------------------------------------------------------------
(* The chains of the directory and of its files share no cluster and end   *)
(* properly in clusters marked as used, and each chain is long enough for  *)
(* the size of its file, whatever calls failed half-way: allocate_cluster  *)
(* and write_entry never cross two chains.                                 *)
Owned(s) == Range(Chain(EntryOf(s).first))
ChainsApart ==
    /\ \A s \in Listed :
        /\ Owned(s) \cap Range(DirChain) = {}
        /\ \A t \in Listed \ {s} : Owned(s) \cap Owned(t) = {}
        /\ \A c \in Owned(s) : fat[c] = EOC \/ fat[c] \in Owned(s)
        /\ EntryOf(s).first # 0 => EntryOf(s).first \in Clusters
        /\ EntryOf(s).size <= ClusterCells * Len(Chain(EntryOf(s).first))
    /\ \A c \in Range(DirChain) : fat[c] = EOC \/ fat[c] \in Range(DirChain)

(* A cluster marked as used belongs to the directory or to a file, as long *)
(* as no write has failed: nothing that create, write, truncate and unlink *)
(* do in the normal case loses a cluster.                                  *)
NoClusterLost ==
    fatRefused \/ \A c \in Clusters :
        fat[c] # 0 => c \in Range(DirChain) \/ \E s \in Listed : c \in Owned(s)

(* What write reported as written is found, by the entry on the disk and   *)
(* its chain, at the position it was written to, until the file is         *)
(* truncated or removed: for every order of calls through every handle.    *)
CellAt(s, at) == cells[Chain(slots[s].first)[at \div ClusterCells + 1]][at % ClusterCells]
FatWritesKept ==
    \A s \in Listed : \A at \in stored[s] : at < slots[s].size /\ CellAt(s, at) = <<s, at>>

(* Two entries have one name only when it is what remains of a name that   *)
(* does not fit 8.3: create never looks whether the entry it makes exists, *)
(* it relies on open having failed to find it.                             *)
Truncated == {ShortName[n] : n \in {m \in DOMAIN ShortName : ShortName[m] # m}}
NamesUnique ==
    \A s, t \in Listed : s # t /\ slots[s].name = slots[t].name => slots[s].name \in Truncated
=============================================================================
