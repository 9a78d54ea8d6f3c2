-------------------------------- MODULE Files --------------------------------
(***************************************************************************)
(* Processes and their descriptors on the mounted file systems: the system *)
(* calls open, close, dup, dup2, read, write, lseek, getdents64, and what  *)
(* fork, execve and exit do to descriptors.                                *)
(*                                                                         *)
(* Source: zenos-kernel/src/syscall/*.rs, process/mod.rs (file_handles),   *)
(* disk/vfs.rs (OpenFile), disk/fs/proc/mod.rs.  A descriptor refers to a  *)
(* handle (Rc<Mutex<OpenFile>>) that dup and fork share.  A call holds the *)
(* locks of what it works on, so it is one step here.                      *)
(***************************************************************************)
EXTENDS Fat, Ext2, Mounts, FiniteSetsExt

CONSTANTS
    Procs,       \* pids; the lowest is the first process
    Handles,     \* identities of handles; 0 is the console's
    Loads,       \* what happens on a machine: its disk, roots (where the FAT volume may have
                 \* its root), and the bounds fd (on descriptors, u32 in the code), touched
                 \* (the descriptors that programs close or replace), forks, dups and unlinks
                 \* (whether they happen), paths, flags (of open), sizes (of reads and
                 \* writes), seeks (of lseek) and at (on offsets); tables and values: the type
                 \* and contents of a table, and what is written to it
    PidOf        \* the names of process directories in procfs: name -> pid

VARIABLES
    load,      \* the load of this machine
    fds,       \* for each living process, its descriptors: fd -> handle
    handles,   \* the handles alive
    vsize,     \* Inode.size of the inodes in memory (FAT: by slot, ext2: by copy)
    reached    \* history: for each open, where the last call through it left off

fileVars == <<fatVars, ext2Vars, mountVars, load, fds, handles, vsize, reached>>

Console == 0
None == [vol |-> "none", node |-> 0, cursor |-> 0, opts |-> {}, origin |-> 0, snap |-> -1]
Nodes == SlotNums \cup Copies
NoFds == [f \in {} |-> Console]
Living == {p \in Procs : fds[p] # NoFds}
First == Min(Procs)

FreeHandles == {h \in Handles : handles[h] = None}
NewHandle == Min(FreeHandles)
NewCopy == Min({c \in Copies : copy[c] = NoCopy})

(* add_file_handle and dup_file_handle: one more than the highest.         *)
new_fd(p) == IF DOMAIN fds[p] = {} THEN 3 ELSE Max(DOMAIN fds[p]) + 1
FdLimit(p) == new_fd(p) <= load.fd
WithFd(p, fd, h) == [fds EXCEPT ![p] = [f \in DOMAIN @ \cup {fd} |-> IF f = fd THEN h ELSE @[f]]]

Has(p, fd) == fd \in DOMAIN fds[p] /\ fds[p][fd] # Console
Handle(p, fd) == handles[fds[p][fd]]
At(p, fd) == Handle(p, fd).cursor
Moved(p, fd, to) ==
    /\ handles' = [handles EXCEPT ![fds[p][fd]].cursor = to]
    /\ reached' = [reached EXCEPT ![Handle(p, fd).origin] = to]

(* Descriptors become f: handles without a descriptor are dropped, and the *)
(* inodes that no handle keeps.                                            *)
Referenced(f) == UNION {Range(f[p]) : p \in Procs}
InodeKept(vol, node, f) ==
    \E h \in Referenced(f) \ {Console} : handles[h].vol = vol /\ handles[h].node = node
Descriptors(f) ==
    /\ fds' = f
    /\ handles' = [h \in Handles |-> IF h \in Referenced(f) THEN handles[h] ELSE None]
    /\ FatDrop({s \in SlotNums : ~InodeKept("fat", s, f)})
    /\ ExtDrop({c \in Copies : ~InodeKept("ext2", c, f)})
    /\ vsize' = [n \in Nodes |->
                    IF InodeKept(IF n \in SlotNums THEN "fat" ELSE "ext2", n, f) THEN vsize[n] ELSE 0]
    /\ reached' = [h \in Handles |-> IF \E g \in Referenced(f) \ {Console} : handles[g].origin = h
                                     THEN reached[h] ELSE 0]
    /\ UNCHANGED <<mountVars, load>>

-----------------------------------------------------------------------------
(* open.  A handle of the inode found: node 0 is a directory.              *)

WantsWrite(flags) == flags \cap {"wronly", "rdwr", "trunc"} # {}
Valid(flags) == "trunc" \in flags => flags \cap {"wronly", "rdwr"} # {}

(* The descriptor and handle of a successful open.                         *)
add_file_handle(p, vol, node, flags) ==
    /\ FreeHandles # {} /\ FdLimit(p)
    /\ fds' = WithFd(p, new_fd(p), NewHandle)
    /\ handles' = [handles EXCEPT ![NewHandle] =
           [vol |-> vol, node |-> node, cursor |-> 0, opts |-> flags \ {"create", "trunc"}, origin |-> NewHandle,
            snap |-> -1]]
    /\ reached' = [reached EXCEPT ![NewHandle] = 0]

(* A directory, whose inode is made anew by every open.                    *)
OpenDirectory(p, path, flags) ==
    /\ Resolves(path) /\ Below(path) = <<>> /\ ~WantsWrite(flags)
    /\ add_file_handle(p, VolumeOf(path), 0, flags)
    /\ UNCHANGED <<fatVars, ext2Vars, mountVars, load, vsize>>

(* A file of the FAT volume.  The inode's size is read when its FatFile is *)
(* made; truncation sets it to 0; nothing else changes it.                 *)
OpenFat(p, path, flags) ==
    LET n == Below(path)[1]
        s == SlotOf(n)
    IN  /\ Valid(flags) /\ Resolves(path) /\ VolumeOf(path) = "fat" /\ Len(Below(path)) = 1
        /\ Found(n)
        /\ add_file_handle(p, "fat", s, flags)
        /\ IF "trunc" \in flags THEN FatOpenTruncated(s) ELSE FatOpen(s)
        /\ vsize' = [vsize EXCEPT ![s] =
               IF "trunc" \in flags THEN 0 ELSE IF fatFile[s] = Closed THEN slots[s].size ELSE @]
        /\ UNCHANGED <<ext2Vars, mountVars, load>>

(* A name that is not found is created and looked up again; when the entry *)
(* made does not bear the name, open fails and the entry stays.            *)
CreateFat(p, path, flags) ==
    /\ Valid(flags) /\ "create" \in flags
    /\ Resolves(path) /\ VolumeOf(path) = "fat" /\ Len(Below(path)) = 1
    /\ \E n \in {Below(path)[1]} :
          /\ ~Found(n)
          /\ FatCreate(n)
          /\ IF Found(n)'
             THEN /\ add_file_handle(p, "fat", SlotOf(n)', flags)
                  /\ vsize' = [vsize EXCEPT ![SlotOf(n)'] = 0]
             ELSE UNCHANGED <<fds, handles, reached, vsize>>
    /\ UNCHANGED <<ext2Vars, mountVars, load>>

(* A file of the ext2 volume, which must be readable.  Files are not       *)
(* created there.                                                          *)
OpenExt2(p, path, flags) ==
    LET n == Below(path)[1]
        i == ExtLookup(n)
    IN  /\ Valid(flags) /\ Resolves(path) /\ VolumeOf(path) = "ext2" /\ Len(Below(path)) = 1
        /\ ExtKind(n) = "file" /\ "r" \in Modes[i] /\ ~strayed
        /\ add_file_handle(p, "ext2", NewCopy, flags)
        /\ IF "trunc" \in flags THEN ExtOpenTruncated(i, NewCopy) ELSE ExtOpen(i, NewCopy)
        /\ vsize' = [vsize EXCEPT ![NewCopy] = IF "trunc" \in flags THEN 0 ELSE inodes[i].size]
        /\ UNCHANGED <<fatVars, mountVars, load>>

(* lookup of a symbolic link is not implemented and panics.                *)
OpenSymlink(path, flags) ==
    /\ Valid(flags) /\ Resolves(path) /\ VolumeOf(path) = "ext2" /\ Len(Below(path)) = 1
    /\ ExtKind(Below(path)[1]) = "symlink"
    /\ up' = FALSE
    /\ UNCHANGED <<fatVars, ext2Vars, mounts, tableVars, load, fds, handles, vsize, reached>>

(* /proc/<pid>/status, for any number, or for the caller.  Truncating it   *)
(* fails.                                                                  *)
PidNamed(n, p) == IF n = "self" THEN p ELSE PidOf[n]
OpenProc(p, path, flags) ==
    LET below == Below(path)
    IN  /\ Valid(flags) /\ "trunc" \notin flags
        /\ Resolves(path) /\ VolumeOf(path) = "proc" /\ Len(below) = 2 /\ below[2] = "status"
        /\ below[1] \in DOMAIN PidOf \cup {"self"}
        /\ add_file_handle(p, "proc", PidNamed(below[1], p), flags)
        /\ UNCHANGED <<fatVars, ext2Vars, mountVars, load, vsize>>

-----------------------------------------------------------------------------
(* close, dup, dup2.                                                       *)
Close(p, fd) ==
    /\ fd \in DOMAIN fds[p]
    /\ Descriptors([fds EXCEPT ![p] = [f \in DOMAIN @ \ {fd} |-> @[f]]])

Dup(p, fd) ==
    /\ fd \in DOMAIN fds[p] /\ FdLimit(p)
    /\ Descriptors(WithFd(p, new_fd(p), fds[p][fd]))

Dup2(p, fd, to) ==
    /\ fd \in DOMAIN fds[p] /\ fd # to
    /\ Descriptors(WithFd(p, to, fds[p][fd]))

-----------------------------------------------------------------------------
(* fork shares the handles; execve drops those opened with O_CLOEXEC; all  *)
(* go when the process's entry is reaped.  (Identities are used again.)    *)
ForkCopies(p, q) ==                           \* mutant: OpenFile::clone for each descriptor
    LET h == NewHandle
        f == CHOOSE x \in DOMAIN fds[p] : fds[p][x] # Console
    IN  IF FreeHandles = {} \/ \A x \in DOMAIN fds[p] : fds[p][x] = Console
        THEN Descriptors([fds EXCEPT ![q] = fds[p]])
        ELSE /\ fds' = [fds EXCEPT ![q] = [fds[p] EXCEPT ![f] = h]]
             /\ handles' = [handles EXCEPT ![h] = Handle(p, f)]
             /\ UNCHANGED <<fatVars, ext2Vars, mountVars, load, vsize, reached>>
fork_from(p, q) == Descriptors([fds EXCEPT ![q] = fds[p]])
Fork(p, q) == q \notin Living /\ fork_from(p, q)

CloseOnExec(p, f) == fds[p][f] # Console /\ "cloexec" \in Handle(p, f).opts
Exec(p) ==
    Descriptors([fds EXCEPT ![p] =
        [f \in {g \in DOMAIN fds[p] : ~CloseOnExec(p, g)} |-> fds[p][f]]])

Reaped(p) == p # First /\ Descriptors([fds EXCEPT ![p] = NoFds])

-----------------------------------------------------------------------------
(* read and write, at the handle's offset, which they advance by what was  *)
(* transferred.  Every file that open gives a handle of may be read.       *)
ReadFat(p, fd, n) ==
    LET h == Handle(p, fd)
    IN  /\ h.vol = "fat" /\ h.node # 0
        /\ FatRead(h.node)
        /\ Moved(p, fd, h.cursor + ReadLength(h.node, h.cursor, n))
        /\ UNCHANGED <<ext2Vars, mountVars, load, fds, vsize>>

ReadExt2(p, fd, n) ==
    LET h == Handle(p, fd)
    IN  /\ h.vol = "ext2" /\ h.node # 0 /\ ~Outdated(h.node) /\ ~strayed
        /\ ExtRead(h.node)
        /\ Moved(p, fd, h.cursor + ExtReadLength(h.node, h.cursor, n))
        /\ UNCHANGED <<fatVars, mountVars, load, fds, vsize>>

(* A procfs file is generated by its first read: the number of descriptors *)
(* of its process (FDSize), here in one cell, or nothing when it has gone. *)
generate_content(q) == Cardinality(DOMAIN fds[q])
Snapshot(h) == IF h.snap = -1 THEN generate_content(h.node) ELSE h.snap
ContentLength(snap) == IF snap = 0 THEN 0 ELSE 1
ReadProc(p, fd, n) ==
    LET h == Handle(p, fd)
        left == ContentLength(Snapshot(h)) - h.cursor
        to == IF left <= 0 THEN h.cursor ELSE h.cursor + Min({n, left})
    IN  /\ h.vol = "proc" /\ h.node # 0
        /\ handles' = [handles EXCEPT ![fds[p][fd]].cursor = to,
                                      ![fds[p][fd]].snap = Snapshot(h)]
        /\ reached' = [reached EXCEPT ![h.origin] = to]
        /\ UNCHANGED <<fatVars, ext2Vars, mountVars, load, fds, vsize>>

WriteFat(p, fd, n) ==
    LET h == Handle(p, fd)
    IN  /\ h.vol = "fat" /\ h.node # 0 /\ h.cursor + n <= load.at
        /\ \/ FatWrite(h.node, h.cursor, n) /\ Moved(p, fd, h.cursor + n)
           \/ /\ \E got \in 0 .. Missing(h.node, h.cursor, n), loose \in {0, 1} :
                     FatWriteFails(h.node, h.cursor, n, got, loose)
              /\ UNCHANGED <<handles, reached>>
        /\ UNCHANGED <<ext2Vars, mountVars, load, fds, vsize>>

(* The check of OpenFile::write: both access bits, or the owner may write. *)
MayWrite(h) == {"wronly", "rdwr"} \subseteq h.opts \/ "w" \in Modes[copy[h.node].ino]
WriteExt2(p, fd, n) ==
    LET h == Handle(p, fd)
    IN  /\ h.vol = "ext2" /\ h.node # 0 /\ MayWrite(h) /\ h.cursor + n <= load.at
        /\ ~Outdated(h.node) /\ ~strayed
        /\ \/ ExtWrite(h.node, h.cursor, n) /\ Moved(p, fd, h.cursor + n)
           \/ ExtWriteFails(h.node, h.cursor, n) /\ UNCHANGED <<handles, reached>>
        /\ UNCHANGED <<fatVars, mountVars, load, fds, vsize>>

(* A read or write through a copy that the file on the disk has left       *)
(* behind: it puts back an old size and old pointers.  What follows on     *)
(* this volume is not modelled.                                            *)
UseOutdated(p, fd) ==
    LET h == Handle(p, fd)
    IN  /\ h.vol = "ext2" /\ h.node # 0 /\ Outdated(h.node)
        /\ Stray
        /\ UNCHANGED <<fatVars, mountVars, load, fds, handles, vsize, reached>>

-----------------------------------------------------------------------------
(* lseek: saturating; SEEK_END counts from Inode.size.                     *)
SeekBase(h, whence) ==
    CASE whence = "start" -> 0
      [] whence = "current" -> h.cursor
      [] whence = "end" -> IF h.vol = "proc" \/ h.node = 0 THEN 0 ELSE vsize[h.node]
Lseek(p, fd, whence, off) ==
    LET to == Max({0, SeekBase(Handle(p, fd), whence) + off})
    IN  /\ to <= load.at
        /\ Moved(p, fd, to)
        /\ UNCHANGED <<fatVars, ext2Vars, mountVars, load, fds, vsize>>

(* getdents64, with room for some entries: the offset counts entries.      *)
DirSize(vol) ==
    CASE vol = "fat" -> Cardinality(Listed)
      [] vol = "ext2" -> Len(get_dentries)
      [] vol = "proc" -> 4 + Cardinality(Living)
Getdents(p, fd, room) ==
    LET h == Handle(p, fd)
        left == DirSize(h.vol) - h.cursor
        to == IF left <= 0 THEN h.cursor ELSE h.cursor + Min({room, left})
    IN  /\ h.node = 0 /\ to <= load.at /\ (h.vol = "ext2" => ExtListable)
        /\ Moved(p, fd, to)
        /\ UNCHANGED <<fatVars, ext2Vars, mountVars, load, fds, vsize>>

(* InodeOps::unlink of a FAT directory.  No system call leads to it.       *)
Unlink(s) ==
    /\ up /\ "fat" \in Range(mounts)
    /\ FatUnlink(s)
    /\ UNCHANGED <<ext2Vars, mountVars, load, fds, handles, vsize, reached>>

(* FatTable::write_entry on a table of bytes; Fat has the table of numbers *)
(* that EntriesIndependent shows it to be.                                 *)
SetEntry(c, value) ==
    /\ WriteTable(c, value)
    /\ UNCHANGED <<fatVars, ext2Vars, mounts, up, load, fds, handles, vsize, reached>>

-----------------------------------------------------------------------------
FilesInit ==
    /\ load \in Loads
    /\ \E root \in load.roots : FatInit(root)
    /\ Ext2Init(ReadOnlyDisk(load.disk))
    /\ MountsInit(load.disk)
    /\ \E t \in load.tables : TableInit(t[1], t[2])
    /\ fds = [p \in Procs |-> IF p = First THEN [f \in 0 .. 2 |-> Console] ELSE NoFds]
    /\ handles = [h \in Handles |-> None]
    /\ vsize = [n \in Nodes |-> 0]
    /\ reached = [h \in Handles |-> 0]

FilesNext ==
    up /\
    \/ \E p \in Living, path \in load.paths, flags \in load.flags :
          \/ OpenDirectory(p, path, flags)
          \/ OpenFat(p, path, flags)
          \/ CreateFat(p, path, flags)
          \/ OpenExt2(p, path, flags)
          \/ OpenSymlink(path, flags)
          \/ OpenProc(p, path, flags)
    \/ \E p \in Living, fd \in load.touched : Close(p, fd)
    \/ \E p \in Living : \E fd \in DOMAIN fds[p] :
          load.dups /\ (Dup(p, fd) \/ \E to \in load.touched : Dup2(p, fd, to))
    \/ \E p \in Living, q \in Procs : load.forks /\ Fork(p, q)
    \/ \E p \in Living : Exec(p) \/ Reaped(p)
    \/ \E p \in Living : \E fd \in DOMAIN fds[p] : Has(p, fd) /\
          \/ \E n \in load.sizes : \/ ReadFat(p, fd, n)
                              \/ ReadExt2(p, fd, n)
                              \/ ReadProc(p, fd, n)
                              \/ WriteFat(p, fd, n)
                              \/ WriteExt2(p, fd, n)
                              \/ Getdents(p, fd, n)
          \/ UseOutdated(p, fd)
          \/ \E seek \in load.seeks : Lseek(p, fd, seek[1], seek[2])
    \/ \E s \in SlotNums : load.unlinks /\ Unlink(s)
    \/ \E c \in DOMAIN entries, value \in load.values : SetEntry(c, value)

FilesSpec == FilesInit /\ [][FilesNext]_fileVars

-----------------------------------------------------------------------------
(* What mount accepts, the drivers can address, whatever a partition's     *)
(* boot sector and superblock hold: see LayoutSound and InodesApart.       *)
VolumesSound ==
    \A part \in Range(Partitions(load.disk)) : LayoutSound(part.bpb) /\ InodesApart(part.super)

(* Descriptors that stem from one open, through dup, dup2 and fork, are at *)
(* one offset: where the last read, write or lseek through any of them     *)
(* left it.  So what parent and child write through an inherited           *)
(* descriptor follows each other and is not overwritten.                   *)
SharedOffset ==
    \A p \in Living : \A fd \in DOMAIN fds[p] :
        Has(p, fd) => At(p, fd) = reached[Handle(p, fd).origin]
=============================================================================
