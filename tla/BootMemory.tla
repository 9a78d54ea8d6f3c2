----------------------------- MODULE BootMemory -----------------------------
(***************************************************************************)
(* Physical memory from the firmware's map to the kernel's bitmaps: the    *)
(* boot loader takes frames, reports what is left, and the kernel builds   *)
(* its page allocator from the report.                                     *)
(*                                                                         *)
(* Sources: zenos-bootloader/uefi/src/{main,memory_descriptor}.rs,         *)
(* zenos-bootloader/common/src/{lib,legacy_memory_region}.rs,              *)
(* zenos-kernel/src/lib.rs (kinit), memory/mod.rs (initialize).            *)
(*                                                                         *)
(* Firmware descriptors are sorted, disjoint and page-granular.  What the  *)
(* loader takes frames for (page tables, kernel stack, GDT, boot info) is  *)
(* a number of requests.                                                   *)
(***************************************************************************)
EXTENDS PageAllocator, SequencesExt

CONSTANTS
    Machines,   \* firmware: descriptors, the kernel file and the ramdisk
    LowEnd,     \* LOWER_MEMORY_END_PAGE
    MaxTaken,   \* bound on the frames the loader asks for
    NodeSize,   \* size of a BitmapNode, in the unit of PageSize
    PageSize    \* size of a page; a bitmap word has size 1

VARIABLES
    machine,    \* the machine booted
    phase,      \* "loader", "kernel", "panic"
    at,         \* descriptors of memory_map consumed
    current,    \* current_descriptor
    next_frame, \* next_frame of the LegacyFrameAllocator
    taken,      \* history: frames handed out by it
    storage     \* history: frames that hold the bitmaps

bootVars == <<machine, phase, at, current, next_frame, taken, storage>>

(* kind() and usable_after_bootloader_exit() of a UEFI descriptor.         *)
Usable(d) == d.ty = "conventional"
UsableAfterExit(d) == d.ty \in {"conventional", "loader", "boot"}
EndOf(d) == d.start + d.pages

-----------------------------------------------------------------------------
(* LegacyFrameAllocator.                                                   *)

(* allocate_frame_from_descriptor.                                         *)
FrameIn(d) == IF next_frame < d.start THEN d.start ELSE next_frame
FromDescriptor(d) == FrameIn(d) <= EndOf(d) - 1

(* allocate_frame: the current descriptor, else the next one that has a    *)
(* frame; memory_map never goes back.                                      *)
Suitable ==
    {i \in DOMAIN machine.map :
        /\ i = current \/ i > at
        /\ Usable(machine.map[i])
        /\ FromDescriptor(machine.map[i])}

AllocateFrame ==
    LET i == MinOf(Suitable)
        f == FrameIn(machine.map[i])
    IN  /\ at' = IF i > at THEN i ELSE at
        /\ current' = i
        /\ next_frame' = f + 1
        /\ taken' = taken \cup {f}

(* A frame for a page table, the kernel's segments, stack or GDT, or the   *)
(* boot info.  Every request expects to be served.                         *)
RequestFrame ==
    /\ phase = "loader"
    /\ Cardinality(taken) < MaxTaken
    /\ IF Suitable = {} THEN phase' = "panic" /\ UNCHANGED <<at, current, next_frame, taken>>
       ELSE AllocateFrame /\ phase' = phase
    /\ UNCHANGED <<machine, storage, vars>>

-----------------------------------------------------------------------------
(* construct_memory_map.                                                   *)

(* The frames taken so far, the kernel file and the ramdisk if any.        *)
NoRamdiskSlice ==                       \* mutant: the ramdisk is left out
    {[start |-> LowEnd, end |-> next_frame], machine.kernel}
used_slices ==
    {[start |-> LowEnd, end |-> next_frame], machine.kernel} \cup machine.ramdisk

(* split_and_add_region: a usable region is cut at the earliest overlap    *)
(* until none is left.  add_region skips empty ones.                       *)
NonEmpty(regions) == SelectSeq(regions, LAMBDA r : r.start # r.end)
split_and_add_region(region) ==
    LET Chunks[s \in region.start .. region.end] ==
            LET overlaps == {[start |-> MaxOf({s, u.start}), end |-> MinOf({region.end, u.end})] :
                                u \in used_slices}
                cuts == {o \in overlaps : o.start < o.end}
                first == CHOOSE o \in cuts : \A p \in cuts : o.start <= p.start
            IN  IF cuts = {} \/ s = region.end
                THEN <<[start |-> s, end |-> region.end, kind |-> "usable"]>>
                ELSE <<[start |-> s, end |-> first.start, kind |-> "usable"],
                       [start |-> first.start, end |-> first.end, kind |-> "bootloader"]>>
                     \o Chunks[first.end]
    IN  NonEmpty(Chunks[region.start])

RegionsOf(d) ==
    LET region == [start |-> d.start, end |-> EndOf(d), kind |-> d.ty]
    IN  IF UsableAfterExit(d) THEN split_and_add_region(region) ELSE NonEmpty(<<region>>)

construct_memory_map == FlattenSeq([i \in DOMAIN machine.map |-> RegionsOf(machine.map[i])])

OneSliceRoom == Len(machine.map) + 2    \* mutant: room for one used slice
memory_map_max_region_count == Len(machine.map) + 6

-----------------------------------------------------------------------------
(* kinit and PageAllocator::initialize: the usable regions become nodes,   *)
(* in order.  The nodes and their bitmaps are written from physical        *)
(* address 0 up, through the window.                                       *)

Nodes(regions) ==
    LET usable == SelectSeq(regions, LAMBDA r : r.kind = "usable")
    IN  [i \in DOMAIN usable |-> NewNode(usable[i].start, usable[i].end - usable[i].start)]
StorageSize(nodes) ==
    SumFunction([i \in DOMAIN nodes |-> NodeSize + WordCount(nodes[i].pages)])
StorageFrames(nodes) == {f \in Frames : f * PageSize < StorageSize(nodes)}

BuildNodes(regions) ==
    /\ mem' = NewMem(Nodes(regions))
    /\ storage' = StorageFrames(Nodes(regions))

(* create_boot_info ends the loader's requests, and the kernel starts.     *)
CreateBootInfo ==
    /\ phase = "loader" /\ taken # {}
    /\ LET regions == construct_memory_map
       IN  IF Len(regions) > memory_map_max_region_count
           THEN phase' = "panic" /\ UNCHANGED <<mem, storage>>
           ELSE phase' = "kernel" /\ BuildNodes(regions)
    /\ UNCHANGED <<machine, at, current, next_frame, taken, held, pinned, job, scratch>>

-----------------------------------------------------------------------------
BootInit ==
    /\ machine \in Machines
    /\ phase = "loader"
    /\ at = 0 /\ current = 0
    /\ next_frame = LowEnd
    /\ taken = {} /\ storage = {}
    /\ StartsWith(<<>>)

Up == phase = "kernel"

(* A frame that holds a bitmap was handed out: what is written to it then  *)
(* changes the bitmaps at will.                                            *)
Overwritten == (storage \cap Managed(mem.nodes)) \ FreeFrames(mem.nodes) # {}

(* The kernel never hands out a frame that the loader took, or that holds  *)
(* the kernel file or the ramdisk: such frames are in no bitmap.  Nothing  *)
(* else is withheld: every other frame that the firmware gives up is       *)
(* managed, except those the loader's range passed over.  The regions      *)
(* reported are disjoint, as the allocator takes for granted.              *)
SliceFrames(s) == {f \in Frames : s.start <= f /\ f < s.end}
InUseAtBoot == taken \cup UNION {SliceFrames(s) : s \in {machine.kernel} \cup machine.ramdisk}
BootFramesKept ==
    /\ InUseAtBoot \cap Managed(mem.nodes) = {}
    /\ Up => \A i \in DOMAIN machine.map : UsableAfterExit(machine.map[i]) =>
            SliceFrames([start |-> machine.map[i].start, end |-> EndOf(machine.map[i])])
                \subseteq Managed(mem.nodes) \cup InUseAtBoot \cup (LowEnd .. next_frame - 1)
    /\ phase = "loader" => Reported(Nodes(construct_memory_map))

(* The memory map has room for every region it is split into: the loader   *)
(* does not stop at "no more free entries in memory map".                  *)
MapFits == phase = "loader" => Len(construct_memory_map) <= memory_map_max_region_count
=============================================================================
