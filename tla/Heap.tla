-------------------------------- MODULE Heap --------------------------------
(***************************************************************************)
(* The kernel heap: slabs of equal blocks, taken from the page allocator.  *)
(*                                                                         *)
(* Source: zenos-kernel/src/memory/alloc.rs.                               *)
(*                                                                         *)
(* GlobalAlloc's alloc and dealloc run with interrupts disabled: one step  *)
(* each.  A block is the slab address it was cut from (a slot) and its     *)
(* number; the doubly linked free list of a slab is a sequence of blocks.  *)
(* Requests above the largest class go to the linked list allocator of a   *)
(* library and are not modelled.                                           *)
(***************************************************************************)
EXTENDS PageAllocator, SequencesExt

CONSTANTS
    SizeClasses,    \* SLAB_SIZE_CLASSES, ascending
    BlocksPerSlab,  \* blocks of a slab of each class
    Layouts,        \* requests: [size, align], size a multiple of align
    Slots,          \* 1 .. bound on the slab addresses ever used
    PagesOf,        \* the virtual pages of a slot (MAX_SLAB_PAGES of them)
    MaxSlabs        \* MAX_SLABS: capacity of the slab list and of freed_slots

VARIABLES
    slabs,          \* the slab list
    base_addr,      \* the next slot never used
    freed_slots,    \* slots to be reused, last in first out
    live,           \* history: blocks handed out and not given back
    strayed,        \* history: a block went back to a slab it is not from
    crashed         \* the kernel panicked

heapVars == <<slabs, base_addr, freed_slots, live, strayed, crashed>>

Blocks == [slot : Slots, index : 1 .. MaxOf({BlocksPerSlab[i] : i \in DOMAIN BlocksPerSlab})]
Slab(slot, class, free, used) ==
    [slot |-> slot, class |-> class, free |-> free, used |-> used]

HeapInit ==
    /\ slabs = <<>> /\ freed_slots = <<>>
    /\ base_addr = 1
    /\ live = {}
    /\ strayed = FALSE /\ crashed = FALSE

-----------------------------------------------------------------------------
(* The class of a request, and of a release, which ignores the alignment.  *)
class_for(layout) ==
    MinOf({i \in DOMAIN SizeClasses :
              SizeClasses[i] >= layout.size /\ SizeClasses[i] >= layout.align})
class_freed(layout) == MinOf({i \in DOMAIN SizeClasses : SizeClasses[i] >= layout.size})

(* The first slab of a class, whether it has space or not; 0 if none.      *)
SlabOf(class) == SelectInSeq(slabs, LAMBDA s : s.class = class)

(* Slab::alloc answers with a block.                                       *)
HasSpace(s) == s.used < BlocksPerSlab[s.class] /\ s.free # <<>>

(* Slab::new maps every page of the slot; a failure is a panic.            *)
MapPages(m, slot) == FoldLeft(LAMBDA r, v : IF r.frame = None THEN r ELSE kalloc_mapping(r.mem, v),
                              Result(m, 0), PagesOf[slot])
UnmapPages(m, slot) == FoldLeft(LAMBDA n, v : kfree_page(n, v), m, PagesOf[slot])

BlockList(slot, class) == [i \in 1 .. BlocksPerSlab[class] |-> [slot |-> slot, index |-> i]]

AllocFromSlab(i, layout) ==
    /\ slabs' = [slabs EXCEPT ![i].free = Tail(@), ![i].used = @ + 1]
    /\ live' = live \cup {[block |-> Head(slabs[i].free), layout |-> layout]}
    /\ crashed' = crashed

KeepsSlot == freed_slots                \* mutant: the slot is not popped
SlotsLeft == IF freed_slots = <<>> THEN <<>> ELSE Front(freed_slots)

AllocFromNewSlab(layout) ==
    LET class == class_for(layout)
        slot == IF freed_slots = <<>> THEN base_addr ELSE Last(freed_slots)
        r == MapPages(mem, slot)
        list == BlockList(slot, class)
    IN  /\ slot \in Slots
        /\ mem' = r.mem
        /\ freed_slots' = SlotsLeft
        /\ base_addr' = IF freed_slots = <<>> THEN base_addr + 1 ELSE base_addr
        /\ IF r.frame = None \/ Len(slabs) = MaxSlabs
           THEN crashed' = TRUE /\ UNCHANGED <<slabs, live>>
           ELSE /\ slabs' = Append(slabs, Slab(slot, class, Tail(list), 1))
                /\ live' = live \cup {[block |-> Head(list), layout |-> layout]}
                /\ crashed' = crashed

HeapAlloc(layout) ==
    /\ ~crashed
    /\ LET i == SlabOf(class_for(layout))
       IN  IF i # 0 /\ HasSpace(slabs[i])
           THEN AllocFromSlab(i, layout) /\ UNCHANGED <<mem, base_addr, freed_slots>>
           ELSE AllocFromNewSlab(layout)
    /\ UNCHANGED <<held, pinned, job, scratch, strayed>>

-----------------------------------------------------------------------------
(* heapless::Vec::swap_remove.                                             *)
swap_remove(i) == Front([slabs EXCEPT ![i] = Last(slabs)])

(* Slab::dealloc pushes the block onto the list of the first slab of its   *)
(* class and lowers that slab's count; at zero the slab is given back.     *)
EmptyAtOne(s) == s.used <= 1            \* mutant: one block too early
Emptied(s) == s.used = 0

GiveBack(i, s) ==
    /\ slabs' = swap_remove(i)
    /\ mem' = UnmapPages(mem, s.slot)
    /\ freed_slots' = IF Len(freed_slots) < MaxSlabs THEN Append(freed_slots, s.slot)
                      ELSE freed_slots

HeapFree(a) ==
    /\ ~crashed
    /\ a \in live
    /\ live' = live \ {a}
    /\ LET i == SlabOf(class_freed(a.layout))
           s == [slabs[i] EXCEPT !.free = <<a.block>> \o @, !.used = @ - 1]
       IN  IF i = 0                     \* "not found in any slab"
           THEN UNCHANGED <<slabs, mem, freed_slots, strayed>>
           ELSE /\ strayed' = (strayed \/ slabs[i].slot # a.block.slot)
                /\ IF Emptied(s) THEN GiveBack(i, s)
                   ELSE slabs' = [slabs EXCEPT ![i] = s] /\ UNCHANGED <<mem, freed_slots>>
    /\ UNCHANGED <<base_addr, crashed, held, pinned, job, scratch>>

HeapNext == (\E l \in Layouts : HeapAlloc(l)) \/ (\E a \in live : HeapFree(a))

(* A block that is in use or on a free list lies in a slab that was given  *)
(* back.  The list nodes are in the blocks, so what follows is undefined.  *)
Dangling ==
    LET owned == {slabs[i].slot : i \in DOMAIN slabs}
    IN  \/ \E a \in live : a.block.slot \notin owned
        \/ \E i \in DOMAIN slabs : \E b \in Range(slabs[i].free) : b.slot \notin owned

-----------------------------------------------------------------------------
Mapped(slot) == \A v \in Range(PagesOf[slot]) : mem.mapped[v] # None

(* A block handed out and not given back stays readable: the pages of a    *)
(* slab go back to the page allocator only when no block of it is in use.  *)
LiveBlockMapped == \A a \in live : Mapped(a.block.slot)

(* The same, as long as every block went back to the slab it came from,    *)
(* and then also: no two requests hold one block, no block in use is on a  *)
(* free list, and a slab's count is the number of its blocks in use.       *)
HeapSound ==
    ~strayed =>
        /\ LiveBlockMapped
        /\ \A a, b \in live : a.block = b.block => a = b
        /\ \A i \in DOMAIN slabs : \A a \in live : ~Contains(slabs[i].free, a.block)
        /\ \A i \in DOMAIN slabs :
             slabs[i].used = Cardinality({a \in live : a.block.slot = slabs[i].slot})

(* A slot is in one place: behind one slab, once on the stack of slots to  *)
(* be reused, or not used yet, also after blocks went astray.              *)
SlotsDistinct ==
    LET owned == [i \in DOMAIN slabs |-> slabs[i].slot] \o freed_slots
    IN  IsInjective(owned) /\ \A i \in DOMAIN owned : owned[i] < base_addr
=============================================================================
