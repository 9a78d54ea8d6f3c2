--------------------------- MODULE PageAllocator ---------------------------
(***************************************************************************)
(* The physical page allocator, the kernel's mapping functions on top of   *)
(* it, and alloc_page_table as the caller that keeps physical addresses.   *)
(*                                                                         *)
(* Source: zenos-kernel/src/memory/mod.rs, process/isolation.rs.           *)
(*                                                                         *)
(* Addresses are counted in 4 KiB pages: a frame is a page number.  Every  *)
(* function holds the ALLOCATOR lock from its first to its last effect, so *)
(* each is one step.  The upper levels of the page tables are abstracted   *)
(* to one table per area of the kernel's address space, taken from the     *)
(* allocator when a page of the area is first mapped.                      *)
(***************************************************************************)
EXTENDS Integers, Sequences, FiniteSets, Functions

CONSTANTS
    Frames,     \* the page numbers of physical memory
    None,       \* Option::None, an Err result, an absent mapping
    WordBits,   \* bits of a bitmap word (64)
    HugeWords,  \* words of a 2 MiB page (8)
    VPages,     \* kernel virtual pages outside the physical memory window
    Areas,      \* parts of the address space with a page table of their own
    AreaOf,     \* the area of a virtual page
    ScratchSlots, \* length of the ring of scratch pages (256)
    Scratch,    \* the ring
    Given,      \* frames asked for by address (ACPI tables, huge pages)
    Clients,    \* kernel control flows that may be inside alloc_page_table
    MaxScratch  \* bound on SCRATCH_COUNTER

ASSUME FramesAssumption == Frames \subseteq Nat /\ Given \subseteq Frames /\ None \notin Frames
ASSUME WordAssumption == WordBits \in Nat \ {0} /\ HugeWords \in Nat \ {0}
ASSUME AreaAssumption == AreaOf \in [VPages -> Areas]
ASSUME ScratchAssumption ==
    /\ ScratchSlots \in Nat \ {0}
    /\ Scratch \in [0 .. ScratchSlots - 1 -> VPages]
    /\ MaxScratch \in Nat

VARIABLES
    mem,        \* nodes: the bitmaps; mapped, tables: the kernel's mappings;
                \* lost (history): frames taken that nothing refers to
    held,       \* frames whose physical address a finished caller keeps
    pinned,     \* frames taken at a given address
    job,        \* the scratch page and frame of an unfinished caller
    scratch     \* SCRATCH_COUNTER

vars == <<mem, held, pinned, job, scratch>>

ScratchPages == Range(Scratch)
Idle == [page |-> None, frame |-> None]
Jobs == [page : ScratchPages \cup {None}, frame : Frames \cup {None}]

(* A BitmapNode.  The list is a sequence whose last element is the head.   *)
Bits == 0 .. WordBits - 1
WordCount(pages) == (pages + WordBits - 1) \div WordBits
Words(pages) == 0 .. WordCount(pages) - 1
Holds(node, f) == node.base <= f /\ f < node.base + node.pages
PageFree(node, p) == p % WordBits \in node.map[p \div WordBits]
FreePages(node) == {p \in 0 .. node.pages - 1 : PageFree(node, p)}
Managed(nodes) == {f \in Frames : \E i \in DOMAIN nodes : Holds(nodes[i], f)}
FreeFrames(nodes) ==
    {f \in Frames : \E i \in DOMAIN nodes :
        Holds(nodes[i], f) /\ PageFree(nodes[i], f - nodes[i].base)}

(* initialize, for one region: the bits beyond the region stay clear.      *)
NewNode(base, pages) ==
    [base |-> base, pages |-> pages,
     map |-> [w \in Words(pages) |-> {b \in Bits : w * WordBits + b < pages}]]

MinOf(S) == CHOOSE x \in S : \A y \in S : x <= y
MaxOf(S) == CHOOSE x \in S : \A y \in S : y <= x

(* The node a search that starts at the head finds.                        *)
NodeOf(nodes, f) == MaxOf({i \in DOMAIN nodes : Holds(nodes[i], f)})

(* The word of a frame's bit, and the bit.                                 *)
Offset(nodes, f) == f - nodes[NodeOf(nodes, f)].base
WithWord(nodes, f, word) ==
    [nodes EXCEPT ![NodeOf(nodes, f)].map[Offset(nodes, f) \div WordBits] = word]
WordAt(nodes, f) ==
    nodes[NodeOf(nodes, f)].map[Offset(nodes, f) \div WordBits]
BitOf(nodes, f) == Offset(nodes, f) % WordBits

(* compare_exchange with the bit cleared; fetch_or with the bit set.       *)
Claim(nodes, f) == WithWord(nodes, f, WordAt(nodes, f) \ {BitOf(nodes, f)})
ReleaseNext(nodes, f) ==                \* mutant: the bit after it
    WithWord(nodes, f, WordAt(nodes, f) \cup {(BitOf(nodes, f) + 1) % WordBits})
Release(nodes, f) == WithWord(nodes, f, WordAt(nodes, f) \cup {BitOf(nodes, f)})

(* alloc(Size4KiB, None): node by node from the head, the lowest bit.      *)
alloc_any(nodes) ==
    LET open == {i \in DOMAIN nodes : FreePages(nodes[i]) # {}}
        node == nodes[MaxOf(open)]
    IN  IF open = {} THEN None ELSE node.base + MinOf(FreePages(node))

(* alloc(Size4KiB, Some(f)).                                               *)
alloc_at(nodes, f) == IF f \in FreeFrames(nodes) THEN f ELSE None

(* alloc(Size2MiB, Some(f)): aligned in memory and in the region, and      *)
(* every word of it full.  A partial last word is never full.              *)
HugeFrames(f) == f .. f + HugeWords * WordBits - 1
huge_fits(nodes, f) ==
    LET step == HugeWords * WordBits
        node == nodes[NodeOf(nodes, f)]
        p == Offset(nodes, f)
        w == p \div WordBits
    IN  /\ f % step = 0
        /\ f \in Managed(nodes)
        /\ p % step = 0
        /\ w + HugeWords <= WordCount(node.pages)
        /\ \A i \in w .. w + HugeWords - 1 : node.map[i] = Bits
ClaimHuge(nodes, f) ==
    [nodes EXCEPT ![NodeOf(nodes, f)].map =
        [w \in DOMAIN @ |->
            IF w * WordBits \in {g - nodes[NodeOf(nodes, f)].base : g \in HugeFrames(f)}
            THEN {} ELSE @[w]]]

(* dealloc(f, Size4KiB): an error for an address outside every region.     *)
dealloc(nodes, f) == IF f \in Managed(nodes) THEN Release(nodes, f) ELSE nodes

-----------------------------------------------------------------------------
(* kalloc_page, ualloc_page, ualloc_page_flags with PageType::Arbitrary.   *)
(* The flags play no part here.  map_page takes the missing table from the *)
(* same allocator; if that fails the frame is dropped.  A page that is     *)
(* already mapped stays as it is, and the new frame is returned as if it   *)
(* were mapped.                                                            *)

Result(m, f) == [mem |-> m, frame |-> f]

WithTable(m, v) ==
    LET t == alloc_any(m.nodes)
    IN  CASE m.tables[AreaOf[v]] # None -> m
          [] m.tables[AreaOf[v]] = None /\ t # None ->
                [m EXCEPT !.nodes = Claim(@, t), !.tables[AreaOf[v]] = t]
          [] OTHER -> m

RemapPage(m, v, f) ==                   \* mutant: the old mapping is replaced
    LET t == WithTable(m, v)
    IN  IF t.tables[AreaOf[v]] = None
        THEN Result([t EXCEPT !.lost = @ \cup {f}], None)
        ELSE Result([t EXCEPT !.mapped[v] = f], f)

map_page(m, v, f) ==
    LET t == WithTable(m, v)
    IN  CASE t.tables[AreaOf[v]] = None ->
                Result([t EXCEPT !.lost = @ \cup {f}], None)
          [] t.tables[AreaOf[v]] # None /\ t.mapped[v] # None -> Result(t, f)
          [] OTHER -> Result([t EXCEPT !.mapped[v] = f], f)

kalloc_page(m, v) ==
    LET f == alloc_any(m.nodes)
    IN  IF f = None THEN Result(m, None)
        ELSE map_page([m EXCEPT !.nodes = Claim(@, f)], v, f)

(* A caller that only uses the page: a frame that was not mapped is lost.  *)
kalloc_mapping(m, v) ==
    LET r == kalloc_page(m, v)
    IN  IF r.frame = None \/ r.mem.mapped[v] = r.frame THEN r
        ELSE Result([r.mem EXCEPT !.lost = @ \cup {r.frame}], r.frame)

(* kfree_page: unmap and give the frame back.  kleak_page: unmap only.     *)
kfree_page(m, v) ==
    [m EXCEPT !.mapped[v] = None, !.nodes = dealloc(@, m.mapped[v])]
kleak_page(m, v) == [m EXCEPT !.mapped[v] = None]

-----------------------------------------------------------------------------
NewMem(nodes) ==
    [nodes |-> nodes, mapped |-> [v \in VPages |-> None],
     tables |-> [a \in Areas |-> None], lost |-> {}]

(* The regions the boot loader reports: disjoint, and made of frames.      *)
Disjoint(nodes) ==
    \A i, j \in DOMAIN nodes : i # j =>
        \A f \in Frames : ~(Holds(nodes[i], f) /\ Holds(nodes[j], f))
Reported(nodes) ==
    /\ Len(nodes) \in Nat /\ DOMAIN nodes = 1 .. Len(nodes)
    /\ \A i \in DOMAIN nodes :
          LET base == nodes[i].base
              pages == nodes[i].pages
          IN  /\ base \in Nat /\ pages \in Nat
              /\ nodes[i] = NewNode(base, pages)
              /\ \A p \in 0 .. pages - 1 : base + p \in Frames
    /\ Disjoint(nodes)

StartsWith(nodes) ==
    /\ mem = NewMem(nodes)
    /\ held = {} /\ pinned = {}
    /\ job = [c \in Clients |-> Idle]
    /\ scratch = 0

OrdinaryPages == VPages \ ScratchPages

KallocPage(v) ==
    /\ mem' = kalloc_mapping(mem, v).mem
    /\ UNCHANGED <<held, pinned, job, scratch>>

KfreePage(v) ==
    /\ mem.mapped[v] # None
    /\ mem' = kfree_page(mem, v)
    /\ UNCHANGED <<held, pinned, job, scratch>>

(* kalloc_page(HIGHER_HALF_BASE + f, Recursive), for the ACPI tables.  The *)
(* window is mapped with 2 MiB pages, which map_page accepts.              *)
AllocRecursive(f) ==
    /\ alloc_at(mem.nodes, f) # None
    /\ mem' = [mem EXCEPT !.nodes = Claim(@, f)]
    /\ pinned' = pinned \cup {f}
    /\ UNCHANGED <<held, job, scratch>>

(* kalloc_page(f, Huge).                                                   *)
AllocHuge(f) ==
    /\ huge_fits(mem.nodes, f)
    /\ mem' = [mem EXCEPT !.nodes = ClaimHuge(@, f)]
    /\ pinned' = pinned \cup HugeFrames(f)
    /\ UNCHANGED <<held, job, scratch>>

(* alloc_page_table and alloc_and_copy_page map the frame at the next      *)
(* scratch page, fill it through the window and unmap the scratch page.    *)
(* They run with interrupts on and may be interrupted in between.          *)
get_scratch_addr == Scratch[scratch % ScratchSlots]

AllocTableBegin(c) ==
    /\ job[c] = Idle
    /\ scratch < MaxScratch
    /\ scratch' = scratch + 1
    /\ LET r == kalloc_page(mem, get_scratch_addr)
       IN  /\ mem' = r.mem
           /\ job' = IF r.frame = None THEN job
                     ELSE [job EXCEPT ![c] = [page |-> get_scratch_addr, frame |-> r.frame]]
    /\ UNCHANGED <<held, pinned>>

(* kleak_page may find the page unmapped; the error is ignored.            *)
KeepsPage(c) ==                         \* mutant: the scratch page stays mapped
    /\ job[c] # Idle
    /\ held' = held \cup {job[c].frame}
    /\ job' = [job EXCEPT ![c] = Idle]
    /\ UNCHANGED <<mem, pinned, scratch>>
AllocTableEnd(c) ==
    /\ job[c] # Idle
    /\ mem' = kleak_page(mem, job[c].page)
    /\ held' = held \cup {job[c].frame}
    /\ job' = [job EXCEPT ![c] = Idle]
    /\ UNCHANGED <<pinned, scratch>>

(* free_phys_page, called by the teardown of an address space.             *)
FreePhysPage(f) ==
    /\ f \in held
    /\ mem' = [mem EXCEPT !.nodes = dealloc(@, f)]
    /\ held' = held \ {f}
    /\ UNCHANGED <<pinned, job, scratch>>

(* pages: those mapped and unmapped by callers that are not modelled.      *)
PageNext(pages) ==
    \/ \E v \in pages : KallocPage(v) \/ KfreePage(v)
    \/ \E f \in Given : AllocRecursive(f) \/ AllocHuge(f)
    \/ \E f \in held : FreePhysPage(f)
    \/ \E c \in Clients : AllocTableBegin(c) \/ AllocTableEnd(c)

(* The allocator by itself.  init gives it the regions once; before, every *)
(* allocation fails.                                                       *)
init ==
    /\ mem = NewMem(<<>>)
    /\ Reported(mem'.nodes) /\ mem' = NewMem(mem'.nodes)
    /\ UNCHANGED <<held, pinned, job, scratch>>

PageSpec == StartsWith(<<>>) /\ [][init \/ PageNext(OrdinaryPages)]_vars

-----------------------------------------------------------------------------
(* The owners of a frame, read off the state, and the one if there is one. *)

OwnedAs(f, o) ==
    \/ o = "free" /\ f \in FreeFrames(mem.nodes)
    \/ o = "mapped" /\ \E v \in OrdinaryPages : mem.mapped[v] = f
    \/ o = "table" /\ \E a \in Areas : mem.tables[a] = f
    \/ o = "held" /\ (f \in held \/ \E c \in Clients : job[c].frame = f)
    \/ o = "pinned" /\ f \in pinned
    \/ o = "lost" /\ f \in mem.lost
    \/ o = "reserved" /\ f \notin Managed(mem.nodes)

Owner(f) ==
    LET owners == {o \in {"free", "mapped", "table", "held", "pinned", "lost", "reserved"} :
                      OwnedAs(f, o)}
    IN  IF \E o \in owners : owners = {o} THEN CHOOSE o \in owners : TRUE ELSE "conflict"

Life == INSTANCE FrameLife WITH owner <- [f \in Frames |-> Owner(f)]

(* Every frame has exactly one owner at any time, and changes hands only   *)
(* along the edges of FrameLife: a bit set in a bitmap is the only way a   *)
(* frame is free, and nothing in use is ever marked free.                  *)
OneOwner == Life!Spec

(* Two users never share a frame: not two virtual pages, not two page      *)
(* tables, not two callers of alloc_page_table, whose frames are never     *)
(* those of finished callers.                                              *)
SingleUser ==
    /\ \A v, w \in VPages : mem.mapped[v] = mem.mapped[w] /\ v # w => mem.mapped[v] = None
    /\ \A a, b \in Areas : mem.tables[a] = mem.tables[b] /\ a # b => mem.tables[a] = None
    /\ \A c, d \in Clients : job[c].frame = job[d].frame /\ c # d => job[c] = Idle
    /\ \A c \in Clients : job[c].frame \notin held

(* A scratch page is mapped only while the caller whose frame it maps is   *)
(* unfinished, although callers that wrap around the ring unmap pages of   *)
(* one another: a frame given back is never still mapped there.            *)
ScratchTransient ==
    \A v \in ScratchPages : mem.mapped[v] # None =>
        \E c \in Clients : job[c] = [page |-> v, frame |-> mem.mapped[v]]
=============================================================================
