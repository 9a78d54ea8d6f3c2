------------------------------- MODULE Memory -------------------------------
(***************************************************************************)
(* Kernel memory as a whole: a machine boots (BootMemory), then the page   *)
(* allocator serves page tables (PageAllocator), the heap (Heap) and DMA   *)
(* buffers at the same time.                                               *)
(*                                                                         *)
(* Source of the DMA buffers: kalloc_dma_pages and kfree_dma_pages of      *)
(* zenos-kernel/src/memory/mod.rs.  Both take the ALLOCATOR lock once per  *)
(* page, with interrupts on, so two callers may alternate page by page.    *)
(***************************************************************************)
EXTENDS BootMemory, Heap

CONSTANTS
    DmaPages,   \* the virtual pages above the initial DMA_BASE, in order
    MaxBuffer,  \* bound on the pages of a DMA buffer
    Loads       \* for each machine, the users busy together: "pages", "heap", "dma"

VARIABLES
    load,       \* the users that are busy, chosen at the start
    dma_base,   \* DMA_BASE, as an index of DmaPages
    buffer      \* each client's buffer: first page, length, pages done

dmaVars == <<load, dma_base, buffer>>
allVars == <<vars, bootVars, heapVars, dmaVars>>

NoBuffer == [state |-> "none", first |-> 0, pages |-> 0, done |-> 0]
Asking(n) == [state |-> "asking", first |-> 0, pages |-> n, done |-> 0]

OtherPages == OrdinaryPages \ (Range(DmaPages) \cup UNION {Range(PagesOf[s]) : s \in Slots})

(* What happens after a bitmap is overwritten or a heap block is left in a *)
(* slab given back is undefined, and is not followed.                      *)
Runs == Up /\ ~Overwritten /\ ~crashed /\ ~Dangling

-----------------------------------------------------------------------------
DmaAsk(c, n) ==
    /\ buffer[c] = NoBuffer
    /\ buffer' = [buffer EXCEPT ![c] = Asking(n)]
    /\ UNCHANGED <<mem, dma_base>>

(* The range is reserved by a fetch_add before its first page is mapped.   *)
(* When that fails the call starts over with the next range.               *)
ReserveOne(b) == dma_base + 1           \* mutant: one page is reserved
Reserve(b) == dma_base + b.pages

DmaFirstPage(c) ==
    LET b == buffer[c]
        r == kalloc_mapping(mem, DmaPages[dma_base])
    IN  /\ b.state = "asking"
        /\ dma_base + b.pages <= Len(DmaPages) + 1
        /\ dma_base' = Reserve(b)
        /\ mem' = r.mem
        /\ buffer' = IF r.frame = None THEN buffer
                     ELSE [buffer EXCEPT ![c] = [b EXCEPT !.state = "mapping", !.first = dma_base,
                                                          !.done = 1]]

(* A later page that fails ends the call; the earlier ones stay mapped.    *)
DmaNextPage(c) ==
    LET b == buffer[c]
        r == kalloc_mapping(mem, DmaPages[b.first + b.done])
    IN  /\ b.state = "mapping" /\ b.done < b.pages
        /\ mem' = r.mem
        /\ buffer' = [buffer EXCEPT ![c] = IF r.frame = None THEN NoBuffer
                                           ELSE [b EXCEPT !.done = @ + 1]]
        /\ UNCHANGED dma_base

(* kfree_dma_pages, page by page.                                          *)
DmaFreePage(c) ==
    LET b == buffer[c]
    IN  /\ b.state = "freeing" \/ (b.state = "mapping" /\ b.done = b.pages)
        /\ mem' = kfree_page(mem, DmaPages[b.first + b.pages - b.done])
        /\ buffer' = [buffer EXCEPT ![c] = IF b.done = 1 THEN NoBuffer
                                           ELSE [b EXCEPT !.state = "freeing", !.done = @ - 1]]
        /\ UNCHANGED dma_base

DmaNext ==
    \E c \in Clients :
        \/ \E n \in 1 .. MaxBuffer : DmaAsk(c, n)
        \/ DmaFirstPage(c) \/ DmaNextPage(c) \/ DmaFreePage(c)

-----------------------------------------------------------------------------
MemoryInit ==
    /\ BootInit
    /\ load \in Loads[machine]
    /\ HeapInit
    /\ dma_base = 1
    /\ buffer = [c \in Clients |-> NoBuffer]

MemoryNext ==
    \/ (RequestFrame \/ CreateBootInfo) /\ UNCHANGED <<heapVars, dmaVars>>
    \/ Runs /\ "pages" \in load /\ PageNext(OtherPages) /\ UNCHANGED <<bootVars, heapVars, dmaVars>>
    \/ Runs /\ "heap" \in load /\ HeapNext /\ UNCHANGED <<bootVars, dmaVars>>
    \/ Runs /\ "dma" \in load /\ DmaNext /\ UNCHANGED <<load, held, pinned, job, scratch, bootVars, heapVars>>

MemorySpec == MemoryInit /\ [][MemoryNext]_allVars

-----------------------------------------------------------------------------
(* get_stats: a word is masked with one bit less than it has.              *)
LastTwoUncounted(node, w) ==            \* mutant: the shift is by one less again
    LET rest == node.pages - w * WordBits
        bits == IF w = WordCount(node.pages) - 1 /\ rest < WordBits THEN rest ELSE WordBits
    IN  node.map[w] \cap (0 .. bits - 3)
CountedBits(node, w) ==
    LET rest == node.pages - w * WordBits
        bits == IF w = WordCount(node.pages) - 1 /\ rest < WordBits THEN rest ELSE WordBits
    IN  node.map[w] \cap (0 .. bits - 2)
free_pages(node) ==
    SumFunction([w \in Words(node.pages) |-> Cardinality(CountedBits(node, w))])
get_stats == SumFunction([i \in DOMAIN mem.nodes |-> free_pages(mem.nodes[i])])

(* The free memory that get_stats reports, and /proc/meminfo shows, is     *)
(* never more than there is, and misses at most one page per bitmap word.  *)
StatsClose ==
    /\ get_stats <= Cardinality(FreeFrames(mem.nodes))
    /\ Cardinality(FreeFrames(mem.nodes)) <=
         get_stats + SumFunction([i \in DOMAIN mem.nodes |-> WordCount(mem.nodes[i].pages)])

(* The pages of a DMA buffer are mapped from the moment they were until    *)
(* they are freed, to frames that no other buffer and no slab uses, however *)
(* the calls of two clients alternate.                                     *)
BufferPages(b) == {DmaPages[i] : i \in b.first + (b.pages - b.done) .. b.first + b.pages - 1}
MappedPart(b) ==
    IF b.state = "mapping" THEN {DmaPages[i] : i \in b.first .. b.first + b.done - 1}
    ELSE IF b.state = "freeing" THEN BufferPages(b) ELSE {}
BuffersApart ==
    \A c \in Clients :
        /\ \A v \in MappedPart(buffer[c]) : mem.mapped[v] # None
        /\ \A d \in Clients \ {c} : MappedPart(buffer[c]) \cap MappedPart(buffer[d]) = {}
=============================================================================
