----------------------------- MODULE FrameLife -----------------------------
(***************************************************************************)
(* What the memory code promises about a physical frame: at any moment it  *)
(* has one owner, and it changes hands only along a few edges.  A step may  *)
(* move several frames, each along its own edge.  PageAllocator implements *)
(* this with bitmaps, page tables and the addresses callers keep.          *)
(***************************************************************************)
CONSTANT Frames

VARIABLE owner

(* free: the allocator may hand it out.  mapped: behind a kernel virtual   *)
(* page.  table: a page table of the kernel half.  held: a caller keeps    *)
(* its physical address.  pinned: taken at a given address for good.       *)
(* lost: taken, and nothing refers to it any more.  reserved: never given  *)
(* to the allocator.                                                       *)
Owners == {"free", "mapped", "table", "held", "pinned", "lost", "reserved"}

Edges ==
    {"free"} \X {"mapped", "table", "held", "pinned", "lost"}
        \cup {"mapped", "held"} \X {"free"}

Init == owner = [f \in Frames |-> "reserved"]

(* The kernel takes over the frames the boot loader reports as usable.     *)
Open ==
    /\ \A f \in Frames : owner[f] = "reserved"
    /\ owner' \in [Frames -> {"free", "reserved"}]

Move(from, to) == to \in Owners /\ (to = from \/ <<from, to>> \in Edges)

Trade ==
    \E new \in {owner'}, old \in {owner} :
        /\ new \in [Frames -> Owners]
        /\ \A f \in Frames : Move(old[f], new[f])

Next == Open \/ Trade

Spec == Init /\ [][Next]_owner
=============================================================================
