----------------------------- MODULE CowMemory -----------------------------
(***************************************************************************)
(* User address spaces and copy-on-write sharing between them.             *)
(*                                                                         *)
(* Sources: zenos-kernel/src/process/isolation.rs, process/mod.rs          *)
(* (fork_from, exec_replace, internal_load), syscall/{fork,wait,exec}.rs,  *)
(* process/scheduler/mod.rs (reaping), interrupts/mod.rs (page faults).    *)
(*                                                                         *)
(* A page table is abstracted to its user leaf entries.  Frames are those  *)
(* that hold user pages; the frames of the tables themselves are not       *)
(* counted, which is why a clone may run out of memory at any page.        *)
(*                                                                         *)
(* clone_address_space runs inside a system call with interrupts enabled:  *)
(* it is modelled page by page, so that other processes run in between.    *)
(* The page fault handler runs with interrupts disabled, teardown under    *)
(* the PROCESSES lock: each is one action.  All system calls share one     *)
(* stack, so no other system call completes while a clone is in progress.  *)
(***************************************************************************)
EXTENDS Naturals, FiniteSets

CONSTANTS
    Spaces,     \* identities of address spaces (cr3 values)
    NoSpace,    \* no clone in progress
    NPages,     \* pages of an address space, cloned in this order
    Frames,     \* physical frames for user pages
    Values,     \* what a page may contain
    Zero,       \* what a page of a freshly loaded image contains
    Refork      \* may a process fork while it holds copy-on-write pages?

ASSUME NoSpaceAssumption == NoSpace \notin Spaces
ASSUME NPagesAssumption == NPages \in Nat
ASSUME ZeroAssumption == Zero \in Values
ASSUME ReforkAssumption == Refork \in BOOLEAN

VARIABLES
    pte,        \* leaf entries of every address space that exists
    refcount,   \* PAGE_REFCOUNTS; 0 stands for a frame that is not a key
    free,       \* frames the page allocator can hand out
    data,       \* contents of the frames
    active,     \* the address space in CR3
    cloning,    \* the space a clone_address_space in progress works on
    next,       \* the page it comes to next
    seen,       \* history: what each process last wrote or inherited
    leaky       \* history: entries were dropped without teardown

vars == <<pte, refcount, free, data, active, cloning, next, seen, leaky>>

Pages == 1 .. NPages
Entries == [frame : Frames, writable : BOOLEAN, cow : BOOLEAN]
Live == DOMAIN pte

(* Frames for the pages of a new image, one each.                          *)
Placements(fs) ==
    {g \in [Pages -> fs] : \A v, w \in Pages : g[v] = g[w] => v = w}

(* ualloc_page_flags as internal_load calls it: every page of an image is  *)
(* mapped writable, text included.                                         *)
LoadedPage(f) == [frame |-> f, writable |-> TRUE, cow |-> FALSE]

(* Only init's address space exists.                                       *)
Init ==
    /\ active \in Spaces
    /\ \E g \in Placements(Frames) :
         /\ pte = [s \in {active} |-> [v \in Pages |-> LoadedPage(g[v])]]
         /\ free = Frames \ {g[v] : v \in Pages}
    /\ refcount = [f \in Frames |-> 0]
    /\ data = [f \in Frames |-> Zero]
    /\ cloning = NoSpace
    /\ next = 1
    /\ seen = [s \in {active} |-> [v \in Pages |-> Zero]]
    /\ leaky = FALSE

-----------------------------------------------------------------------------
(* PAGE_REFCOUNTS.                                                         *)

StartAtOne(n) == n + 1                  \* mutant: the parent is not counted
refcount_inc(n) == IF n = 0 THEN 2 ELSE n + 1

(* The key is removed when the count was 1: "this was the last reference". *)
NeverDecreased(n) == n                  \* mutant: the count is only read
refcount_dec(n) == IF n = 0 THEN 0 ELSE n - 1
WasLastButOne(n) == n \in 1 .. 2         \* mutant: off by one
WasLast(n) == n = 1

(* refcount_get gives 1: the frame is no key, or its count is 1.           *)
SoleOwner(n) == n <= 1

-----------------------------------------------------------------------------
(* fork.                                                                   *)

(* The process that clones its space does not run user code meanwhile.     *)
RunsUserCode == active # cloning

CloneStart ==
    /\ cloning = NoSpace
    /\ Spaces # Live
    /\ Refork \/ \A v \in Pages : ~pte[active][v].cow
    /\ cloning' = active
    /\ UNCHANGED <<pte, refcount, free, data, active, next, seen, leaky>>

(* cow_clone_table at a leaf: a writable page becomes read-only and        *)
(* copy-on-write in both tables and is counted.  A page that is read-only  *)
(* already, a copy-on-write one included, is shared as it is.              *)
SharedChildOnly(e) == e                 \* mutant: the parent's entry is kept
Shared(e) == IF e.writable THEN [e EXCEPT !.writable = FALSE, !.cow = TRUE] ELSE e

ClonePage ==
    /\ cloning = active
    /\ next \in Pages
    /\ LET e == pte[active][next]
       IN  /\ pte' = [pte EXCEPT ![active] = [@ EXCEPT ![next] = Shared(e)]]
           /\ refcount' = IF e.writable
                          THEN [refcount EXCEPT ![e.frame] = refcount_inc(@)]
                          ELSE refcount
    /\ next' = next + 1
    /\ UNCHANGED <<free, data, active, cloning, seen, leaky>>

(* The child's entries are those the parent now has.                       *)
CloneDone ==
    /\ cloning = active
    /\ next = NPages + 1
    /\ \E c \in Spaces \ Live :
         /\ pte' = [s \in Live \cup {c} |-> IF s = c THEN pte[active] ELSE pte[s]]
         /\ seen' = [s \in Live \cup {c} |-> IF s = c THEN seen[active] ELSE seen[s]]
    /\ cloning' = NoSpace
    /\ next' = 1
    /\ UNCHANGED <<refcount, free, data, active, leaky>>

(* A page table cannot be allocated, or the process table is full after    *)
(* the clone: fork fails and nothing that was done is undone.              *)
CloneFails ==
    /\ cloning = active
    /\ cloning' = NoSpace
    /\ next' = 1
    /\ leaky' = (leaky \/ next > 1)
    /\ UNCHANGED <<pte, refcount, free, data, active, seen>>

-----------------------------------------------------------------------------
(* Memory accesses.                                                        *)

(* A store the page table allows.                                          *)
Store ==
    /\ RunsUserCode
    /\ \E v \in Pages, x \in Values :
         /\ pte[active][v].writable
         /\ data' = [data EXCEPT ![pte[active][v].frame] = x]
         /\ seen' = [seen EXCEPT ![active] = [@ EXCEPT ![v] = x]]
    /\ UNCHANGED <<pte, refcount, free, active, cloning, next, leaky>>

(* handle_cow_fault: the sole owner gets its page back; anyone else gets a *)
(* copy.  Without a free frame the fault is not handled (and the process   *)
(* is ended), which changes nothing here.                                  *)
CowFault ==
    /\ RunsUserCode
    /\ \E v \in Pages :
         LET e == pte[active][v]
         IN  /\ e.cow
             /\ IF SoleOwner(refcount[e.frame])
                THEN /\ pte' = [pte EXCEPT ![active] =
                                  [@ EXCEPT ![v] = LoadedPage(e.frame)]]
                     /\ UNCHANGED <<refcount, free, data>>
                ELSE \E f \in free :
                     /\ pte' = [pte EXCEPT ![active] =
                                  [@ EXCEPT ![v] = LoadedPage(f)]]
                     /\ data' = [data EXCEPT ![f] = data[e.frame]]
                     /\ free' = free \ {f}
                     /\ refcount' = [refcount EXCEPT ![e.frame] = refcount_dec(@)]
    /\ UNCHANGED <<active, cloning, next, seen, leaky>>

(* A tick runs a process with another address space.                       *)
Switch ==
    /\ active' \in Live \ {active}
    /\ UNCHANGED <<pte, refcount, free, data, cloning, next, seen, leaky>>

-----------------------------------------------------------------------------
(* The end of an address space.                                            *)

CowFrames(s) == {pte[s][v].frame : v \in {w \in Pages : pte[s][w].cow}}
OwnFrames(s) == {pte[s][v].frame : v \in {w \in Pages : ~pte[s][w].cow}}

Without(f, s) == [t \in DOMAIN f \ {s} |-> f[t]]

(* waitpid reaps an ended process with teardown_address_space.             *)
Teardown ==
    /\ cloning = NoSpace
    /\ \E s \in Live \ {active} :
         /\ free' = free \cup OwnFrames(s)
                         \cup {f \in CowFrames(s) : WasLast(refcount[f])}
         /\ refcount' = [f \in Frames |-> IF f \in CowFrames(s)
                                          THEN refcount_dec(refcount[f])
                                          ELSE refcount[f]]
         /\ pte' = Without(pte, s)
         /\ seen' = Without(seen, s)
    /\ UNCHANGED <<data, active, cloning, next, leaky>>

(* The scheduler reaps for a waiter without any teardown.                  *)
ReapWithoutTeardown ==
    /\ \E s \in Live \ {active, cloning} :
         /\ pte' = Without(pte, s)
         /\ seen' = Without(seen, s)
    /\ leaky' = TRUE
    /\ UNCHANGED <<refcount, free, data, active, cloning, next>>

(* execve: a new space is loaded; the old one is neither torn down nor     *)
(* counted down.                                                           *)
Exec ==
    /\ cloning = NoSpace
    /\ \E g \in Placements(free) :
         /\ pte' = [pte EXCEPT ![active] = [v \in Pages |-> LoadedPage(g[v])]]
         /\ free' = free \ {g[v] : v \in Pages}
         /\ data' = [f \in Frames |-> IF \E v \in Pages : g[v] = f
                                      THEN Zero ELSE data[f]]
    /\ seen' = [seen EXCEPT ![active] = [v \in Pages |-> Zero]]
    /\ leaky' = TRUE
    /\ UNCHANGED <<refcount, active, cloning, next>>

Next ==
    \/ CloneStart \/ ClonePage \/ CloneDone \/ CloneFails
    \/ Store \/ CowFault \/ Switch
    \/ Teardown \/ ReapWithoutTeardown \/ Exec

Spec == Init /\ [][Next]_vars

-----------------------------------------------------------------------------
(* Properties.                                                             *)

Mapped(f) == {m \in Live \X Pages : pte[m[1]][m[2]].frame = f}

TypeOK ==
    /\ Live \subseteq Spaces
    /\ pte \in [Live -> [Pages -> Entries]]
    /\ refcount \in [Frames -> Nat]
    /\ free \subseteq Frames
    /\ data \in [Frames -> Values]
    /\ active \in Live
    /\ cloning \in Live \cup {NoSpace}
    /\ next \in 1 .. NPages + 1
    /\ seen \in [Live -> [Pages -> Values]]
    /\ leaky \in BOOLEAN

(* A process reads in every page what it wrote there itself, or what its   *)
(* parent had there when it was forked: no other process's stores, faults, *)
(* forks or teardown ever show through a shared frame.                     *)
Isolation ==
    \A s \in Live, v \in Pages : data[pte[s][v].frame] = seen[s][v]

(* A frame that a page table maps is never handed out again, though other  *)
(* processes that shared it have copied it, ended and been torn down.      *)
MappedNotFree ==
    \A s \in Live, v \in Pages : pte[s][v].frame \notin free

(* A frame has no more users than its count says: only then may a fault    *)
(* with count 1 make it writable and a teardown with count 1 free it.      *)
CountCoversUsers ==
    \A f \in Frames : Cardinality(Mapped(f)) <= (IF refcount[f] = 0 THEN 1
                                                 ELSE refcount[f])

(* With every ended process reaped by waitpid, no exec and no failed fork, *)
(* no frame is lost: the last sharer's teardown frees it.                  *)
NothingLost ==
    ~leaky => \A f \in Frames : f \in free \/ Mapped(f) # {}
=============================================================================
