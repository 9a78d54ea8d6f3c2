------------------------------ MODULE MCMemory ------------------------------
(* Memory on machines of a few frames, with bitmap words of two bits and   *)
(* huge pages of two words.                                                *)
EXTENDS Memory, TLC

D(s, n, t) == [start |-> s, pages |-> n, ty |-> t]
Slice(s, e) == [start |-> s, end |-> e]

MCFrames == 0 .. 8
LoaderInTheMiddle ==
    [map |-> <<D(0, 4, "conventional"), D(4, 5, "loader")>>,
     kernel |-> Slice(5, 6), ramdisk |-> {Slice(7, 8)}]
NoRamdisk ==
    [map |-> <<D(0, 1, "reserved"), D(1, 1, "conventional"), D(2, 2, "boot"),
               D(4, 5, "conventional")>>,
     kernel |-> Slice(2, 3), ramdisk |-> {}]
Small ==
    [map |-> <<D(0, 1, "reserved"), D(1, 1, "conventional"), D(2, 4, "loader")>>,
     kernel |-> Slice(2, 3), ramdisk |-> {}]
MCMachines == {LoaderInTheMiddle, NoRamdisk, Small}

(* Only on the smallest machine are two of them busy at once.             *)
MCLoads == [m \in MCMachines |->
    {{"pages"}, {"heap"}, {"dma"}}
        \cup IF m = Small THEN {{"heap", "dma"}, {"pages", "heap"}, {"pages", "dma"}} ELSE {}]

MCVPages == {"slab1", "slab2", "dma1", "dma2", "dma3", "scratch0", "stack"}
MCAreas == {"general", "scratch"}
MCAreaOf == [v \in MCVPages |-> IF v = "scratch0" THEN "scratch" ELSE "general"]
MCScratch == [i \in {0} |-> "scratch0"]
MCDmaPages == <<"dma1", "dma2", "dma3">>
MCPagesOf == <<<<"slab1">>, <<"slab2">>>>
MCSymmetry == Permutations(Clients)
MCSizeClasses == <<8, 16>>
MCBlocksPerSlab == <<2, 2>>
MCLayouts == {[size |-> 8, align |-> 8], [size |-> 16, align |-> 8]}
=============================================================================
