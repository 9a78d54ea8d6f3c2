-------------------------------- MODULE Ahci --------------------------------
(***************************************************************************)
(* The disk driver: finding the drive, and transfers of any length at any  *)
(* position made of commands to a controller that moves whole sectors      *)
(* between the disk and a page of memory.                                  *)
(*                                                                         *)
(* Source: zenos-kernel/src/disk/block/ahci.rs, disk/block/mod.rs.  The    *)
(* controller is external: it executes commands in the order in which they *)
(* are issued, after any delay, and stops at an error, as a controller     *)
(* does whose ST bit is not cleared and set again.  The device lock is     *)
(* held during a transfer, so there is one at a time.                      *)
(***************************************************************************)
EXTENDS Integers, SequencesExt

CONSTANTS
    Sector,       \* bytes of a sector (512)
    SectorsPerPage,
    DiskSectors,
    Slots,        \* MAX_SLOTS (32), also the number of ports tried
    Pages,        \* the pages kalloc_dma_pages can hand out
    TIMEOUT_MAX

ASSUME DiskAssumption ==
    /\ Sector \in Nat \ {0} /\ SectorsPerPage \in Nat \ {0} /\ DiskSectors \in Nat
    /\ Slots \in Nat \ {0} /\ Pages \subseteq Nat \ {0} /\ TIMEOUT_MAX \in Nat

VARIABLES
    hba,        \* the controller of this machine: ports (implemented), drives (with a drive)
    window,     \* the driver's window of virtual pages: page -> frame, 0 if unmapped
    clb,        \* port -> the frame its CLB register holds
    ports,      \* ports not looked at yet
    device,     \* the port of the AhciBlockDevice, or NoDevice
    disk,       \* contents of the disk, byte by byte
    ci,         \* slots set in the CI register, in the order of issue
    table,      \* command table of each slot
    tfes, tfd,  \* the error bits of IS and of TFD
    stopped,    \* the controller has stopped at an error
    memory,     \* contents of the pages
    free,       \* pages kalloc_dma_pages can hand out now
    cursor,     \* AhciBlockDevice.cursor
    xfer,       \* the transfer in progress
    last,       \* history: the last transfer and its outcome
    may         \* history: the values each byte of the disk may hold

ahciVars == <<hba, window, clb, ports, device, disk, ci, table, tfes, tfd, stopped, memory, free,
              cursor, xfer, last, may>>
bootVars == <<hba, window, clb, ports, device>>
portVars == <<ci, table, tfes, tfd, stopped>>

PageBytes == Sector * SectorsPerPage
Bytes == 0 .. Sector * DiskSectors - 1
NoDevice == -1
NoPage == 0
SlotNums == 0 .. Slots - 1
Junk == -1                              \* what memory holds before it is written
Unused == [first |-> 0, bytes |-> 0, write |-> FALSE, page |-> NoPage]
NoXfer == [at |-> "idle", op |-> "none", len |-> 0, done |-> 0, val |-> 0, got |-> <<>>,
           bounce |-> NoPage, page |-> NoPage, slot |-> 0, tries |-> 0]

Smallest(S) == CHOOSE x \in S : \A y \in S : x <= y

AhciInit(controllers) ==
    /\ hba \in controllers
    /\ window = [p \in 0 .. Slots * (Slots + 1) + 1 |-> 0]
    /\ clb = [p \in SlotNums |-> 0]
    /\ ports = SlotNums
    /\ device = NoDevice
    /\ disk = [b \in Bytes |-> 0]
    /\ ci = <<>> /\ table = [s \in SlotNums |-> Unused]
    /\ tfes = FALSE /\ tfd = FALSE /\ stopped = FALSE
    /\ memory = [p \in Pages |-> [b \in 0 .. PageBytes - 1 |-> Junk]]
    /\ free = Pages
    /\ cursor = 0 /\ xfer = NoXfer
    /\ last = [op |-> "none", pos |-> 0, len |-> 0, ok |-> FALSE, val |-> 0, got |-> <<>>]
    /\ may = [b \in Bytes |-> {0}]

-----------------------------------------------------------------------------
(* init_ahcibd: the first port with a drive.                               *)

(* Pages of a port in the window: its command list, where received frames  *)
(* go, and the command tables.  One port's second page is the next one's   *)
(* first.                                                                  *)
ListPage(port) == port
FisPage(port) == port + 1
TablePage(port, slot) == 2 + port * Slots + slot

(* kalloc_page maps a new frame, but leaves a page alone that is mapped;   *)
(* the frame it returns is new either way.                                 *)
NewFrame == 1 + Max({0} \cup {window[p] : p \in DOMAIN window} \cup {clb[p] : p \in SlotNums})
Mapped(w, p, frame) == IF w[p] = 0 THEN [w EXCEPT ![p] = frame] ELSE w
TablePages(port) == {TablePage(port, s) : s \in SlotNums}

(* A port that is not implemented is passed over; one without a drive      *)
(* keeps its list but not its tables.                                      *)
InitPort ==
    LET port == Smallest(ports)
        lists == Mapped(Mapped(window, ListPage(port), NewFrame), FisPage(port), NewFrame + 1)
        all == [p \in DOMAIN window |->
                   IF p \in TablePages(port) /\ lists[p] = 0 THEN NewFrame + 2 + p ELSE lists[p]]
    IN  /\ device = NoDevice /\ ports # {}
        /\ ports' = ports \ {port}
        /\ IF port \notin hba.ports THEN UNCHANGED <<window, clb, device>>
           ELSE /\ clb' = [clb EXCEPT ![port] = NewFrame]
                /\ device' = IF port \in hba.drives THEN port ELSE NoDevice
                /\ window' = IF port \in hba.drives THEN all
                             ELSE [p \in DOMAIN all |-> IF p \in TablePages(port) THEN 0 ELSE all[p]]
        /\ UNCHANGED <<hba, disk, portVars, memory, free, cursor, xfer, last, may>>

(* disk::init is over; interrupts are off until then.                      *)
Booted == device # NoDevice \/ ports = {}

(* The driver writes the list that the controller reads.                   *)
ListShared == device # NoDevice /\ window[ListPage(device)] = clb[device]

-----------------------------------------------------------------------------
(* Transfers.  Where the current chunk is, and how much of it.             *)

At == cursor + xfer.done
Offset == At % Sector
Chunk == IF xfer.len - xfer.done < PageBytes - Offset THEN xfer.len - xfer.done
         ELSE PageBytes - Offset
Aligned == ((Offset + Chunk + Sector - 1) \div Sector) * Sector
First == At - Offset
NeverRead == FALSE                      \* mutant: a part of a sector is written as it is
NeedRead == Offset # 0 \/ Chunk # Aligned

Ends(ok) ==
    /\ xfer' = NoXfer
    /\ last' = [op |-> xfer.op, pos |-> cursor, len |-> xfer.len, ok |-> ok, val |-> xfer.val,
                got |-> xfer.got]

(* An error: the bounce buffer is freed and the cursor stays.              *)
Fails ==
    /\ Ends(FALSE)
    /\ free' = free \cup ({xfer.bounce} \ {NoPage})
    /\ UNCHANGED <<memory, cursor, may>>

(* seek, then read or write of move = [op, pos, len].  What a controller   *)
(* does with a list that is not the driver's is not modelled.              *)
Begin(move, val) ==
    /\ xfer = NoXfer /\ ListShared
    /\ cursor' = move.pos
    /\ xfer' = [NoXfer EXCEPT !.at = "chunk", !.op = move.op, !.len = move.len, !.val = val]
    /\ may' = [b \in Bytes |-> IF move.op = "write" /\ b \in move.pos .. move.pos + move.len - 1
                               THEN may[b] \cup {val} ELSE may[b]]
    /\ UNCHANGED <<bootVars, disk, portVars, memory, free, last>>

(* The top of the loop: a bounce buffer for the next chunk.  While memory  *)
(* is exhausted kalloc_dma_pages calls itself again.                       *)
NextChunk ==
    /\ xfer.at = "chunk" /\ xfer.done < xfer.len
    /\ free # {}
    /\ xfer' = [xfer EXCEPT !.bounce = Smallest(free),
                            !.at = IF xfer.op = "read" \/ NeedRead THEN "load" ELSE "store"]
    /\ free' = free \ {Smallest(free)}
    /\ UNCHANGED <<bootVars, disk, portVars, memory, cursor, last, may>>

(* The loop is over: the cursor moves only now.                            *)
Finish ==
    /\ xfer.at = "chunk" /\ xfer.done = xfer.len
    /\ Ends(TRUE)
    /\ cursor' = cursor + xfer.len
    /\ may' = [b \in Bytes |-> IF xfer.op = "write" /\ b \in cursor .. cursor + xfer.len - 1
                               THEN {xfer.val} ELSE may[b]]
    /\ UNCHANGED <<bootVars, disk, portVars, memory, free>>

(* The bounce buffer with the chunk laid over it.                          *)
Overlaid == [b \in 0 .. PageBytes - 1 |->
                IF b \in Offset .. Offset + Chunk - 1 THEN xfer.val ELSE memory[xfer.bounce][b]]

(* send_command up to the doorbell.  Every command takes a page of its own *)
(* that nobody frees.                                                      *)
SlotZero == {0}                         \* mutant: the CI register is not looked at
FreeSlots == {s \in SlotNums : ~Contains(ci, s)}
send_command ==
    LET write == xfer.at = "store"
        filled == [b \in 0 .. PageBytes - 1 |-> IF write /\ b < Aligned THEN Overlaid[b] ELSE 0]
    IN  /\ xfer.at \in {"load", "store"}
        /\ tfes' = FALSE
        /\ IF FreeSlots = {} THEN Fails /\ UNCHANGED <<ci, table>>
           ELSE \E slot \in {Smallest(FreeSlots)}, page \in {p \in free : p = Smallest(free)} :
                /\ free' = free \ {page}
                /\ memory' = [memory EXCEPT ![page] = filled,
                                            ![xfer.bounce] = IF write THEN Overlaid ELSE @]
                /\ table' = [table EXCEPT ![slot] =
                       [first |-> First, bytes |-> Aligned, write |-> write, page |-> page]]
                /\ ci' = Append(ci, slot)
                /\ xfer' = [xfer EXCEPT !.at = "wait", !.page = page, !.slot = slot, !.tries = 0]
                /\ UNCHANGED <<cursor, last, may>>
        /\ UNCHANGED <<bootVars, disk, tfd, stopped>>

(* The end of a command that succeeded: what was read goes to the bounce   *)
(* buffer.  It was the read before a write, or the last one of the chunk.  *)
Succeeds ==
    LET page == memory[xfer.page]
        wrote == table[xfer.slot].write
    IN  IF xfer.op = "write" /\ ~wrote
        THEN /\ memory' = [memory EXCEPT ![xfer.bounce] =
                    [b \in 0 .. PageBytes - 1 |-> IF b < Aligned THEN page[b] ELSE @[b]]]
             /\ xfer' = [xfer EXCEPT !.at = "store"]
             /\ UNCHANGED free
        ELSE /\ xfer' = [xfer EXCEPT !.at = "chunk", !.done = @ + Chunk, !.bounce = NoPage,
                    !.got = IF wrote THEN @ ELSE @ \o [i \in 1 .. Chunk |-> page[Offset + i - 1]]]
             /\ free' = free \cup {xfer.bounce}
             /\ UNCHANGED memory

(* wait_for_completion, one round: the slot is done, or failed, or the     *)
(* process halts until the next interrupt; at last it gives up, without    *)
(* another look.  Whatever the outcome, the task file's error bit makes it *)
(* an error and is acknowledged.                                           *)
GivesUp(tries) == tries = TIMEOUT_MAX
wait_for_completion ==
    /\ xfer.at = "wait"
    /\ CASE GivesUp(xfer.tries) -> Fails /\ tfes' = (tfes /\ ~tfd)
         [] ~GivesUp(xfer.tries) /\ ~Contains(ci, xfer.slot) ->
              IF tfd THEN Fails /\ tfes' = FALSE
              ELSE Succeeds /\ UNCHANGED <<tfes, cursor, last, may>>
         [] ~GivesUp(xfer.tries) /\ Contains(ci, xfer.slot) ->
              IF tfes THEN Fails /\ tfes' = FALSE
              ELSE /\ xfer' = [xfer EXCEPT !.at = "hlt", !.tries = @ + 1]
                   /\ UNCHANGED <<tfes, memory, free, cursor, last, may>>
    /\ UNCHANGED <<bootVars, disk, ci, table, tfd, stopped>>

(* An interrupt ends the hlt.                                              *)
Awake == IF xfer.at = "hlt" THEN xfer' = [xfer EXCEPT !.at = "wait"] ELSE UNCHANGED xfer

-----------------------------------------------------------------------------
(* The controller (external).  The first sectors of a write may reach the  *)
(* disk even if it fails.                                                  *)

Written(cmd, n) == [b \in Bytes |-> IF b \in cmd.first .. cmd.first + n - 1
                                    THEN memory[cmd.page][b - cmd.first] ELSE disk[b]]
HbaCompletes ==
    /\ ci # <<>> /\ ~stopped
    /\ LET cmd == table[Head(ci)]
       IN  /\ disk' = IF cmd.write THEN Written(cmd, cmd.bytes) ELSE disk
           /\ memory' = IF cmd.write THEN memory
                        ELSE [memory EXCEPT ![cmd.page] = [b \in 0 .. PageBytes - 1 |->
                                 IF b < cmd.bytes THEN disk[cmd.first + b] ELSE @[b]]]
    /\ ci' = Tail(ci)
    /\ tfd' = FALSE
    /\ UNCHANGED <<bootVars, table, tfes, stopped, free, cursor, xfer, last, may>>

HbaFails ==
    /\ ci # <<>> /\ ~stopped
    /\ \E n \in 0 .. SectorsPerPage :
          LET cmd == table[Head(ci)]
          IN  /\ n * Sector <= cmd.bytes
              /\ disk' = IF cmd.write THEN Written(cmd, n * Sector) ELSE disk
    /\ tfes' = TRUE /\ tfd' = TRUE /\ stopped' = TRUE
    /\ UNCHANGED <<bootVars, ci, table, memory, free, cursor, xfer, last, may>>

-----------------------------------------------------------------------------
(* Properties.                                                             *)

(* A transfer does what it says, whatever commands before it failed, timed *)
(* out or are still to come: no byte of the disk ever holds a value other  *)
(* than those of writes to it (the last one that succeeded, and the failed *)
(* ones since), and a read that succeeds returned what the disk holds.     *)
TransferExact ==
    /\ \A b \in Bytes : disk[b] \in may[b]
    /\ last.op = "read" /\ last.ok /\ xfer = NoXfer =>
         last.got = [i \in 1 .. last.len |-> disk[last.pos + i - 1]]

(* What the controller reads is what the driver wrote, until the command   *)
(* is over: an answer that comes after the timeout finds its own command   *)
(* table and a page nobody else was given.  The command list is shared as  *)
(* well, unless the port before the drive's is implemented.                *)
ControllerMemory ==
    /\ IsInjective(ci)
    /\ \A s \in ToSet(ci) : table[s].page \notin free \cup {xfer.bounce}
    /\ device # NoDevice /\ device - 1 \notin hba.ports => ListShared
=============================================================================
