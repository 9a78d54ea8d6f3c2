----------------------------- MODULE AhciProofs -----------------------------
(***************************************************************************)
(* The disk driver and its controller, for every geometry of disk and      *)
(* pages, every number of command slots and pages and every sequence of    *)
(* transfers: what is read and written is right, and the controller finds  *)
(* what it was given, whatever fails or comes late.                        *)
(***************************************************************************)
EXTENDS Ahci, TLAPS, NaturalsInduction, WellFoundedInduction

Commands == [first : Nat, bytes : 0 .. PageBytes, write : BOOLEAN, page : Pages \cup {NoPage}]
Places == {"idle", "chunk", "load", "store", "wait", "hlt"}

IsXfer(x) ==
    /\ x = [at |-> x.at, op |-> x.op, len |-> x.len, done |-> x.done, val |-> x.val, got |-> x.got,
            bounce |-> x.bounce, page |-> x.page, slot |-> x.slot, tries |-> x.tries]
    /\ x.at \in Places /\ x.len \in Nat /\ x.done \in Nat /\ x.tries \in Nat

AhciTyped ==
    /\ ci \in Seq(SlotNums) /\ table \in [SlotNums -> Commands]
    /\ DOMAIN memory = Pages /\ free \subseteq Pages
    /\ cursor \in Nat /\ last.len \in Nat /\ IsXfer(xfer)

Waiting == xfer.at \in {"wait", "hlt"}
Busy == xfer.at \in {"load", "store", "wait", "hlt"}
Own == table[xfer.slot]

(* Commands that the controller has not executed yet are in slots and      *)
(* pages of their own.                                                     *)
Queue ==
    /\ \A i, j \in 1 .. Len(ci) : i # j => ci[i] # ci[j] /\ table[ci[i]].page # table[ci[j]].page
    /\ \A i \in 1 .. Len(ci) : /\ table[ci[i]].page \in Pages \ free
                               /\ table[ci[i]].page # xfer.bounce

(* How far the transfer is, and what it holds.                             *)
Progress ==
    /\ xfer.at = "idle" => xfer = NoXfer
    /\ xfer.at # "idle" => /\ xfer.op \in {"read", "write"} /\ xfer.done <= xfer.len
                           /\ cursor + xfer.len <= Sector * DiskSectors
    /\ ~Busy => xfer.bounce = NoPage
    /\ Busy => xfer.bounce \in Pages \ free /\ xfer.done < xfer.len
    /\ xfer.at = "store" => xfer.op = "write"
    /\ Waiting => /\ xfer.slot \in SlotNums /\ xfer.page \in Pages \ free /\ xfer.page # xfer.bounce
                  /\ Own.first = First /\ Own.bytes = Aligned /\ Own.page = xfer.page
                  /\ xfer.op = "read" => ~Own.write
                  /\ ci # <<>> => ci[Len(ci)] = xfer.slot

(* The transfer has been answered, so the controller is done with all that *)
(* came before.                                                            *)
Answered ==
    \/ xfer.done > 0
    \/ xfer.op = "write" /\ NeedRead /\ (xfer.at = "store" \/ (Waiting /\ Own.write))
    \/ xfer.at = "idle" /\ last.op = "read" /\ last.ok /\ last.len > 0

Alone == Answered => Len(ci) = 0 \/ (Waiting /\ Len(ci) = 1)

(* A page holds what the disk holds at the current chunk.                  *)
Matches(page) == \A b \in 0 .. Aligned - 1 : First + b \in Bytes => memory[page][b] = disk[First + b]
InChunk(b) == At <= b /\ b < At + Chunk

(* The write to come changes the chunk and nothing around it.              *)
Overwrites ==
    \A b \in Bytes : First <= b /\ b < First + Aligned =>
        memory[xfer.page][b - First] = IF InChunk(b) THEN xfer.val ELSE disk[b]

(* What memory and disk hold: of the commands still to come, and of the    *)
(* current transfer and its last command.                                  *)
DiskKnown == \A b \in Bytes : disk[b] \in may[b]
QueueKnown ==
    \A i \in 1 .. Len(ci) : \A b \in Bytes :
        LET cmd == table[ci[i]]
        IN  cmd.write /\ cmd.first <= b /\ b < cmd.first + cmd.bytes =>
                memory[cmd.page][b - cmd.first] \in may[b]
Transferred ==
    /\ xfer.op = "write" => \A b \in Bytes : cursor <= b /\ b < cursor + xfer.len =>
           xfer.val \in may[b] /\ (b < cursor + xfer.done => disk[b] = xfer.val)
    /\ xfer.op = "read" => xfer.got = [i \in 1 .. xfer.done |-> disk[cursor + i - 1]]
Outcome ==
    /\ xfer.at = "store" /\ NeedRead => Matches(xfer.bounce)
    /\ Waiting /\ ~Own.write /\ ci = <<>> => Matches(xfer.page)
    /\ Waiting /\ Own.write /\ ci # <<>> => Overwrites
    /\ Waiting /\ Own.write /\ ci = <<>> => \A b \in Bytes : InChunk(b) => disk[b] = xfer.val
LastRead ==
    xfer.at = "idle" /\ last.op = "read" /\ last.ok =>
        last.got = [i \in 1 .. last.len |-> disk[last.pos + i - 1]]

(* The list page of a port not looked at yet is unmapped, but for the page *)
(* that the port before it uses, too; and the driver found its list there. *)
ListsFree ==
    /\ ports \subseteq SlotNums /\ DOMAIN window = 0 .. Slots * (Slots + 1) + 1 /\ DOMAIN clb = SlotNums
    /\ IF device = NoDevice
       THEN \A p \in ports : p - 1 \in hba.ports \/ window[p] = 0
       ELSE device - 1 \notin hba.ports => window[device] = clb[device]

(* The inductive invariant.                                                *)
DriverInv == Queue /\ Progress /\ Alone
DataInv == DiskKnown /\ QueueKnown /\ Transferred /\ Outcome /\ LastRead
AInv == AhciTyped /\ DriverInv /\ DataInv /\ ListsFree

-----------------------------------------------------------------------------
(* Arithmetic of chunks.                                                   *)

LEMMA RoundUp ==
    ASSUME NEW k \in Nat \ {0}, NEW m \in Nat \ {0}, NEW x \in Nat, x <= k * m
    PROVE  /\ ((x + k - 1) \div k) * k \in Nat
           /\ x <= ((x + k - 1) \div k) * k
           /\ ((x + k - 1) \div k) * k <= k * m
  OBVIOUS

LEMMA ChunkFits ==
    ASSUME cursor \in Nat, IsXfer(xfer), xfer.done < xfer.len
    PROVE  /\ At \in Nat /\ Offset \in Nat /\ First \in Nat /\ At = First + Offset
           /\ Chunk \in Nat /\ Chunk > 0 /\ xfer.done + Chunk <= xfer.len
           /\ Aligned \in Nat /\ Offset + Chunk <= Aligned /\ Aligned <= PageBytes
           /\ ~NeedRead => Offset = 0 /\ Chunk = Aligned
<1>1. At \in Nat
  BY DEF At, IsXfer
<1>2. Offset \in Nat /\ Offset < Sector /\ Offset <= At
  BY <1>1, DiskAssumption DEF Offset
<1>3. First \in Nat /\ At = First + Offset
  BY <1>1, <1>2 DEF First
<1>4. PageBytes \in Nat /\ Sector <= PageBytes
  BY DiskAssumption DEF PageBytes
<1>5. Chunk \in Nat /\ Chunk > 0 /\ xfer.done + Chunk <= xfer.len /\ Offset + Chunk <= PageBytes
  BY <1>2, <1>4, DiskAssumption DEF Chunk, IsXfer
<1>6. Aligned \in Nat /\ Offset + Chunk <= Aligned /\ Aligned <= PageBytes
  <2> DEFINE x == Offset + Chunk
  <2>1. x \in Nat /\ x <= Sector * SectorsPerPage
    BY <1>2, <1>5 DEF PageBytes
  <2>2. Aligned = ((x + Sector - 1) \div Sector) * Sector
    BY DEF Aligned
  <2> HIDE DEF x
  <2>3. /\ ((x + Sector - 1) \div Sector) * Sector \in Nat
        /\ x <= ((x + Sector - 1) \div Sector) * Sector
        /\ ((x + Sector - 1) \div Sector) * Sector <= Sector * SectorsPerPage
    BY <2>1, DiskAssumption, RoundUp
  <2>4. Aligned \in Nat /\ x <= Aligned /\ Aligned <= PageBytes
    BY <2>2, <2>3 DEF PageBytes
  <2> QED
    BY <2>4 DEF x
<1> QED
  BY <1>1, <1>2, <1>3, <1>5, <1>6 DEF NeedRead

(* The chunk depends on the cursor and on what has been transferred only.  *)
LEMMA SameChunk ==
    ASSUME cursor' = cursor, xfer'.done = xfer.done, xfer'.len = xfer.len
    PROVE  /\ At' = At /\ Offset' = Offset /\ First' = First /\ Chunk' = Chunk
           /\ Aligned' = Aligned /\ NeedRead' = NeedRead
           /\ \A b : InChunk(b)' <=> InChunk(b)
  BY DEF At, Offset, First, Chunk, Aligned, NeedRead, InChunk

LEMMA Joined ==
    ASSUME NEW m \in Nat, NEW n \in Nat, NEW f, NEW g
    PROVE  [i \in 1 .. m |-> f[i]] \o [i \in 1 .. n |-> g[i]]
             = [i \in 1 .. m + n |-> IF i <= m THEN f[i] ELSE g[i - m]]
<1> DEFINE S == {f[i] : i \in 1 .. m} \cup {g[i] : i \in 1 .. n}
           s == [i \in 1 .. m |-> f[i]]
           t == [i \in 1 .. n |-> g[i]]
<1>1. s \in Seq(S) /\ Len(s) = m
  OBVIOUS
<1>2. t \in Seq(S) /\ Len(t) = n
  OBVIOUS
<1> QED
  BY <1>1, <1>2

LEMMA SmallestIn ==
    ASSUME NEW S, S \subseteq Nat, S # {}
    PROVE  Smallest(S) \in S /\ \A y \in S : Smallest(S) <= y
<1>1. \A x, y \in Nat : x < y => <<x, y>> \in OpToRel(<, Nat)
  BY DEF OpToRel
<1>2. \E x \in S : \A y \in S : ~(<<y, x>> \in OpToRel(<, Nat))
  BY NatLessThanWellFounded, WFMin, Zenon
<1>3. \E R : /\ \A x, y \in Nat : x < y => <<x, y>> \in R
             /\ \E x \in S : \A y \in S : ~(<<y, x>> \in R)
  BY <1>1, <1>2, Zenon
<1>4. PICK R : /\ \A x, y \in Nat : x < y => <<x, y>> \in R
               /\ \E x \in S : \A y \in S : ~(<<y, x>> \in R)
  BY <1>3
<1>5. PICK x \in S : \A y \in S : ~(<<y, x>> \in R)
  BY <1>4
<1>6. \A y \in S : x <= y
  <2> TAKE y \in S
  <2>1. x \in Nat /\ y \in Nat
    OBVIOUS
  <2>2. ~(y < x)
    BY <1>4, <1>5, <2>1, Zenon
  <2> QED
    BY <2>1, <2>2
<1> QED
  BY <1>6, Zenon DEF Smallest

-----------------------------------------------------------------------------
(* The start.                                                              *)

(* The start.                                                              *)

LEMMA DriverStarts == ASSUME NEW controllers, AhciInit(controllers) PROVE AInv
<1> USE DiskAssumption
<1>1. /\ ci = <<>> /\ table = [s \in SlotNums |-> Unused]
      /\ memory = [p \in Pages |-> [b \in 0 .. PageBytes - 1 |-> Junk]] /\ free = Pages
      /\ cursor = 0 /\ xfer = NoXfer /\ last.len = 0 /\ last.op = "none"
      /\ disk = [b \in Bytes |-> 0] /\ may = [b \in Bytes |-> {0}]
  BY DEF AhciInit
<1>2. /\ xfer.at = "idle" /\ xfer.op = "none" /\ xfer.done = 0 /\ xfer.bounce = NoPage
      /\ IsXfer(xfer) /\ ~Busy /\ ~Waiting
  BY <1>1 DEF NoXfer, IsXfer, Places, Busy, Waiting
<1>3. AhciTyped
  <2>1. Unused \in Commands
    BY DEF Unused, Commands, PageBytes
  <2> QED
    BY <1>1, <1>2, <2>1 DEF AhciTyped
<1>4. DriverInv
  BY <1>1, <1>2 DEF DriverInv, Queue, Progress, Alone, Answered
<1>5. DataInv
  BY <1>1, <1>2 DEF DataInv, DiskKnown, QueueKnown, Transferred, Outcome, LastRead
<1>6. ListsFree
  <2>1. /\ ports = SlotNums /\ window = [p \in 0 .. Slots * (Slots + 1) + 1 |-> 0]
        /\ clb = [p \in SlotNums |-> 0] /\ device = NoDevice
    BY DEF AhciInit
  <2>2. \A p \in SlotNums : p \in 0 .. Slots * (Slots + 1) + 1
    <3>1. Slots \in Nat /\ Slots * (Slots + 1) \in Nat /\ Slots <= Slots * (Slots + 1) + 1
      OBVIOUS
    <3> QED
      BY <3>1 DEF SlotNums
  <2> QED
    BY <2>1, <2>2 DEF ListsFree
<1> QED
  BY <1>3, <1>4, <1>5, <1>6 DEF AInv

-----------------------------------------------------------------------------
(* The steps of a transfer.                                                *)

Core == AhciTyped /\ DriverInv /\ DataInv
coreVars == <<disk, ci, table, memory, free, cursor, xfer, last, may>>

LEMMA CoreUntouched == ASSUME Core, UNCHANGED coreVars PROVE Core'
<1> USE DEF coreVars
<1>1. AhciTyped'
  BY DEF Core, AhciTyped
<1>2. /\ Waiting' = Waiting /\ Busy' = Busy /\ Own' = Own
      /\ At' = At /\ Offset' = Offset /\ First' = First /\ Chunk' = Chunk
      /\ Aligned' = Aligned /\ NeedRead' = NeedRead /\ \A b : InChunk(b)' <=> InChunk(b)
  BY SameChunk DEF Waiting, Busy, Own
<1>3. DriverInv'
  BY <1>2 DEF Core, DriverInv, Queue, Progress, Alone, Answered
<1>4. DataInv'
  BY <1>2 DEF Core, DataInv, DiskKnown, QueueKnown, Transferred, Outcome, LastRead, Matches, Overwrites
<1> QED
  BY <1>1, <1>3, <1>4 DEF Core

LEMMA BeginKeeps ==
    ASSUME Core, NEW move, NEW val, Begin(move, val),
           move.op \in {"read", "write"} /\ move.pos \in Nat /\ move.len \in Nat,
           move.pos + move.len <= Sector * DiskSectors
    PROVE  Core'
<1>1. /\ move.op \in {"read", "write"} /\ move.pos \in Nat /\ move.len \in Nat
      /\ move.pos + move.len <= Sector * DiskSectors
  OBVIOUS
<1>2. /\ xfer = NoXfer /\ cursor' = move.pos
      /\ UNCHANGED <<disk, ci, table, memory, free, last>>
      /\ xfer' = [NoXfer EXCEPT !.at = "chunk", !.op = move.op, !.len = move.len, !.val = val]
      /\ may' = [b \in Bytes |-> IF move.op = "write" /\ b \in move.pos .. move.pos + move.len - 1
                                 THEN may[b] \cup {val} ELSE may[b]]
  BY DEF Begin, portVars
<1>3. /\ IsXfer(xfer') /\ xfer'.at = "chunk" /\ xfer'.op = move.op /\ xfer'.len = move.len
      /\ xfer'.done = 0 /\ xfer'.val = val /\ xfer'.got = <<>> /\ xfer'.bounce = NoPage
  BY <1>1, <1>2, Zenon DEF NoXfer, IsXfer, Places
<1>4. xfer.bounce = NoPage
  BY <1>2 DEF NoXfer
<1>5. AhciTyped'
  BY <1>1, <1>2, <1>3 DEF Core, AhciTyped
<1>6. ~Waiting' /\ ~Busy' /\ ~Answered'
  BY <1>3 DEF Waiting, Busy, Answered
<1>7. DriverInv'
  BY <1>1, <1>2, <1>3, <1>4, <1>6 DEF Core, DriverInv, Queue, Progress, Alone
<1>8. DiskKnown' /\ QueueKnown'
  BY <1>2 DEF Core, DataInv, DiskKnown, QueueKnown
<1>9. Transferred'
  BY <1>1, <1>2, <1>3 DEF Transferred, Bytes
<1>10. Outcome' /\ LastRead'
  BY <1>3, <1>6 DEF Outcome, LastRead
<1> QED
  BY <1>5, <1>7, <1>8, <1>9, <1>10 DEF Core, DataInv

LEMMA NextChunkKeeps == ASSUME Core, NextChunk PROVE Core'
<1>1. /\ xfer.at = "chunk" /\ xfer.done < xfer.len /\ free # {}
      /\ xfer' = [xfer EXCEPT !.bounce = Smallest(free),
                              !.at = IF xfer.op = "read" \/ NeedRead THEN "load" ELSE "store"]
      /\ free' = free \ {Smallest(free)}
      /\ UNCHANGED <<disk, ci, table, memory, cursor, last, may>>
  BY DEF NextChunk, portVars
<1>2. AhciTyped /\ Queue /\ Progress /\ Alone /\ DataInv
  BY DEF Core, DriverInv
<1> DEFINE p == Smallest(free)
<1>3. p \in free /\ p \in Pages
  BY <1>1, <1>2, SmallestIn, DiskAssumption DEF AhciTyped
<1> HIDE DEF p
<1>4. /\ IsXfer(xfer') /\ xfer'.at = (IF xfer.op = "read" \/ NeedRead THEN "load" ELSE "store")
      /\ xfer'.op = xfer.op /\ xfer'.len = xfer.len /\ xfer'.done = xfer.done
      /\ xfer'.val = xfer.val /\ xfer'.got = xfer.got /\ xfer'.bounce = p
  BY <1>1, <1>2, Zenon DEF AhciTyped, IsXfer, Places, p
<1>5. free' = free \ {p}
  BY <1>1 DEF p
<1>6. AhciTyped'
  BY <1>1, <1>2, <1>4, <1>5 DEF AhciTyped
<1>7. ~Waiting' /\ Busy' /\ NeedRead' = NeedRead /\ (xfer'.at = "store" => ~NeedRead /\ xfer.op # "read")
  BY <1>1, <1>4, SameChunk DEF Waiting, Busy
<1>8. Queue'
  BY <1>1, <1>2, <1>3, <1>4, <1>5 DEF Queue
<1>9. Progress'
  BY <1>1, <1>2, <1>3, <1>4, <1>5, <1>7 DEF Progress
<1>10. Alone'
  <2>1. Answered' => xfer.done > 0
    BY <1>4, <1>7 DEF Answered
  <2>2. xfer.done > 0 => Len(ci) = 0
    BY <1>1, <1>2 DEF Alone, Answered, Waiting
  <2> QED
    BY <1>1, <2>1, <2>2 DEF Alone
<1>11. DataInv'
  <2>1. DiskKnown' /\ QueueKnown'
    BY <1>1, <1>2 DEF DataInv, DiskKnown, QueueKnown
  <2>2. Transferred'
    BY <1>1, <1>2, <1>4 DEF DataInv, Transferred
  <2>3. Outcome' /\ LastRead'
    BY <1>4, <1>7 DEF Outcome, LastRead
  <2> QED
    BY <2>1, <2>2, <2>3 DEF DataInv
<1> QED
  BY <1>6, <1>8, <1>9, <1>10, <1>11 DEF Core, DriverInv

LEMMA FinishKeeps == ASSUME Core, Finish PROVE Core'
<1>1. /\ xfer.at = "chunk" /\ xfer.done = xfer.len /\ xfer' = NoXfer
      /\ last' = [op |-> xfer.op, pos |-> cursor, len |-> xfer.len, ok |-> TRUE, val |-> xfer.val,
                  got |-> xfer.got]
      /\ cursor' = cursor + xfer.len
      /\ may' = [b \in Bytes |-> IF xfer.op = "write" /\ b \in cursor .. cursor + xfer.len - 1
                                 THEN {xfer.val} ELSE may[b]]
      /\ UNCHANGED <<disk, ci, table, memory, free>>
  BY DEF Finish, Ends, portVars
<1>2. AhciTyped /\ Queue /\ Progress /\ Alone /\ DataInv
  BY DEF Core, DriverInv
<1>3. /\ IsXfer(xfer') /\ xfer'.at = "idle" /\ xfer'.op = "none" /\ xfer'.done = 0
      /\ xfer'.bounce = NoPage
  BY <1>1 DEF NoXfer, IsXfer, Places
<1>4. /\ cursor \in Nat /\ xfer.len \in Nat /\ xfer.bounce = NoPage
      /\ xfer.op \in {"read", "write"}
  BY <1>1, <1>2 DEF AhciTyped, IsXfer, Progress, Busy
<1>5. ci = <<>> \/ xfer.len = 0
  <2>1. CASE xfer.len > 0
    <3>1. Len(ci) = 0
      BY <1>1, <1>2, <2>1 DEF Alone, Answered, Waiting
    <3> QED
      BY <1>2, <3>1 DEF AhciTyped
  <2> QED
    BY <1>4, <2>1
<1>6. AhciTyped'
  BY <1>1, <1>2, <1>3, <1>4 DEF AhciTyped
<1>7. ~Waiting' /\ ~Busy'
  BY <1>3 DEF Waiting, Busy
<1>8. Queue' /\ Progress'
  BY <1>1, <1>2, <1>3, <1>4, <1>7 DEF Queue, Progress
<1>9. Alone'
  <2>1. Answered' => xfer.len > 0
    BY <1>1, <1>3, <1>7 DEF Answered
  <2> QED
    BY <1>1, <1>5, <2>1 DEF Alone
<1>10. DiskKnown'
  <2> SUFFICES ASSUME NEW b \in Bytes PROVE disk[b] \in may'[b]
    BY <1>1 DEF DiskKnown
  <2>1. disk[b] \in may[b]
    BY <1>2 DEF DataInv, DiskKnown
  <2>2. xfer.op = "write" /\ b \in cursor .. cursor + xfer.len - 1 => disk[b] = xfer.val
    BY <1>1, <1>2, <1>4 DEF DataInv, Transferred, Bytes
  <2> QED
    BY <1>1, <2>1, <2>2
<1>11. QueueKnown'
  <2>1. CASE ci = <<>>
    BY <1>1, <2>1 DEF QueueKnown
  <2>2. CASE xfer.len = 0
    <3>1. \A b \in Bytes : may'[b] = may[b]
      BY <1>1, <1>4, <2>2
    <3> QED
      BY <1>1, <1>2, <3>1 DEF DataInv, QueueKnown
  <2> QED
    BY <1>5, <2>1, <2>2
<1>12. Transferred' /\ Outcome'
  BY <1>3, <1>7 DEF Transferred, Outcome
<1>13. LastRead'
  BY <1>1, <1>2 DEF LastRead, DataInv, Transferred
<1> QED
  BY <1>6, <1>8, <1>9, <1>10, <1>11, <1>12, <1>13 DEF Core, DriverInv, DataInv

LEMMA FailsKeeps == ASSUME Core, Busy, Fails, UNCHANGED <<disk, ci, table>> PROVE Core'
<1>1. /\ xfer' = NoXfer /\ free' = free \cup ({xfer.bounce} \ {NoPage})
      /\ last' = [op |-> xfer.op, pos |-> cursor, len |-> xfer.len, ok |-> FALSE, val |-> xfer.val,
                  got |-> xfer.got]
      /\ UNCHANGED <<memory, cursor, may>>
  BY DEF Fails, Ends
<1>2. AhciTyped /\ Queue /\ Progress /\ Alone /\ DataInv
  BY DEF Core, DriverInv
<1>3. /\ IsXfer(xfer') /\ xfer'.at = "idle" /\ xfer'.op = "none" /\ xfer'.done = 0
      /\ xfer'.bounce = NoPage
  BY <1>1 DEF NoXfer, IsXfer, Places
<1>4. xfer.bounce \in Pages /\ NoPage \notin Pages
  BY <1>2, DiskAssumption DEF Progress, NoPage
<1>5. AhciTyped'
  BY <1>1, <1>2, <1>3, <1>4 DEF AhciTyped, IsXfer
<1>6. ~Waiting' /\ ~Busy' /\ ~Answered'
  BY <1>1, <1>3 DEF Waiting, Busy, Answered
<1>7. Queue' /\ Progress' /\ Alone'
  <2>1. Queue'
    BY <1>1, <1>2, <1>3, <1>4 DEF Queue
  <2>2. Progress' /\ Alone'
    BY <1>1, <1>3, <1>6 DEF Progress, Alone
  <2> QED
    BY <2>1, <2>2
<1>8. DiskKnown' /\ QueueKnown'
  BY <1>1, <1>2 DEF DataInv, DiskKnown, QueueKnown
<1>9. Transferred' /\ Outcome' /\ LastRead'
  BY <1>1, <1>3, <1>6 DEF Transferred, Outcome, LastRead
<1> QED
  BY <1>5, <1>7, <1>8, <1>9 DEF Core, DriverInv, DataInv

(* hlt, and the interrupt that ends it.                                    *)
LEMMA HaltKeeps ==
    ASSUME Core, Waiting, NEW at \in {"wait", "hlt"}, NEW n \in Nat,
           xfer' = [xfer EXCEPT !.at = at, !.tries = n],
           UNCHANGED <<disk, ci, table, memory, free, cursor, last, may>>
    PROVE  Core'
<1>1. AhciTyped /\ Queue /\ Progress /\ Alone /\ DataInv
  BY DEF Core, DriverInv
<1>2. /\ IsXfer(xfer') /\ xfer'.at = at /\ xfer'.op = xfer.op /\ xfer'.len = xfer.len
      /\ xfer'.done = xfer.done /\ xfer'.val = xfer.val /\ xfer'.got = xfer.got
      /\ xfer'.bounce = xfer.bounce /\ xfer'.page = xfer.page /\ xfer'.slot = xfer.slot
  BY <1>1, Zenon DEF AhciTyped, IsXfer, Places
<1>3. /\ Waiting' /\ Busy' /\ Busy /\ Own' = Own /\ xfer.at \notin {"idle", "chunk", "load", "store"}
      /\ At' = At /\ Offset' = Offset /\ First' = First /\ Chunk' = Chunk
      /\ Aligned' = Aligned /\ NeedRead' = NeedRead /\ \A b : InChunk(b)' <=> InChunk(b)
  BY <1>2, SameChunk DEF Waiting, Busy, Own
<1>4. AhciTyped'
  BY <1>1, <1>2 DEF AhciTyped
<1>5. Queue' /\ Progress'
  BY <1>1, <1>2, <1>3 DEF Queue, Progress
<1>6. Alone'
  BY <1>1, <1>2, <1>3 DEF Alone, Answered
<1>7. DiskKnown' /\ QueueKnown' /\ Transferred' /\ LastRead'
  BY <1>1, <1>2, <1>3 DEF DataInv, DiskKnown, QueueKnown, Transferred, LastRead
<1>8. Outcome'
  BY <1>1, <1>2, <1>3 DEF DataInv, Outcome, Matches, Overwrites
<1> QED
  BY <1>4, <1>5, <1>6, <1>7, <1>8 DEF Core, DriverInv, DataInv

LEMMA SendKeeps == ASSUME Core, send_command PROVE Core'
<1> DEFINE write == xfer.at = "store"
           filled == [b \in 0 .. PageBytes - 1 |-> IF write /\ b < Aligned THEN Overlaid[b] ELSE 0]
<1>1. xfer.at \in {"load", "store"} /\ Busy /\ ~Waiting /\ UNCHANGED disk
  BY Zenon DEF send_command, Busy, Waiting
<1>2. CASE FreeSlots = {}
  BY <1>1, <1>2, FailsKeeps DEF send_command
<1>3. CASE FreeSlots # {}
  <2>1. PICK slot \in {Smallest(FreeSlots)}, page \in {p \in free : p = Smallest(free)} :
          /\ free' = free \ {page}
          /\ memory' = [memory EXCEPT ![page] = filled, ![xfer.bounce] = IF write THEN Overlaid ELSE @]
          /\ table' = [table EXCEPT ![slot] =
                 [first |-> First, bytes |-> Aligned, write |-> write, page |-> page]]
          /\ ci' = Append(ci, slot)
          /\ xfer' = [xfer EXCEPT !.at = "wait", !.page = page, !.slot = slot, !.tries = 0]
          /\ UNCHANGED <<cursor, last, may>>
    BY <1>3, Zenon DEF send_command
  <2>2. AhciTyped /\ Queue /\ Progress /\ Alone /\ DataInv
    BY DEF Core, DriverInv
  <2>3. slot \in SlotNums /\ \A i \in 1 .. Len(ci) : ci[i] # slot
    <3>1. FreeSlots \subseteq Nat
      BY DEF FreeSlots, SlotNums
    <3>2. slot \in FreeSlots
      BY <1>3, <3>1, SmallestIn, Zenon
    <3> QED
      BY <2>2, <3>2, Zenon DEF FreeSlots, Contains, AhciTyped
  <2>4. /\ IsXfer(xfer') /\ xfer'.at = "wait" /\ xfer'.op = xfer.op /\ xfer'.len = xfer.len
        /\ xfer'.done = xfer.done /\ xfer'.val = xfer.val /\ xfer'.got = xfer.got
        /\ xfer'.bounce = xfer.bounce /\ xfer'.page = page /\ xfer'.slot = slot
    BY <2>1, <2>2, Zenon DEF AhciTyped, IsXfer, Places
  <2>5. /\ At' = At /\ Offset' = Offset /\ First' = First /\ Chunk' = Chunk
        /\ Aligned' = Aligned /\ NeedRead' = NeedRead /\ \A b : InChunk(b)' <=> InChunk(b)
    BY <2>1, <2>4, SameChunk
  <2>6. /\ cursor \in Nat /\ xfer.done \in Nat /\ xfer.len \in Nat /\ xfer.done < xfer.len
        /\ xfer.bounce \in Pages \ free /\ page \in free /\ page \in Pages /\ page # xfer.bounce
    BY <1>1, <2>2 DEF AhciTyped, IsXfer, Progress
  <2>7. /\ At \in Nat /\ Offset \in Nat /\ First \in Nat /\ At = First + Offset
        /\ Chunk \in Nat /\ Chunk > 0 /\ xfer.done + Chunk <= xfer.len
        /\ Aligned \in Nat /\ Offset + Chunk <= Aligned /\ Aligned <= PageBytes
        /\ ~NeedRead => Offset = 0 /\ Chunk = Aligned
    BY <2>2, <2>6, ChunkFits DEF AhciTyped
  <2>8. ci \in Seq(SlotNums) /\ Len(ci') = Len(ci) + 1 /\ ci'[Len(ci')] = slot /\ ci' # <<>>
        /\ \A i \in 1 .. Len(ci) : ci'[i] = ci[i] /\ table'[ci[i]] = table[ci[i]]
    BY <2>1, <2>2, <2>3 DEF AhciTyped
  <2>9. /\ table'[slot].first = First /\ table'[slot].bytes = Aligned
        /\ table'[slot].write = write /\ table'[slot].page = page
    BY <2>1, <2>2, <2>3 DEF AhciTyped
  <2>10. Waiting' /\ Busy' /\ Own' = table'[slot]
    BY <2>4 DEF Waiting, Busy, Own
  <2>11. AhciTyped'
    <3>1. [first |-> First, bytes |-> Aligned, write |-> write, page |-> page] \in Commands
      BY <2>6, <2>7, DiskAssumption DEF Commands, PageBytes
    <3> QED
      BY <2>1, <2>2, <2>3, <2>4, <3>1 DEF AhciTyped
  <2>12. Queue'
    <3>1. \A i \in 1 .. Len(ci) : table[ci[i]].page \in Pages \ free /\ table[ci[i]].page # xfer.bounce
      BY <2>2 DEF Queue
    <3>2. \A i \in 1 .. Len(ci') : /\ table'[ci'[i]].page \in Pages \ free'
                                   /\ table'[ci'[i]].page # xfer'.bounce
      BY <2>1, <2>4, <2>6, <2>8, <2>9, <3>1
    <3>3. \A i, j \in 1 .. Len(ci) : i # j => ci[i] # ci[j] /\ table[ci[i]].page # table[ci[j]].page
      BY <2>2 DEF Queue
    <3>4. \A i, j \in 1 .. Len(ci') : i # j => /\ ci'[i] # ci'[j]
                                               /\ table'[ci'[i]].page # table'[ci'[j]].page
      BY <2>3, <2>6, <2>8, <2>9, <3>1, <3>3
    <3> QED
      BY <3>2, <3>4 DEF Queue
  <2>13. Progress'
    <3>1. /\ xfer'.op \in {"read", "write"} /\ xfer'.done <= xfer'.len
          /\ cursor' + xfer'.len <= Sector * DiskSectors
          /\ xfer'.op = "read" => ~write
      BY <1>1, <2>1, <2>2, <2>4, <2>6 DEF Progress
    <3>2. xfer'.bounce \in Pages \ free' /\ xfer'.page \in Pages \ free'
      BY <2>1, <2>4, <2>6
    <3> QED
      BY <2>3, <2>4, <2>5, <2>6, <2>8, <2>9, <2>10, <3>1, <3>2, Zenon DEF Progress
  <2>14. Alone'
    <3>1. Answered' => Answered
      BY <1>1, <2>4, <2>5, <2>9, <2>10, Zenon DEF Answered
    <3> QED
      BY <1>1, <2>2, <2>8, <2>10, <3>1 DEF Alone
  <2>15. \A b \in 0 .. PageBytes - 1 : write /\ b < Aligned =>
            memory'[page][b] = IF b \in Offset .. Offset + Chunk - 1 THEN xfer.val
                               ELSE memory[xfer.bounce][b]
    BY <2>1, <2>2, <2>6 DEF AhciTyped, Overlaid
  <2>16. write => Overwrites'
    <3> SUFFICES ASSUME write, NEW b \in Bytes, First <= b, b < First + Aligned
                 PROVE  memory'[page][b - First] = IF InChunk(b) THEN xfer.val ELSE disk[b]
      BY <1>1, <2>4, <2>5 DEF Overwrites
    <3>1. b \in Nat /\ b - First \in 0 .. PageBytes - 1 /\ b - First < Aligned
      BY <2>7, DiskAssumption DEF Bytes, PageBytes
    <3>2. b - First \in Offset .. Offset + Chunk - 1 <=> InChunk(b)
      BY <2>7, <3>1 DEF InChunk
    <3>3. ~InChunk(b) => memory[xfer.bounce][b - First] = disk[b]
      <4> SUFFICES ASSUME ~InChunk(b) PROVE memory[xfer.bounce][b - First] = disk[b]
        OBVIOUS
      <4>1. NeedRead
        BY <2>7, <3>1 DEF InChunk
      <4>2. Matches(xfer.bounce)
        BY <2>2, <4>1 DEF DataInv, Outcome
      <4>3. b - First \in 0 .. Aligned - 1 /\ First + (b - First) = b
        BY <2>7, <3>1
      <4> QED
        BY <4>2, <4>3 DEF Matches
    <3> QED
      BY <2>15, <3>1, <3>2, <3>3
  <2>17. DiskKnown'
    BY <1>1, <2>1, <2>2 DEF DataInv, DiskKnown
  <2>18. QueueKnown'
    <3> SUFFICES ASSUME NEW i \in 1 .. Len(ci'), NEW b \in Bytes,
                        table'[ci'[i]].write, table'[ci'[i]].first <= b,
                        b < table'[ci'[i]].first + table'[ci'[i]].bytes
                 PROVE  memory'[table'[ci'[i]].page][b - table'[ci'[i]].first] \in may[b]
      BY <2>1, Zenon DEF QueueKnown
    <3>1. CASE i = Len(ci')
      <4>1. write /\ First <= b /\ b < First + Aligned /\ table'[ci'[i]].page = page
            /\ table'[ci'[i]].first = First
        BY <2>8, <2>9, <3>1, Zenon
      <4>2. memory'[page][b - First] = IF InChunk(b) THEN xfer.val ELSE disk[b]
        BY <1>1, <2>4, <2>5, <2>16, <4>1 DEF Overwrites
      <4>3. xfer.op = "write"
        BY <2>2, <4>1 DEF Progress
      <4>4. InChunk(b) => cursor <= b /\ b < cursor + xfer.len
        <5>1. b \in Nat
          BY DiskAssumption DEF Bytes
        <5>2. At = cursor + xfer.done
          BY DEF At
        <5>3. /\ At \in Nat /\ Chunk \in Nat /\ xfer.done + Chunk <= xfer.len
              /\ cursor \in Nat /\ xfer.done \in Nat /\ xfer.len \in Nat
          BY <2>6, <2>7
        <5>4. InChunk(b) => At <= b /\ b < At + Chunk
          BY DEF InChunk
        <5> QED
          BY <5>1, <5>2, <5>3, <5>4
      <4>5. InChunk(b) => xfer.val \in may[b]
        BY <2>2, <4>3, <4>4 DEF DataInv, Transferred
      <4>6. disk[b] \in may[b]
        BY <2>2 DEF DataInv, DiskKnown
      <4> QED
        BY <4>1, <4>2, <4>5, <4>6
    <3>2. CASE i # Len(ci')
      <4>1. i \in 1 .. Len(ci) /\ ci'[i] = ci[i] /\ table'[ci'[i]] = table[ci[i]]
        BY <2>8, <3>2
      <4>2. table[ci[i]].page \in Pages /\ table[ci[i]].page # page /\ table[ci[i]].page # xfer.bounce
        BY <2>2, <2>6, <4>1 DEF Queue
      <4>3. memory'[table[ci[i]].page] = memory[table[ci[i]].page]
        BY <2>1, <2>2, <4>2 DEF AhciTyped
      <4> QED
        BY <2>2, <4>1, <4>3 DEF DataInv, QueueKnown
    <3> QED
      BY <3>1, <3>2
  <2>19. Transferred'
    BY <1>1, <2>1, <2>2, <2>4 DEF DataInv, Transferred
  <2>20. Outcome' /\ LastRead'
    BY <2>4, <2>8, <2>9, <2>10, <2>16, Zenon DEF Outcome, LastRead
  <2> QED
    BY <2>11, <2>12, <2>13, <2>14, <2>17, <2>18, <2>19, <2>20 DEF Core, DriverInv, DataInv
<1> QED
  BY <1>2, <1>3

(* A command that succeeded is the last one the controller had.            *)
LEMMA SucceedsKeeps ==
    ASSUME Core, Waiting, ci = <<>>, Succeeds, UNCHANGED <<disk, ci, table, cursor, last, may>>
    PROVE  Core'
<1>1. AhciTyped /\ Queue /\ Progress /\ Alone /\ DataInv
  BY DEF Core, DriverInv
<1>2. /\ Busy /\ xfer.at \notin {"idle", "chunk", "load", "store"} /\ xfer.op \in {"read", "write"}
      /\ cursor \in Nat /\ xfer.done \in Nat /\ xfer.len \in Nat /\ xfer.done < xfer.len
      /\ xfer.bounce \in Pages \ free /\ xfer.page \in Pages \ free /\ xfer.page # xfer.bounce
      /\ cursor + xfer.len <= Sector * DiskSectors
  BY <1>1 DEF AhciTyped, IsXfer, Progress, Busy, Waiting
<1>3. /\ At \in Nat /\ Offset \in Nat /\ First \in Nat /\ At = First + Offset
      /\ Chunk \in Nat /\ Chunk > 0 /\ xfer.done + Chunk <= xfer.len
      /\ Aligned \in Nat /\ Offset + Chunk <= Aligned /\ Aligned <= PageBytes
  BY <1>1, <1>2, ChunkFits DEF AhciTyped
<1>4. ci' = <<>> /\ Len(ci') = 0
  OBVIOUS
<1>5. Queue' /\ Alone' /\ DiskKnown' /\ QueueKnown'
  <2>1. Queue' /\ Alone'
    BY <1>4 DEF Queue, Alone
  <2>2. DiskKnown' /\ QueueKnown'
    BY <1>1, <1>4 DEF DataInv, DiskKnown, QueueKnown
  <2> QED
    BY <2>1, <2>2
<1>6. CASE xfer.op = "write" /\ ~Own.write
  <2>1. /\ memory' = [memory EXCEPT ![xfer.bounce] =
                [b \in 0 .. PageBytes - 1 |-> IF b < Aligned THEN memory[xfer.page][b] ELSE @[b]]]
        /\ xfer' = [xfer EXCEPT !.at = "store"] /\ free' = free
    BY <1>6 DEF Succeeds, Own
  <2>2. /\ IsXfer(xfer') /\ xfer'.at = "store" /\ xfer'.op = xfer.op /\ xfer'.len = xfer.len
        /\ xfer'.done = xfer.done /\ xfer'.val = xfer.val /\ xfer'.got = xfer.got
        /\ xfer'.bounce = xfer.bounce
    BY <1>1, <2>1 DEF AhciTyped, IsXfer, Places
  <2>3. ~Waiting' /\ Busy' /\ First' = First /\ Aligned' = Aligned
    BY <2>2, SameChunk DEF Waiting, Busy
  <2>4. AhciTyped'
    BY <1>1, <2>1, <2>2 DEF AhciTyped
  <2>5. Progress'
    BY <1>2, <1>6, <2>1, <2>2, <2>3 DEF Progress
  <2>6. Transferred' /\ LastRead'
    BY <1>1, <2>2 DEF DataInv, Transferred, LastRead
  <2>7. Outcome'
    <3>1. Matches(xfer.page)
      BY <1>1, <1>6 DEF DataInv, Outcome
    <3>2. \A b \in 0 .. Aligned - 1 : memory'[xfer.bounce][b] = memory[xfer.page][b]
      <4>1. memory'[xfer.bounce] = [b \in 0 .. PageBytes - 1 |->
                IF b < Aligned THEN memory[xfer.page][b] ELSE memory[xfer.bounce][b]]
        BY <1>1, <1>2, <2>1, Zenon DEF AhciTyped
      <4>2. PageBytes \in Nat
        BY DiskAssumption DEF PageBytes
      <4>3. \A b \in 0 .. Aligned - 1 : b \in 0 .. PageBytes - 1 /\ b < Aligned
        BY <1>3, <4>2
      <4> QED
        BY <4>1, <4>3
    <3>3. Matches(xfer.bounce)'
      BY <2>2, <2>3, <3>1, <3>2 DEF Matches
    <3> QED
      BY <2>2, <2>3, <3>3 DEF Outcome
  <2> QED
    BY <1>5, <2>4, <2>5, <2>6, <2>7 DEF Core, DriverInv, DataInv
<1>7. CASE ~(xfer.op = "write" /\ ~Own.write)
  <2> DEFINE more == [i \in 1 .. Chunk |-> memory[xfer.page][Offset + i - 1]]
             got == IF Own.write THEN xfer.got ELSE xfer.got \o more
             n == xfer.done + Chunk
  <2>1. /\ xfer' = [xfer EXCEPT !.at = "chunk", !.done = n, !.bounce = NoPage,
                                !.got = got]
        /\ free' = free \cup {xfer.bounce} /\ memory' = memory
    BY <1>7 DEF Succeeds, Own
  <2>10. n \in Nat
    BY <1>2, <1>3
  <2> HIDE DEF got, n
  <2>2. /\ IsXfer(xfer') /\ xfer'.at = "chunk" /\ xfer'.op = xfer.op /\ xfer'.len = xfer.len
        /\ xfer'.done = n /\ xfer'.val = xfer.val
        /\ xfer'.got = got /\ xfer'.bounce = NoPage
    BY <1>1, <2>1, <2>10, Zenon DEF AhciTyped, IsXfer, Places
  <2>3. ~Waiting' /\ ~Busy'
    BY <2>2 DEF Waiting, Busy
  <2>4. AhciTyped'
    BY <1>1, <1>2, <2>1, <2>2 DEF AhciTyped
  <2>5. Progress'
    BY <1>2, <1>3, <2>2, <2>3 DEF Progress, n
  <2>6. Outcome' /\ LastRead'
    BY <2>2, <2>3 DEF Outcome, LastRead
  <2>7. At = cursor + xfer.done
    BY DEF At
  <2>8. CASE xfer.op = "write"
    <3>1. Own.write
      BY <1>7, <2>8
    <3>2. \A b \in Bytes : InChunk(b) => disk[b] = xfer.val
      BY <1>1, <3>1 DEF DataInv, Outcome
    <3>3. \A b \in Bytes : b \in Nat
      BY DiskAssumption DEF Bytes
    <3>4. \A b \in Bytes : b < cursor + xfer'.done => b < cursor + xfer.done \/ InChunk(b)
      <4> TAKE b \in Bytes
      <4>1. b \in Nat /\ cursor \in Nat /\ xfer.done \in Nat /\ Chunk \in Nat
        BY <1>2, <1>3, <3>3
      <4>2. xfer'.done = xfer.done + Chunk
        BY <2>2 DEF n
      <4> QED
        BY <2>7, <4>1, <4>2 DEF InChunk
    <3>5. Transferred'
      BY <1>1, <2>2, <2>8, <3>2, <3>4 DEF DataInv, Transferred
    <3> QED
      BY <1>5, <2>4, <2>5, <2>6, <3>5 DEF Core, DriverInv, DataInv
  <2>9. CASE xfer.op = "read"
    <3>1. ~Own.write
      BY <1>1, <2>9 DEF Progress
    <3>2. Matches(xfer.page)
      BY <1>1, <3>1 DEF DataInv, Outcome
    <3>3. \A i \in 1 .. Chunk : memory[xfer.page][Offset + i - 1] = disk[cursor + xfer.done + i - 1]
      <4> TAKE i \in 1 .. Chunk
      <4>1. Offset + i - 1 \in 0 .. Aligned - 1 /\ First + (Offset + i - 1) = cursor + xfer.done + i - 1
        BY <1>2, <1>3, <2>7
      <4>2. cursor + xfer.done + i - 1 \in Bytes
        <5>1. cursor + xfer.len <= Sector * DiskSectors /\ Sector * DiskSectors \in Nat
          BY <1>2, DiskAssumption
        <5>2. cursor \in Nat /\ xfer.done \in Nat /\ xfer.len \in Nat /\ xfer.done + Chunk <= xfer.len
          BY <1>2, <1>3
        <5>3. i \in Nat /\ i >= 1 /\ i <= Chunk /\ Chunk \in Nat
          BY <1>3
        <5> QED
          BY <5>1, <5>2, <5>3 DEF Bytes
      <4> QED
        BY <3>2, <4>1, <4>2 DEF Matches
    <3> DEFINE f == [i \in 1 .. xfer.done |-> disk[cursor + i - 1]]
               g == [i \in 1 .. Chunk |-> disk[cursor + xfer.done + i - 1]]
    <3>4. xfer.got = [i \in 1 .. xfer.done |-> f[i]] /\ more = [i \in 1 .. Chunk |-> g[i]]
      BY <1>1, <2>9, <3>3, Zenon DEF DataInv, Transferred
    <3>5. xfer.got \o more = [i \in 1 .. xfer.done + Chunk |-> IF i <= xfer.done THEN f[i]
                                                              ELSE g[i - xfer.done]]
      <4> HIDE DEF f, g, more
      <4>1. xfer.done \in Nat /\ Chunk \in Nat
        BY <1>2, <1>3
      <4>2. [i \in 1 .. xfer.done |-> f[i]] \o [i \in 1 .. Chunk |-> g[i]]
              = [i \in 1 .. xfer.done + Chunk |-> IF i <= xfer.done THEN f[i] ELSE g[i - xfer.done]]
        BY <4>1, Joined
      <4> QED
        BY <3>4, <4>2, Zenon
    <3>6. \A i \in 1 .. xfer.done + Chunk :
            (IF i <= xfer.done THEN f[i] ELSE g[i - xfer.done]) = disk[cursor + i - 1]
      <4> TAKE i \in 1 .. xfer.done + Chunk
      <4>1. CASE i <= xfer.done
        <5>1. i \in 1 .. xfer.done
          BY <1>2, <1>3, <4>1
        <5> QED
          BY <4>1, <5>1
      <4>2. CASE ~(i <= xfer.done)
        <5>1. i - xfer.done \in 1 .. Chunk /\ cursor + xfer.done + (i - xfer.done) - 1 = cursor + i - 1
          BY <1>2, <1>3, <4>2
        <5>2. g[i - xfer.done] = disk[cursor + xfer.done + (i - xfer.done) - 1]
          BY <5>1
        <5> QED
          BY <4>2, <5>1, <5>2
      <4> QED
        BY <4>1, <4>2
    <3>7. xfer.got \o more = [i \in 1 .. xfer.done + Chunk |-> disk[cursor + i - 1]]
      <4> HIDE DEF f, g, more
      <4> QED
        BY <3>5, <3>6
    <3>8. Transferred'
      <4> HIDE DEF more
      <4> QED
        BY <2>2, <2>9, <3>1, <3>7 DEF Transferred, got, n
    <3> QED
      BY <1>5, <2>4, <2>5, <2>6, <3>8 DEF Core, DriverInv, DataInv
  <2> QED
    BY <1>2, <2>8, <2>9
<1> QED
  BY <1>6, <1>7

LEMMA WaitKeeps == ASSUME Core, wait_for_completion PROVE Core'
<1>1. xfer.at = "wait" /\ Waiting /\ Busy /\ UNCHANGED <<disk, ci, table>>
  BY DEF wait_for_completion, Waiting, Busy
<1>2. CASE GivesUp(xfer.tries)
  BY <1>1, <1>2, FailsKeeps DEF wait_for_completion
<1>3. CASE ~GivesUp(xfer.tries) /\ ~Contains(ci, xfer.slot)
  <2>1. CASE tfd
    BY <1>1, <1>3, <2>1, FailsKeeps, Zenon DEF wait_for_completion
  <2>2. CASE ~tfd
    <3>1. ci = <<>>
      <4>1. ci \in Seq(SlotNums) /\ (ci # <<>> => ci[Len(ci)] = xfer.slot)
        BY <1>1 DEF Core, AhciTyped, DriverInv, Progress
      <4> QED
        BY <1>3, <4>1 DEF Contains
    <3>2. Succeeds /\ UNCHANGED <<cursor, last, may>>
      BY <1>3, <2>2, Zenon DEF wait_for_completion
    <3> QED
      BY <1>1, <3>1, <3>2, SucceedsKeeps
  <2> QED
    BY <2>1, <2>2
<1>4. CASE ~GivesUp(xfer.tries) /\ Contains(ci, xfer.slot)
  <2>1. CASE tfes
    BY <1>1, <1>4, <2>1, FailsKeeps DEF wait_for_completion
  <2>2. CASE ~tfes
    <3>1. /\ xfer' = [xfer EXCEPT !.at = "hlt", !.tries = @ + 1]
          /\ UNCHANGED <<memory, free, cursor, last, may>>
      BY <1>4, <2>2 DEF wait_for_completion
    <3>2. xfer.tries + 1 \in Nat
      BY DEF Core, AhciTyped, IsXfer
    <3> QED
      BY <1>1, <3>1, <3>2, HaltKeeps, Zenon
  <2> QED
    BY <2>1, <2>2
<1> QED
  BY <1>2, <1>3, <1>4

-----------------------------------------------------------------------------
(* The controller.                                                         *)

(* What a write of the first command, or a part of it, does to the disk:   *)
(* it leaves alone what the current transfer has done and what surrounds   *)
(* its chunk, and no read is over whose result could be outdated.          *)
Harmless(d) ==
    /\ \A b \in Bytes : d[b] \in may[b]
    /\ xfer.op = "write" => \A b \in Bytes : cursor <= b /\ b < cursor + xfer.done => d[b] = xfer.val
    /\ xfer.op = "read" => xfer.done = 0
    /\ Waiting /\ Own.write =>
         \A b \in Bytes : First <= b /\ b < First + Aligned /\ ~InChunk(b) => d[b] = disk[b]
    /\ ~(xfer.at = "idle" /\ last.op = "read" /\ last.ok /\ last.len > 0)

LEMMA DiskAfter ==
    ASSUME Core, ci # <<>>, NEW n \in Nat, n <= table[ci[1]].bytes, table[ci[1]].write,
           NEW d, d = Written(table[ci[1]], n)
    PROVE  Harmless(d)
<1> DEFINE cmd == table[ci[1]]
<1>1. AhciTyped /\ Queue /\ Progress /\ Alone /\ DataInv
  BY DEF Core, DriverInv
<1>2. /\ ci \in Seq(SlotNums) /\ Len(ci) \in Nat /\ Len(ci) >= 1 /\ ci[1] \in SlotNums
      /\ cmd.first \in Nat /\ cmd.bytes \in Nat /\ n <= cmd.bytes /\ cmd.write
  BY <1>1, DiskAssumption DEF AhciTyped, Commands, PageBytes
<1>3. \A b \in Bytes : b \in Nat
  BY DiskAssumption DEF Bytes
<1>4. \A b \in Bytes : d[b] = IF cmd.first <= b /\ b < cmd.first + n
                              THEN memory[cmd.page][b - cmd.first] ELSE disk[b]
  <2>1. d = Written(cmd, n)
    OBVIOUS
  <2> HIDE DEF cmd
  <2>2. \A b \in Bytes : b \in cmd.first .. cmd.first + n - 1 <=> cmd.first <= b /\ b < cmd.first + n
    BY <1>2, <1>3
  <2> QED
    BY <2>1, <2>2 DEF Written
<1> HIDE DEF cmd
<1>5. \A b \in Bytes : cmd.first <= b /\ b < cmd.first + n => b < cmd.first + cmd.bytes
  BY <1>2, <1>3
<1>6. \A b \in Bytes : d[b] \in may[b]
  <2>1. \A b \in Bytes : cmd.first <= b /\ b < cmd.first + cmd.bytes =>
            memory[cmd.page][b - cmd.first] \in may[b]
    <3>1. 1 \in 1 .. Len(ci) /\ table[ci[1]].write
      BY <1>2 DEF cmd
    <3> QED
      BY <1>1, <3>1 DEF DataInv, QueueKnown, cmd
  <2>2. \A b \in Bytes : disk[b] \in may[b]
    BY <1>1 DEF DataInv, DiskKnown
  <2> QED
    BY <1>4, <1>5, <2>1, <2>2
<1>7. Answered => Waiting /\ Len(ci) = 1 /\ ci[1] = xfer.slot /\ cmd = Own
  <2>1. Answered => Waiting /\ Len(ci) = 1
    BY <1>1, <1>2 DEF Alone
  <2> QED
    BY <1>1, <1>2, <2>1, Zenon DEF Progress, cmd, Own
(* The write is the transfer's own: only the chunk changes.                *)
<1>8. ASSUME Waiting, cmd = Own
      PROVE  \A b \in Bytes : d[b] = disk[b] \/ (InChunk(b) /\ d[b] = xfer.val)
  <2>1. cmd.first = First /\ cmd.bytes = Aligned /\ cmd.page = xfer.page /\ Own.write
    BY <1>1, <1>2, <1>8 DEF Progress
  <2>2. Overwrites
    BY <1>1, <1>2, <1>8, <2>1 DEF DataInv, Outcome
  <2> QED
    BY <1>4, <1>5, <2>1, <2>2 DEF Overwrites
<1>9. xfer.done \in Nat
  BY <1>1 DEF AhciTyped, IsXfer
<1>10. ASSUME xfer.op = "write", NEW b \in Bytes, cursor <= b, b < cursor + xfer.done
       PROVE  d[b] = xfer.val
  <2>1. xfer.done > 0
    BY <1>1, <1>3, <1>9, <1>10 DEF AhciTyped
  <2>2. disk[b] = xfer.val
    <3>1. xfer.len \in Nat /\ xfer.done <= xfer.len /\ cursor \in Nat
      <4>1. xfer # NoXfer
        BY <1>10 DEF NoXfer
      <4> QED
        BY <1>1, <4>1 DEF AhciTyped, IsXfer, Progress
    <3>2. b < cursor + xfer.len
      BY <1>3, <1>9, <1>10, <3>1
    <3> QED
      BY <1>1, <1>10, <3>2 DEF DataInv, Transferred
  <2>3. Waiting /\ cmd = Own
    BY <1>7, <2>1 DEF Answered
  <2> QED
    BY <1>8, <2>2, <2>3
<1>11. xfer.op = "read" => xfer.done = 0
  <2> SUFFICES ASSUME xfer.op = "read", xfer.done > 0 PROVE FALSE
    BY <1>9
  <2>1. Waiting /\ cmd = Own
    BY <1>7 DEF Answered
  <2> QED
    BY <1>1, <1>2, <2>1 DEF Progress
<1>12. ASSUME Waiting, Own.write, NEW b \in Bytes, First <= b, b < First + Aligned, ~InChunk(b)
       PROVE  d[b] = disk[b]
  <2>1. /\ At \in Nat /\ Offset \in Nat /\ First \in Nat /\ At = First + Offset
        /\ Chunk \in Nat
        /\ ~NeedRead => Offset = 0 /\ Chunk = Aligned
    <3>1. xfer.done < xfer.len /\ cursor \in Nat /\ IsXfer(xfer)
      BY <1>1, <1>12 DEF AhciTyped, Progress, Busy, Waiting
    <3> QED
      BY <3>1, ChunkFits
  <2>2. NeedRead
    BY <1>3, <1>12, <2>1 DEF InChunk
  <2>3. xfer.op = "write"
    BY <1>1, <1>12 DEF Progress, Waiting
  <2>4. cmd = Own
    BY <1>7, <1>12, <2>2, <2>3 DEF Answered
  <2> QED
    BY <1>8, <1>12, <2>4
<1>13. ~(xfer.at = "idle" /\ last.op = "read" /\ last.ok /\ last.len > 0)
  BY <1>7 DEF Answered, Waiting
<1> QED
  BY <1>6, <1>10, <1>11, <1>12, <1>13 DEF Harmless

LEMMA DiskKept ==
    ASSUME Core, Harmless(disk'), UNCHANGED <<cursor, xfer, last, may>>
    PROVE  DiskKnown' /\ Transferred' /\ LastRead'
<1>1. DiskKnown'
  BY DEF Harmless, DiskKnown
<1>2. Transferred'
  <2>1. xfer.op = "read" => xfer.done = 0 /\ xfer.got = [i \in 1 .. 0 |-> disk[cursor + i - 1]]
    BY DEF Harmless, Core, DataInv, Transferred
  <2>2. [i \in 1 .. 0 |-> disk[cursor + i - 1]] = [i \in 1 .. 0 |-> disk'[cursor + i - 1]]
    OBVIOUS
  <2>3. xfer.op = "write" => \A b \in Bytes : cursor <= b /\ b < cursor + xfer.len =>
            xfer.val \in may[b] /\ (b < cursor + xfer.done => disk'[b] = xfer.val)
    BY DEF Harmless, Core, DataInv, Transferred
  <2> QED
    BY <2>1, <2>2, <2>3 DEF Transferred
<1>3. LastRead'
  <2>1. last.len \in Nat
    BY DEF Core, AhciTyped
  <2>2. xfer.at = "idle" /\ last.op = "read" /\ last.ok => last.len = 0
    BY <2>1 DEF Harmless
  <2>3. [i \in 1 .. 0 |-> disk[last.pos + i - 1]] = [i \in 1 .. 0 |-> disk'[last.pos + i - 1]]
    OBVIOUS
  <2> QED
    BY <2>2, <2>3 DEF Core, DataInv, LastRead
<1> QED
  BY <1>1, <1>2, <1>3

LEMMA FailedCommandKeeps == ASSUME Core, HbaFails PROVE Core'
<1>1. ci # <<>> /\ UNCHANGED <<ci, table, memory, free, cursor, xfer, last, may>>
  BY DEF HbaFails
<1>2. AhciTyped /\ Queue /\ Progress /\ Alone /\ DataInv
  BY DEF Core, DriverInv
<1>3. Head(ci) = ci[1]
  BY <1>1, <1>2 DEF AhciTyped
<1>4. PICK k \in 0 .. SectorsPerPage :
         /\ k * Sector <= table[ci[1]].bytes
         /\ disk' = IF table[ci[1]].write THEN Written(table[ci[1]], k * Sector) ELSE disk
  BY <1>3 DEF HbaFails
<1>5. CASE ~table[ci[1]].write
  BY <1>1, <1>4, <1>5, CoreUntouched DEF coreVars
<1>6. CASE table[ci[1]].write
  <2>1. k * Sector \in Nat /\ disk' = Written(table[ci[1]], k * Sector)
    BY <1>4, <1>6, DiskAssumption
  <2>2. Harmless(disk')
    BY <1>1, <1>4, <1>6, <2>1, DiskAfter
  <2>3. AhciTyped'
    BY <1>1, <1>2 DEF AhciTyped
  <2>4. /\ Waiting' = Waiting /\ Busy' = Busy /\ Own' = Own
        /\ At' = At /\ Offset' = Offset /\ First' = First /\ Chunk' = Chunk
        /\ Aligned' = Aligned /\ NeedRead' = NeedRead /\ \A b : InChunk(b)' <=> InChunk(b)
    BY <1>1, SameChunk DEF Waiting, Busy, Own
  <2>5. DriverInv'
    <3>1. Queue'
      BY <1>1, <1>2 DEF Queue
    <3>3. Alone'
      BY <1>1, <1>2, <2>4 DEF Alone, Answered
    <3>2. Progress'
      BY <1>1, <1>2, <2>4 DEF Progress
    <3> QED
      BY <3>1, <3>2, <3>3 DEF DriverInv
  <2>6. DiskKnown' /\ Transferred' /\ LastRead'
    BY <1>1, <2>2, DiskKept
  <2>7. QueueKnown'
    BY <1>1, <1>2 DEF DataInv, QueueKnown
  <2>8. Outcome'
    <3>1. Waiting /\ Own.write => Overwrites'
      <4> SUFFICES ASSUME Waiting, Own.write PROVE Overwrites'
        OBVIOUS
      <4>1. Overwrites
        BY <1>1, <1>2 DEF DataInv, Outcome
      <4>2. \A b \in Bytes : First <= b /\ b < First + Aligned /\ ~InChunk(b) => disk'[b] = disk[b]
        BY <2>2 DEF Harmless
      <4> QED
        BY <1>1, <2>4, <4>1, <4>2 DEF Overwrites
    <3>2. ~(xfer.at = "store" /\ NeedRead)
      <4>1. xfer.at = "store" => xfer.op = "write" /\ ~Waiting
        BY <1>2 DEF Progress, Waiting
      <4>2. Len(ci) # 0
        BY <1>1, <1>2 DEF AhciTyped
      <4> QED
        BY <1>2, <4>1, <4>2 DEF Alone, Answered
    <3> QED
      BY <1>1, <2>4, <3>1, <3>2 DEF Outcome
  <2> QED
    BY <2>3, <2>5, <2>6, <2>7, <2>8 DEF Core, DataInv
<1> QED
  BY <1>5, <1>6

LEMMA CompletedKeeps == ASSUME Core, HbaCompletes PROVE Core'
<1> DEFINE cmd == table[ci[1]]
<1>1. ci # <<>> /\ ci' = Tail(ci) /\ UNCHANGED <<table, free, cursor, xfer, last, may>>
  BY DEF HbaCompletes
<1>2. AhciTyped /\ Queue /\ Progress /\ Alone /\ DataInv
  BY DEF Core, DriverInv
<1>3. Head(ci) = ci[1]
  BY <1>1, <1>2 DEF AhciTyped
<1>4. /\ disk' = IF cmd.write THEN Written(cmd, cmd.bytes) ELSE disk
      /\ memory' = IF cmd.write THEN memory
                   ELSE [memory EXCEPT ![cmd.page] = [b \in 0 .. PageBytes - 1 |->
                            IF b < cmd.bytes THEN disk[cmd.first + b] ELSE @[b]]]
  BY <1>3 DEF HbaCompletes
<1>5. /\ ci \in Seq(SlotNums) /\ Len(ci) \in Nat /\ Len(ci) >= 1 /\ Len(ci') = Len(ci) - 1
      /\ ci' \in Seq(SlotNums)
      /\ \A i \in 1 .. Len(ci') : i + 1 \in 1 .. Len(ci) /\ ci'[i] = ci[i + 1]
  BY <1>1, <1>2 DEF AhciTyped
<1>6. /\ cmd.first \in Nat /\ cmd.bytes \in Nat /\ cmd.bytes <= PageBytes /\ cmd.page \in Pages
  <2>1. ci[1] \in SlotNums
    BY <1>5
  <2>2. cmd \in Commands /\ PageBytes \in Nat
    BY <1>2, <2>1, DiskAssumption DEF AhciTyped, PageBytes
  <2>3. cmd.page \in Pages
    BY <1>2, <1>5 DEF Queue
  <2> HIDE DEF cmd
  <2> QED
    BY <2>2, <2>3 DEF Commands
<1> HIDE DEF cmd
<1>7. /\ Waiting' = Waiting /\ Busy' = Busy /\ Own' = Own
      /\ At' = At /\ Offset' = Offset /\ First' = First /\ Chunk' = Chunk
      /\ Aligned' = Aligned /\ NeedRead' = NeedRead /\ \A b : InChunk(b)' <=> InChunk(b)
  BY <1>1, SameChunk DEF Waiting, Busy, Own
<1>8. AhciTyped'
  <2>1. DOMAIN memory' = Pages
    BY <1>2, <1>4 DEF AhciTyped
  <2> QED
    BY <1>1, <1>2, <1>5, <2>1 DEF AhciTyped
<1>9. Queue'
  <2>1. \A i, j \in 1 .. Len(ci') : i # j => ci'[i] # ci'[j] /\ table[ci'[i]].page # table[ci'[j]].page
    <3> TAKE i, j \in 1 .. Len(ci')
    <3>1. i \in Nat /\ j \in Nat
      OBVIOUS
    <3>2. i # j => i + 1 # j + 1
      BY <3>1
    <3>3. /\ i + 1 \in 1 .. Len(ci) /\ ci'[i] = ci[i + 1]
          /\ j + 1 \in 1 .. Len(ci) /\ ci'[j] = ci[j + 1]
      BY <1>5
    <3> QED
      BY <1>2, <3>2, <3>3 DEF Queue
  <2>2. \A i \in 1 .. Len(ci') : table[ci'[i]].page \in Pages \ free /\ table[ci'[i]].page # xfer.bounce
    <3> TAKE i \in 1 .. Len(ci')
    <3>1. i + 1 \in 1 .. Len(ci) /\ ci'[i] = ci[i + 1]
      BY <1>5
    <3> QED
      BY <1>2, <3>1 DEF Queue
  <2> QED
    BY <1>1, <2>1, <2>2 DEF Queue
<1>10. Progress'
  <2>1. ci' # <<>> => ci'[Len(ci')] = ci[Len(ci)]
    BY <1>5
  <2> QED
    BY <1>1, <1>2, <1>7, <2>1 DEF Progress
<1>11. Alone'
  <2>1. Answered' = Answered
    BY <1>1, <1>7 DEF Answered
  <2> QED
    BY <1>2, <1>5, <1>7, <2>1 DEF Alone
<1>12. Waiting /\ ci' = <<>> => cmd = Own
  <2>1. ci' = <<>> => Len(ci) = 1
    <3>1. ci' = <<>> => Len(ci') = 0
      OBVIOUS
    <3> QED
      BY <1>5, <3>1
  <2> QED
    BY <1>1, <1>2, <2>1 DEF Progress, cmd, Own
<1>13. ~(xfer.at = "store" /\ NeedRead)
  <2>1. xfer.at = "store" => xfer.op = "write" /\ ~Waiting
    BY <1>2 DEF Progress, Waiting
  <2> QED
    BY <1>2, <1>5, <2>1 DEF Alone, Answered
<1>14. \A i \in 1 .. Len(ci') : table[ci'[i]].page # cmd.page /\ table[ci'[i]].page \in Pages
  BY <1>2, <1>5 DEF Queue, cmd
<1>15. Waiting /\ ci' # <<>> => xfer.page # cmd.page /\ xfer.page \in Pages
  <2>1. ci' # <<>> => ci'[Len(ci')] = ci[Len(ci)] /\ Len(ci') \in 1 .. Len(ci')
    BY <1>5
  <2> QED
    BY <1>1, <1>2, <1>14, <2>1 DEF Progress, Own
<1>16. CASE cmd.write
  <2>1. disk' = Written(cmd, cmd.bytes) /\ memory' = memory
    BY <1>4, <1>16
  <2>2. Harmless(disk')
    <3>1. cmd.bytes \in Nat /\ cmd.bytes <= cmd.bytes
      BY <1>6
    <3> QED
      BY <1>1, <1>16, <2>1, <3>1, DiskAfter DEF cmd
  <2>3. DiskKnown' /\ Transferred' /\ LastRead'
    BY <1>1, <2>2, DiskKept
  <2>4. QueueKnown'
    BY <1>1, <1>2, <1>5, <2>1 DEF DataInv, QueueKnown
  <2>5. Waiting /\ Own.write /\ ci' # <<>> => Overwrites'
    <3> SUFFICES ASSUME Waiting, Own.write PROVE Overwrites'
      OBVIOUS
    <3>1. Overwrites
      BY <1>1, <1>2 DEF DataInv, Outcome
    <3>2. \A b \in Bytes : First <= b /\ b < First + Aligned /\ ~InChunk(b) => disk'[b] = disk[b]
      BY <2>2 DEF Harmless
    <3> QED
      BY <1>1, <1>7, <2>1, <3>1, <3>2 DEF Overwrites
  <2>6. ASSUME Waiting, Own.write, ci' = <<>>, NEW b \in Bytes, InChunk(b) PROVE disk'[b] = xfer.val
    <3>1. cmd = Own /\ cmd.first = First /\ cmd.bytes = Aligned /\ cmd.page = xfer.page
      BY <1>2, <1>12, <2>6 DEF Progress
    <3>2. xfer.done < xfer.len /\ cursor \in Nat /\ IsXfer(xfer)
      BY <1>2, <2>6 DEF AhciTyped, Progress, Busy, Waiting
    <3>3. /\ At \in Nat /\ Offset \in Nat /\ First \in Nat /\ At = First + Offset
          /\ Chunk \in Nat /\ Aligned \in Nat /\ Offset + Chunk <= Aligned
      BY <3>2, ChunkFits
    <3>4. b \in Nat
      BY DiskAssumption DEF Bytes
    <3>5. First <= b /\ b < First + Aligned
      BY <2>6, <3>3, <3>4 DEF InChunk
    <3>6. disk'[b] = memory[xfer.page][b - First]
      BY <2>1, <3>1, <3>3, <3>4, <3>5 DEF Written
    <3>7. Overwrites
      BY <1>1, <1>2, <2>6 DEF DataInv, Outcome
    <3> QED
      BY <2>6, <3>5, <3>6, <3>7 DEF Overwrites
  <2>7. Waiting /\ ~Own.write => ci' # <<>>
    BY <1>12, <1>16
  <2>8. Outcome'
    BY <1>1, <1>7, <1>13, <2>5, <2>6, <2>7 DEF Outcome
  <2> QED
    BY <1>8, <1>9, <1>10, <1>11, <2>3, <2>4, <2>8 DEF Core, DriverInv, DataInv
<1>17. CASE ~cmd.write
  <2>1. /\ disk' = disk
        /\ memory' = [memory EXCEPT ![cmd.page] = [b \in 0 .. PageBytes - 1 |->
                          IF b < cmd.bytes THEN disk[cmd.first + b] ELSE @[b]]]
    BY <1>4, <1>17
  <2>2. \A p \in Pages : p # cmd.page => memory'[p] = memory[p]
    BY <1>2, <2>1 DEF AhciTyped
  <2>3. \A b \in 0 .. cmd.bytes - 1 : memory'[cmd.page][b] = disk[cmd.first + b]
    <3>1. memory'[cmd.page] = [b \in 0 .. PageBytes - 1 |->
              IF b < cmd.bytes THEN disk[cmd.first + b] ELSE memory[cmd.page][b]]
      BY <1>2, <1>6, <2>1, Zenon DEF AhciTyped
    <3>2. PageBytes \in Nat
      BY DiskAssumption DEF PageBytes
    <3>3. \A b \in 0 .. cmd.bytes - 1 : b \in 0 .. PageBytes - 1 /\ b < cmd.bytes
      BY <1>6, <3>2
    <3> QED
      BY <3>1, <3>3
  <2>4. DiskKnown' /\ Transferred' /\ LastRead'
    BY <1>1, <1>2, <2>1 DEF DataInv, DiskKnown, Transferred, LastRead
  <2>5. QueueKnown'
    <3> SUFFICES ASSUME NEW i \in 1 .. Len(ci'), NEW b \in Bytes,
                        table[ci'[i]].write, table[ci'[i]].first <= b,
                        b < table[ci'[i]].first + table[ci'[i]].bytes
                 PROVE  memory'[table[ci'[i]].page][b - table[ci'[i]].first] \in may[b]
      BY <1>1 DEF QueueKnown
    <3>1. memory'[table[ci'[i]].page] = memory[table[ci'[i]].page]
      BY <1>14, <2>2
    <3>2. i + 1 \in 1 .. Len(ci) /\ ci'[i] = ci[i + 1]
      BY <1>5
    <3> QED
      BY <1>2, <3>1, <3>2 DEF DataInv, QueueKnown
  <2>6. Waiting /\ Own.write /\ ci' # <<>> => Overwrites'
    <3> SUFFICES ASSUME Waiting, Own.write, ci' # <<>> PROVE Overwrites'
      OBVIOUS
    <3>1. memory'[xfer.page] = memory[xfer.page]
      BY <1>15, <2>2
    <3>2. Overwrites
      BY <1>1, <1>2 DEF DataInv, Outcome
    <3> QED
      BY <1>1, <1>7, <2>1, <3>1, <3>2, Zenon DEF Overwrites
  <2>7. Waiting /\ ci' = <<>> => ~Own.write /\ Matches(xfer.page)'
    <3> SUFFICES ASSUME Waiting, ci' = <<>> PROVE ~Own.write /\ Matches(xfer.page)'
      OBVIOUS
    <3>1. cmd = Own /\ cmd.first = First /\ cmd.bytes = Aligned /\ cmd.page = xfer.page
      BY <1>2, <1>12 DEF Progress
    <3> QED
      BY <1>1, <1>7, <1>17, <2>1, <2>3, <3>1, Zenon DEF Matches
  <2>8. Outcome'
    BY <1>1, <1>7, <1>13, <2>6, <2>7 DEF Outcome
  <2> QED
    BY <1>8, <1>9, <1>10, <1>11, <2>4, <2>5, <2>8 DEF Core, DriverInv, DataInv
<1> QED
  BY <1>16, <1>17

(* An interrupt that does nothing else to the disk.                        *)
LEMMA AwakeKeeps ==
    ASSUME Core, Awake, UNCHANGED <<disk, ci, table, memory, free, cursor, last, may>>
    PROVE  Core'
<1>1. CASE xfer.at = "hlt"
  <2>1. IsXfer(xfer)
    BY DEF Core, AhciTyped
  <2>2. xfer.tries \in Nat /\ xfer' = [xfer EXCEPT !.at = "wait", !.tries = xfer.tries]
    BY <1>1, <2>1, Zenon DEF Awake, IsXfer
  <2>3. Waiting
    BY <1>1 DEF Waiting
  <2> QED
    BY <2>2, <2>3, HaltKeeps, Zenon
<1>2. CASE xfer.at # "hlt"
  BY <1>2, CoreUntouched DEF Awake, coreVars
<1> QED
  BY <1>1, <1>2

(* The search for the drive.                                               *)
LEMMA SearchKeeps == ASSUME ListsFree, InitPort PROVE ListsFree'
<1> DEFINE port == Smallest(ports)
           first == Mapped(window, ListPage(port), NewFrame)
           lists == Mapped(first, FisPage(port), NewFrame + 1)
           all == [p \in DOMAIN window |->
                     IF p \in TablePages(port) /\ lists[p] = 0 THEN NewFrame + 2 + p ELSE lists[p]]
<1>1. /\ ports \subseteq SlotNums /\ DOMAIN window = 0 .. Slots * (Slots + 1) + 1 /\ DOMAIN clb = SlotNums
      /\ \A p \in ports : p - 1 \in hba.ports \/ window[p] = 0
  BY DEF ListsFree, InitPort
<1>2. /\ device = NoDevice /\ ports # {} /\ ports' = ports \ {port} /\ hba' = hba
      /\ port \notin hba.ports => UNCHANGED <<window, clb, device>>
      /\ port \in hba.ports =>
           /\ clb' = [clb EXCEPT ![port] = NewFrame]
           /\ device' = IF port \in hba.drives THEN port ELSE NoDevice
           /\ window' = IF port \in hba.drives THEN all
                        ELSE [p \in DOMAIN all |-> IF p \in TablePages(port) THEN 0 ELSE all[p]]
  BY DEF InitPort
<1>3. port \in ports /\ port \in SlotNums
  <2>1. ports \subseteq Nat
    BY <1>1, DiskAssumption DEF SlotNums
  <2> QED
    BY <1>1, <1>2, <2>1, SmallestIn
<1> HIDE DEF port
<1>4. port \in Nat /\ Slots \in Nat \ {0} /\ port < Slots
  BY <1>3, DiskAssumption DEF SlotNums
<1>5. port \in DOMAIN window /\ port + 1 \in DOMAIN window /\ ports \subseteq DOMAIN window
  <2>1. Slots * (Slots + 1) + 1 >= Slots /\ Slots * (Slots + 1) + 1 \in Nat
    BY <1>4
  <2> QED
    BY <1>1, <1>4, <2>1 DEF SlotNums
<1>6. port \notin TablePages(port)
  <2>1. ASSUME NEW s \in SlotNums PROVE port # TablePage(port, s)
    <3>1. port * Slots >= port /\ port * Slots \in Nat
      BY <1>4
    <3>2. s \in Nat
      BY DEF SlotNums
    <3> QED
      BY <1>4, <3>1, <3>2 DEF TablePage
  <2> QED
    BY <2>1 DEF TablePages
<1>7. /\ DOMAIN first = DOMAIN window /\ DOMAIN lists = DOMAIN window
      /\ window[port] = 0 => first[port] = NewFrame
      /\ \A p \in DOMAIN window : p # port => first[p] = window[p]
      /\ lists[port] = first[port]
      /\ \A p \in DOMAIN window : p # port + 1 => lists[p] = first[p]
  <2>1. /\ DOMAIN first = DOMAIN window
        /\ window[port] = 0 => first[port] = NewFrame
        /\ \A p \in DOMAIN window : p # port => first[p] = window[p]
    BY <1>5 DEF Mapped, ListPage
  <2> HIDE DEF first
  <2>2. DOMAIN lists = DOMAIN first /\ \A p \in DOMAIN first : p # port + 1 => lists[p] = first[p]
    BY <1>5, <2>1 DEF Mapped, FisPage
  <2> QED
    BY <1>4, <1>5, <2>1, <2>2
<1> HIDE DEF first, lists
<1>8. CASE port \notin hba.ports
  BY <1>1, <1>2, <1>8, Zenon DEF ListsFree
<1>9. CASE port \in hba.ports /\ port \in hba.drives
  <2>1. device' = port /\ device' # NoDevice /\ window' = all /\ clb' = [clb EXCEPT ![port] = NewFrame]
    BY <1>2, <1>4, <1>9 DEF NoDevice
  <2>2. DOMAIN window' = DOMAIN window /\ DOMAIN clb' = DOMAIN clb /\ clb'[port] = NewFrame
    BY <1>1, <1>3, <2>1
  <2>3. port - 1 \notin hba.ports => window'[port] = NewFrame
    BY <1>1, <1>3, <1>5, <1>6, <1>7, <2>1
  <2> QED
    BY <1>1, <1>2, <2>1, <2>2, <2>3 DEF ListsFree
<1>10. CASE port \in hba.ports /\ port \notin hba.drives
  <2>1. /\ device' = NoDevice /\ clb' = [clb EXCEPT ![port] = NewFrame]
        /\ window' = [p \in DOMAIN all |-> IF p \in TablePages(port) THEN 0 ELSE all[p]]
    BY <1>2, <1>10
  <2>2. DOMAIN window' = DOMAIN window /\ DOMAIN clb' = DOMAIN clb
    BY <1>1, <2>1
  <2>3. ASSUME NEW p \in ports \ {port} PROVE p - 1 \in hba.ports \/ window'[p] = 0
    <3>1. p \in DOMAIN window /\ p \in Nat
      <4>1. p \in ports /\ p \in SlotNums
        BY <1>1
      <4>2. p \in Nat
        BY <4>1 DEF SlotNums
      <4> QED
        BY <1>5, <4>1, <4>2
    <3>2. CASE p = port + 1
      BY <1>4, <1>10, <3>2
    <3>3. CASE p # port + 1
      <4>1. lists[p] = window[p]
        BY <1>7, <3>1, <3>3
      <4>2. window'[p] = 0 \/ window'[p] = window[p]
        BY <2>1, <3>1, <4>1
      <4> QED
        BY <1>1, <4>2
    <3> QED
      BY <3>2, <3>3
  <2> QED
    BY <1>1, <1>2, <2>1, <2>2, <2>3 DEF ListsFree
<1> QED
  BY <1>8, <1>9, <1>10

====
