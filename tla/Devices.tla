------------------------------- MODULE Devices -------------------------------
(***************************************************************************)
(* A process that reads from stdin, prints and uses the disk, while the    *)
(* timer and the keyboard interrupt it at every step.                      *)
(*                                                                         *)
(* Source: zenos-kernel/src/process/file_handles.rs, syscall/{read,write}  *)
(* .rs, interrupts/mod.rs, framebuffer/helpers.rs.  One process is in a    *)
(* system call at a time: calls share one stack (module Processes).  A     *)
(* process that blocks is made Ready by the next tick, which saves its     *)
(* context, so that to block is to halt until an interrupt.                *)
(***************************************************************************)
EXTENDS Terminal, Ahci

CONSTANTS
    Loads    \* what happens on a machine: keys (typed) and typing (how many), texts
             \* (printed), reads (lengths asked of stdin), calls (how many calls), moves, hbas

(* The file systems ask for transfers within the disk.                     *)
ASSUME MovesAssumption ==
    \A l \in Loads : \A move \in l.moves :
        /\ move.op \in {"read", "write"} /\ move.pos \in Nat /\ move.len \in Nat
        /\ move.pos + move.len <= Sector * DiskSectors
ASSUME ReadsAssumption == \A l \in Loads : l.reads \subseteq Nat

VARIABLES
    load,    \* the load of this machine
    pc,      \* where the process is; a disk transfer has its own place in xfer
    out,     \* bytes still to print
    want,    \* length of the read from stdin
    line,    \* what it has so far
    calls,   \* calls made
    hung,    \* the keyboard handler waits for a lock that cannot be released
    typed,   \* history: every key
    start    \* history: how many had been taken when the read began

procVars == <<load, pc, out, want, line, calls, hung, typed, start>>
devVars == <<terminalVars, ahciVars, procVars>>

DevicesInit ==
    /\ load \in Loads
    /\ TerminalInit /\ AhciInit(load.hbas)
    /\ pc = "user" /\ out = <<>> /\ want = 0 /\ line = <<>> /\ calls = 0
    /\ hung = FALSE /\ typed = <<>> /\ start = 0

Running == Booted /\ ~hung
Taken == Len(typed) - Len(buffer)

-----------------------------------------------------------------------------
(* System calls.                                                           *)

Enter == Running /\ pc = "user" /\ xfer = NoXfer /\ calls < load.calls /\ calls' = calls + 1

(* write to stdout, and to stderr, which adds a newline.  What is not      *)
(* UTF-8 (here: what has a byte above 127) is replaced.                    *)
InvalidText == [i \in 1 .. 15 |-> 63]
Utf8(text) == IF \A i \in DOMAIN text : text[i] < 128 THEN text ELSE InvalidText
Write ==
    /\ Enter
    /\ \E text \in load.texts, tail \in {<<>>, <<Nl>>} : out' = Utf8(text) \o tail
    /\ pc' = IF out' = <<>> THEN "user" ELSE "print"
    /\ UNCHANGED <<terminalVars, ahciVars, load, want, line, hung, typed, start>>

(* Interrupts are on: ticks and keys come between the bytes of a write and *)
(* in the middle of one.                                                   *)
PrintByte ==
    /\ Running /\ pc = "print"
    /\ tty' = ByteBegins(tty, Head(out))
    /\ pc' = IF Shows(tty, Head(out)) THEN "draw" ELSE "parse"
    /\ UNCHANGED <<buffer, ahciVars, load, out, want, line, calls, hung, typed, start>>

Drawing == pc \in {"draw", "parse"}
ByteDone ==
    /\ Running /\ Drawing
    /\ tty' = ByteEnds(tty, Head(out), pc = "draw")
    /\ out' = Tail(out)
    /\ pc' = IF Len(out) = 1 THEN "user" ELSE "print"
    /\ UNCHANGED <<buffer, ahciVars, load, want, line, calls, hung, typed, start>>

(* read from stdin.                                                        *)
Read ==
    /\ Enter
    /\ want' \in load.reads
    /\ pc' = "loop" /\ line' = <<>> /\ start' = Taken
    /\ UNCHANGED <<terminalVars, ahciVars, load, out, hung, typed>>

(* The loop of Stdin::read: full, or on to the keyboard's lock.            *)
ReadLoop ==
    /\ Running /\ pc = "loop"
    /\ pc' = IF Len(line) < want THEN "locked" ELSE "user"
    /\ UNCHANGED <<terminalVars, ahciVars, load, out, want, line, calls, hung, typed, start>>

(* One byte is taken, the lock released, and the byte handled.             *)
Edited(l, c) == IF c # Bs THEN Append(l, c) ELSE IF l = <<>> THEN l ELSE Front(l)
ReadByte ==
    /\ Running /\ pc = "locked"
    /\ buffer' = Pop(buffer)
    /\ IF buffer = <<>> THEN pc' = "block" /\ UNCHANGED line
       ELSE /\ line' = Edited(line, Head(buffer))
            /\ pc' = IF Head(buffer) = Nl THEN "user" ELSE "loop"
    /\ UNCHANGED <<tty, ahciVars, load, out, want, calls, hung, typed, start>>

(* block_current_process, sti and hlt.                                     *)
Block ==
    /\ Running /\ pc = "block"
    /\ pc' = "hlt"
    /\ UNCHANGED <<terminalVars, ahciVars, load, out, want, line, calls, hung, typed, start>>

(* A transfer for a file system.  Each write has a value of its own.       *)
Transfer ==
    /\ Enter /\ \E move \in load.moves : Begin(move, calls + 1)
    /\ UNCHANGED <<terminalVars, load, pc, out, want, line, hung, typed, start>>

DiskStep ==
    /\ Running
    /\ NextChunk \/ Finish \/ send_command \/ wait_for_completion
    /\ UNCHANGED <<terminalVars, procVars>>

-----------------------------------------------------------------------------
(* Interrupts.  Each ends a hlt.                                           *)

StaysBlocked == UNCHANGED pc            \* mutant: the wake-up is lost
Resumed == pc' = IF pc = "hlt" THEN "loop" ELSE pc

(* The timer: the cursor blinks.                                           *)
Tick ==
    /\ Running
    /\ tty' = update_cursor(tty, pc = "draw")
    /\ Resumed /\ Awake
    /\ UNCHANGED <<buffer, bootVars, disk, portVars, memory, free, cursor, last, may, load, out, want,
                   line, calls, hung, typed, start>>

(* The keyboard: the handler takes the lock with interrupts off, and waits *)
(* for ever if it interrupted the process that holds it.                   *)
Key ==
    /\ Running /\ Len(typed) < load.typing
    /\ IF pc = "locked"
       THEN /\ hung' = TRUE
            /\ UNCHANGED <<terminalVars, pc, xfer, typed>>
       ELSE /\ \E c \in load.keys : handle_scancode(c, Drawing) /\ typed' = Append(typed, c)
            /\ Resumed /\ Awake
            /\ UNCHANGED hung
    /\ UNCHANGED <<bootVars, disk, portVars, memory, free, cursor, last, may, load, out, want, line,
                   calls, start>>

(* The controller, and the driver when it looks for the drive.             *)
Controller == HbaCompletes \/ HbaFails
Hardware == (InitPort \/ Controller) /\ UNCHANGED <<terminalVars, procVars>>

Stopped == hung /\ UNCHANGED devVars

DevicesNext ==
    \/ Write \/ PrintByte \/ ByteDone \/ Read \/ ReadLoop \/ ReadByte \/ Block \/ Transfer \/ DiskStep
    \/ Tick \/ Key \/ Hardware \/ Stopped

(* The process in a call goes on whenever it can, and the timer ticks.     *)
(* Nothing is assumed of the controller.                                   *)
DevicesSpec ==
    /\ DevicesInit /\ [][DevicesNext]_devVars
    /\ WF_devVars(PrintByte \/ ByteDone \/ ReadLoop \/ ReadByte \/ Block \/ DiskStep)
    /\ WF_devVars(Tick)

-----------------------------------------------------------------------------
(* Properties.                                                             *)

(* Every key is delivered once and in order: the keys not taken yet are    *)
(* those in the buffer, and what a read has is what was taken since it     *)
(* began, each backspace taking one byte back; it ends at a newline or     *)
(* when it is full.                                                        *)
LineOf(keys, from, to) ==
    LET after[n \in from .. to] == IF n = from THEN <<>> ELSE Edited(after[n - 1], keys[n])
    IN  after[to]
LineDelivered ==
    /\ Taken >= start /\ buffer = SubSeq(typed, Taken + 1, Len(typed))
    /\ pc \in {"loop", "locked", "block", "hlt"} =>
         /\ line = LineOf(typed, start, Taken)
         /\ Len(line) <= want /\ ~Contains(line, Nl)

(* A call returns, unless the keyboard's lock has stopped the machine: a   *)
(* print always, a transfer whatever the controller does (it times out)    *)
(* while there is memory, and a read from stdin once a newline is in the   *)
(* buffer.                                                                 *)
CallsReturn ==
    /\ xfer # NoXfer ~> xfer = NoXfer \/ hung \/ free = {}
    /\ pc \in {"print", "draw", "parse"} ~> pc = "user" \/ hung
    /\ pc # "user" /\ Contains(buffer, Nl) ~> pc = "user" \/ hung
=============================================================================
