----------------------------- MODULE Processes -----------------------------
(***************************************************************************)
(* The process table of the kernel, the preemptive scheduler and the       *)
(* system calls that create, end, replace and reap processes.              *)
(*                                                                         *)
(* Sources: zenos-kernel/src/process/mod.rs, process/scheduler/mod.rs,     *)
(* syscall/{mod,fork,exit,wait,exec}.rs, interrupts/mod.rs, percpu.rs.     *)
(*                                                                         *)
(* PROCESSES is a heapless::Vec of capacity 256: an array of slots and a   *)
(* length.  The per-CPU field curr_proc is a raw pointer into that array,  *)
(* so the model keeps the array itself (slots beyond the length included)  *)
(* and represents the pointer by a slot number.                            *)
(*                                                                         *)
(* A system call that works on the table holds the PROCESSES lock, and the *)
(* timer tick gives up when try_lock fails, so each of them is one action. *)
(* Interrupts stay enabled inside a system call: a call that does not hold *)
(* the lock (mode "kernel" below) can be interrupted and rescheduled.      *)
(***************************************************************************)
EXTENDS Integers, FiniteSetsExt

CONSTANTS
    MaxProcs,      \* capacity of PROCESSES (256 in the code)
    MaxPid,        \* bound: fork is not called once NEXT_PID exceeds it
    Codes,         \* exit codes seen as i64; -1 is u64::MAX
    None,          \* exit_code of a process that has not ended
    WaitArgs       \* what programs pass to waitpid: "any" is -1 only,
                   \* "child" also their children's pids, "pid" any pid

ASSUME MaxProcsAssumption == MaxProcs \in Nat /\ MaxProcs >= 2
ASSUME MaxPidAssumption == MaxPid \in Nat
ASSUME CodesAssumption == Codes \subseteq Int /\ -1 \in Codes
ASSUME NoneAssumption == None \notin Codes
ASSUME WaitArgsAssumption == WaitArgs \in {"any", "child", "pid"}

VARIABLES
    slots,        \* storage of PROCESSES
    len,          \* length of PROCESSES
    currProc,     \* percpu.curr_proc: the slot the raw pointer designates
    currentPid,   \* Scheduler.current_pid, mirrored in percpu.curr_pid
    nextPid,      \* NEXT_PID
    cpu,          \* the context the CPU executes
    stdinBlocked, \* STDIN_BLOCKED, the flag a Blocked status refers to
    rax,          \* who was last given the result of a waitpid, and which
    machine,      \* "up", or "panic", or "undefined" once a lost stack is resumed
    staleUse      \* history: a stale curr_proc has been dereferenced

vars == <<slots, len, currProc, currentPid, nextPid, cpu, stdinBlocked, rax,
          machine, staleUse>>

-----------------------------------------------------------------------------
(* Data.                                                                   *)

Idle == 0
InitPid == 1
DefaultPriority == 15
LowestPriority == 255

Slots == 1 .. MaxProcs
Pids == Nat

(* Modes of a context.  "user": ring 3.  "kernel": inside a system call    *)
(* that holds no table lock, on the one system call stack.  "hlt": the     *)
(* sti/hlt loop of schedule_next, which never returns.  "fault": ring 3,   *)
(* about to execute the faulting instruction again.  "idle": idle_loop.    *)
(* "zero": ProcessState::default().  "lost": was "kernel" until another    *)
(* system call wrote over the stack it needs.                              *)
Modes == {"user", "kernel", "hlt", "fault", "idle", "zero", "lost"}
Contexts == [mode : Modes, of : Pids]
Context(m, p) == [mode |-> m, of |-> p]
ZeroContext == Context("zero", Idle)

Statuses == {"Ready", "Running", "Blocked", "WaitingFor", "Exited"}

Processes == [pid : Pids, parent : Pids, status : Statuses, target : Pids,
              exit : Codes \cup {None}, prio : 0 .. LowestPriority,
              ctx : Contexts]

Live == 1 .. len
IndexesOf(s, p) == {i \in Live : s[i].pid = p}

(* create_idle_task and init_process, as kmain leaves them: init prepared  *)
(* and entered, idle ready at index 0 of the vector.                       *)
IdleProcess ==
    [pid |-> Idle, parent |-> Idle, status |-> "Ready", target |-> 0,
     exit |-> None, prio |-> LowestPriority, ctx |-> Context("idle", Idle)]

InitProcess ==
    [pid |-> InitPid, parent |-> Idle, status |-> "Running", target |-> 0,
     exit |-> None, prio |-> DefaultPriority, ctx |-> ZeroContext]

(* Storage that was never written; no pointer ever designates it.          *)
Unwritten == [IdleProcess EXCEPT !.status = "Exited"]

Init ==
    /\ slots = [i \in Slots |-> CASE i = 1 -> IdleProcess
                                  [] i = 2 -> InitProcess
                                  [] OTHER -> Unwritten]
    /\ len = 2
    /\ currProc = 2
    /\ currentPid = InitPid
    /\ nextPid = 2
    /\ cpu = Context("user", InitPid)
    /\ stdinBlocked = FALSE
    /\ rax = [pid |-> Idle, val |-> None]
    /\ machine = "up"
    /\ staleUse = FALSE

-----------------------------------------------------------------------------
(* heapless::Vec: remove closes the gap, swap_remove moves the last        *)
(* element into it; neither clears the slot that leaves the vector.        *)

RemoveEarly(s, k) ==                   \* mutant: closes the gap one too early
    [i \in Slots |-> IF k - 1 <= i /\ i < len THEN s[i + 1] ELSE s[i]]
SwapRemoveShort(s, k) ==               \* mutant: takes the last element but one
    [s EXCEPT ![k] = s[len - 1]]

Remove(s, k) == [i \in Slots |-> IF k <= i /\ i < len THEN s[i + 1] ELSE s[i]]
SwapRemove(s, k) == [s EXCEPT ![k] = s[len]]

(* The pointer is sound when it designates the live slot of current_pid.   *)
PointerSound == currProc \in Live /\ slots[currProc].pid = currentPid

-----------------------------------------------------------------------------
(* Scheduler::schedule.                                                    *)

(* Save the context of the current process, looked up by pid.  For a       *)
(* Blocked process too, save_context makes the status Ready.               *)
SaveCurrentRunning(s, ctx) ==          \* mutant: the status stays Running
    [i \in Slots |->
        IF i \in Live /\ s[i].pid = currentPid /\ s[i].status = "Running"
        THEN [s[i] EXCEPT !.ctx = ctx]
        ELSE s[i]]
SaveCurrent(s, ctx) ==
    [i \in Slots |->
        IF /\ i \in Live
           /\ s[i].pid = currentPid
           /\ s[i].status \in {"Running", "Blocked"}
        THEN [s[i] EXCEPT !.ctx = ctx, !.status = "Ready"]
        ELSE s[i]]

(* A waiter whose target has ended, or is not in the table any more.       *)
Wakeable(s, i) ==
    /\ s[i].status = "WaitingFor"
    /\ \A j \in IndexesOf(s, s[i].target) : s[j].exit # None

EligibleIgnoringWaiters(s, i) ==       \* mutant: nobody who waits is woken
    \/ s[i].status = "Blocked" /\ ~stdinBlocked
    \/ s[i].status = "Ready"
Eligible(s, i) ==
    \/ Wakeable(s, i)
    \/ s[i].status = "Blocked" /\ ~stdinBlocked
    \/ s[i].status = "Ready"

(* The scan keeps a candidate only if its priority is strictly better than *)
(* that of every candidate before it; the last one kept is the choice.     *)
ImprovesOrEquals(s, i) ==              \* mutant: a later equal priority wins
    /\ Eligible(s, i)
    /\ s[i].prio < LowestPriority
    /\ \A j \in Live : j < i /\ Eligible(s, j) => s[i].prio <= s[j].prio
Improves(s, i) ==
    /\ Eligible(s, i)
    /\ s[i].prio < LowestPriority
    /\ \A j \in Live : j < i /\ Eligible(s, j) => s[i].prio < s[j].prio

Kept(s) == {i \in Live : Improves(s, i)}
Woken(s) == {i \in Kept(s) : Wakeable(s, i)}

(* wake_idx and reap_idx are those of the last waiter kept by the scan.    *)
ReapIndexes(s) ==
    IF Woken(s) = {} THEN {} ELSE IndexesOf(s, s[Max(Woken(s))].target)

WakeCode(s) ==
    IF ReapIndexes(s) = {} THEN -1 ELSE s[Min(ReapIndexes(s))].exit

(* Resuming a zeroed context panics (the assertion on the interrupt flag   *)
(* in the tick, a general protection fault after an exit).                 *)
Resume(ctx) ==
    /\ cpu' = ctx
    /\ machine' = CASE ctx.mode = "zero" -> "panic"
                    [] ctx.mode = "lost" -> "undefined"
                    [] OTHER -> "up"

(* No candidate: idle_loop runs and the scheduler's fields stay as they    *)
(* were.  Otherwise the pointer is taken before the zombie is removed.     *)
Schedule(t, ctx) ==
    LET s == SaveCurrent(t, ctx)
        best == Max(Kept(s))
        chosen == [s EXCEPT ![best].status = "Running", ![best].target = 0]
        reap == ReapIndexes(s)
    IN  IF Kept(s) = {}
        THEN /\ slots' = s
             /\ cpu' = Context("idle", Idle)
             /\ UNCHANGED <<len, currProc, currentPid, rax, machine>>
        ELSE /\ slots' = IF reap = {} THEN chosen ELSE Remove(chosen, Min(reap))
             /\ len' = IF reap = {} THEN len ELSE len - 1
             /\ currProc' = best
             /\ currentPid' = s[best].pid
             /\ rax' = IF Woken(s) = {} THEN rax
                       ELSE [pid |-> s[best].pid, val |-> WakeCode(s)]
             /\ Resume(s[best].ctx)

(* The timer interrupt: every tick reschedules, since quantum >= time.     *)
Tick ==
    /\ machine = "up"
    /\ Schedule(slots, cpu)
    /\ UNCHANGED <<nextPid, stdinBlocked, staleUse>>

-----------------------------------------------------------------------------
(* System calls.                                                           *)

(* syscall_entry switches to the one kernel stack, over whatever frames an *)
(* interrupted call left there, and syscall_main stores the user registers *)
(* through the curr_proc pointer.                                          *)
AtEntry ==
    [i \in Slots |->
        IF i = currProc THEN [slots[i] EXCEPT !.ctx = Context("user", cpu.of)]
        ELSE IF slots[i].ctx.mode = "kernel"
        THEN [slots[i] EXCEPT !.ctx.mode = "lost"]
        ELSE slots[i]]

SyscallEntry ==
    /\ machine = "up"
    /\ cpu.mode = "user"
    /\ staleUse' = (staleUse \/ ~PointerSound)

(* fork: the child is a copy of the process behind the pointer.  The pid   *)
(* is taken before the push, which fails when the table is full.           *)
ChildWithParentContext ==              \* mutant: the saved state is not the child's
    [pid |-> nextPid, parent |-> slots[currProc].pid, status |-> "Ready",
     target |-> 0, exit |-> None, prio |-> slots[currProc].prio,
     ctx |-> slots[currProc].ctx]
Child ==
    [pid |-> nextPid, parent |-> slots[currProc].pid, status |-> "Ready",
     target |-> 0, exit |-> None, prio |-> slots[currProc].prio,
     ctx |-> Context("user", nextPid)]

HasRoom == len < MaxProcs

Fork ==
    /\ SyscallEntry
    /\ nextPid <= MaxPid
    /\ nextPid' = nextPid + 1
    /\ IF HasRoom
       THEN /\ slots' = [AtEntry EXCEPT ![len + 1] = Child]
            /\ len' = len + 1
       ELSE /\ slots' = AtEntry
            /\ UNCHANGED len
    /\ UNCHANGED <<currProc, currentPid, cpu, stdinBlocked, rax, machine>>

(* The process behind the pointer becomes a zombie.                        *)
MarkExitedNoCode(s, code) ==           \* mutant: exit_code is not set
    [s EXCEPT ![currProc].status = "Exited", ![currProc].target = 0]
MarkExited(s, code) ==
    [s EXCEPT ![currProc].status = "Exited", ![currProc].target = 0,
              ![currProc].exit = code]

(* Its children are given to init.                                         *)
ReparentLast(s) ==                     \* mutant: only the last entry is adopted
    [i \in Slots |-> IF i = len /\ s[i].parent = s[currProc].pid
                     THEN [s[i] EXCEPT !.parent = InitPid]
                     ELSE s[i]]
ReparentAll(s) ==                      \* mutant: everybody is given to init
    [i \in Slots |-> IF i \in Live /\ s[i].pid > InitPid
                     THEN [s[i] EXCEPT !.parent = InitPid]
                     ELSE s[i]]
Reparent(s) ==
    [i \in Slots |-> IF i \in Live /\ s[i].parent = s[currProc].pid
                     THEN [s[i] EXCEPT !.parent = InitPid]
                     ELSE s[i]]

(* exit: init may not end; anyone else is left as a zombie and the next    *)
(* process is switched to at once, with a zeroed context to be saved.      *)
Exit ==
    /\ SyscallEntry
    /\ \E code \in Codes :
         IF slots[currProc].pid = InitPid
         THEN /\ slots' = MarkExited(AtEntry, code)
              /\ machine' = "panic"
              /\ UNCHANGED <<len, currProc, currentPid, cpu, rax>>
         ELSE Schedule(Reparent(MarkExited(AtEntry, code)), ZeroContext)
    /\ UNCHANGED <<nextPid, stdinBlocked>>

(* waitpid, first half: the zombie to reap now, if any.                    *)
Children(p) == {i \in Live : slots[i].parent = p}
Zombies(is) == {i \in is : slots[i].exit # None}

WaitTargets ==
    {-1} \cup CASE WaitArgs = "any" -> {}
                [] WaitArgs = "child" -> {slots[i].pid : i \in Children(currentPid)}
                [] WaitArgs = "pid" -> 0 .. MaxPid

ReapNowReadLate(k) ==                  \* mutant: reads exit_code after the swap
    /\ slots' = SwapRemove(AtEntry, k)
    /\ len' = len - 1
    /\ rax' = [pid |-> currentPid, val |-> SwapRemove(slots, k)[k].exit]
    /\ UNCHANGED cpu
ReapNow(k) ==
    /\ slots' = SwapRemove(AtEntry, k)
    /\ len' = len - 1
    /\ rax' = [pid |-> currentPid, val |-> slots[k].exit]
    /\ UNCHANGED cpu

(* waitpid, second half: wait for one process, reached with -1 replaced by *)
(* the pid of the first child.  The caller parks in schedule_next.         *)
WaitFor(target) ==
    LET found == IndexesOf(slots, target)
    IN  \/ /\ Zombies(found) # {}
           /\ ReapNow(Min(Zombies(found)))
        \/ /\ found # {} /\ Zombies(found) = {}
           /\ slots' = [AtEntry EXCEPT ![currProc].status = "WaitingFor",
                                       ![currProc].target = target]
           /\ cpu' = [cpu EXCEPT !.mode = "hlt"]
           /\ UNCHANGED <<len, rax>>
        \/ /\ found = {}                                        \* ESRCH
           /\ slots' = AtEntry
           /\ UNCHANGED <<len, cpu, rax>>

WaitPid ==
    /\ SyscallEntry
    /\ \E target \in WaitTargets :
         LET kids == Children(currentPid)
         IN  IF target # -1 THEN WaitFor(target)
             ELSE \/ Zombies(kids) # {} /\ ReapNow(Min(Zombies(kids)))
                  \/ /\ kids # {} /\ Zombies(kids) = {}
                     /\ WaitFor(slots[Min(kids)].pid)
                  \/ /\ kids = {}                               \* ECHILD
                     /\ slots' = AtEntry
                     /\ UNCHANGED <<len, cpu, rax>>
    /\ UNCHANGED <<currProc, currentPid, nextPid, stdinBlocked, machine>>

(* execve: the image behind the pointer is replaced, its saved registers   *)
(* are zeroed, and it is entered as the current process.                   *)
Exec ==
    /\ SyscallEntry
    /\ slots' = [AtEntry EXCEPT ![currProc].status = "Running",
                                ![currProc].target = 0,
                                ![currProc].ctx = ZeroContext]
    /\ currentPid' = slots[currProc].pid
    /\ cpu' = Context("user", slots[currProc].pid)
    /\ UNCHANGED <<len, currProc, nextPid, stdinBlocked, rax, machine>>

(* Any call that works outside the table lock: it can be interrupted.      *)
EnterKernel ==
    /\ SyscallEntry
    /\ slots' = AtEntry
    /\ cpu' = [cpu EXCEPT !.mode = "kernel"]
    /\ UNCHANGED <<len, currProc, currentPid, nextPid, stdinBlocked, rax, machine>>

LeaveKernel ==
    /\ machine = "up"
    /\ cpu.mode = "kernel"
    /\ cpu' = [cpu EXCEPT !.mode = "user"]
    /\ UNCHANGED <<slots, len, currProc, currentPid, nextPid, stdinBlocked, rax,
                   machine, staleUse>>

(* Stdin::read: the flag is set, no input is found, block_current_process. *)
(* A key between the first and the last of these clears the flag again.    *)
BlockOnStdin ==
    /\ machine = "up"
    /\ cpu.mode = "kernel"
    /\ stdinBlocked' \in BOOLEAN
    /\ slots' = [slots EXCEPT ![currProc].status = "Blocked",
                              ![currProc].target = 0]
    /\ staleUse' = (staleUse \/ ~PointerSound)
    /\ UNCHANGED <<len, currProc, currentPid, nextPid, cpu, rax, machine>>

-----------------------------------------------------------------------------
(* Interrupts other than the timer.                                        *)

(* A page fault in user mode that copy-on-write does not resolve.  The     *)
(* handler returns to the faulting instruction until the next tick.        *)
PageFault ==
    /\ machine = "up"
    /\ cpu.mode \in {"user", "fault"}
    /\ slots' = Reparent(MarkExited(slots, -1))
    /\ cpu' = [cpu EXCEPT !.mode = "fault"]
    /\ machine' = IF currentPid = InitPid THEN "panic" ELSE "up"
    /\ staleUse' = (staleUse \/ ~PointerSound)
    /\ UNCHANGED <<len, currProc, currentPid, nextPid, stdinBlocked, rax>>

(* A key, or another reader that returns: the flag is cleared.             *)
Key ==
    /\ machine = "up"
    /\ stdinBlocked' = FALSE
    /\ UNCHANGED <<slots, len, currProc, currentPid, nextPid, cpu, rax, machine,
                   staleUse>>

(* A machine that panicked, or lost a stack, does nothing more.            *)
Stopped == machine # "up" /\ UNCHANGED vars

Next ==
    \/ Tick \/ Fork \/ Exit \/ WaitPid \/ Exec
    \/ EnterKernel \/ LeaveKernel \/ BlockOnStdin
    \/ PageFault \/ Key \/ Stopped

Spec == Init /\ [][Next]_vars

(* The APIC timer fires for ever, whatever the processes do.               *)
FairSpec == Spec /\ WF_vars(Tick)

-----------------------------------------------------------------------------
(* Properties.                                                             *)

(* Every field keeps its type; the table never loses idle and init and     *)
(* never outgrows its capacity.                                            *)
TypeOK ==
    /\ slots \in [Slots -> Processes]
    /\ len \in 2 .. MaxProcs
    /\ currProc \in Slots
    /\ currentPid \in Pids
    /\ nextPid \in Nat \ {0, 1}
    /\ cpu \in Contexts
    /\ stdinBlocked \in BOOLEAN
    /\ rax \in [pid : Pids, val : Codes \cup {None}]
    /\ machine \in {"up", "panic", "undefined"}
    /\ staleUse \in BOOLEAN

(* No two processes in the table share a pid, even after the vector has    *)
(* been shifted and swapped and after forks that found it full.  Every     *)
(* lookup by pid (schedule, waitpid) relies on it.                         *)
UniquePids ==
    \A i, j \in Live : slots[i].pid = slots[j].pid => i = j

(* "kidle is at index 0, init is at index 1" (main.rs) stays true: no      *)
(* reaping moves or removes either of them, and neither is a zombie while  *)
(* the machine is up.                                                      *)
KernelSlotsPinned ==
    /\ slots[1].pid = Idle /\ slots[1].exit = None
    /\ slots[2].pid = InitPid
    /\ machine = "up" => slots[2].exit = None

(* Until a stale pointer is used, only the current process is marked       *)
(* Running, and the registers the CPU holds are those of that process.     *)
OneRunning ==
    ~staleUse =>
        /\ \A i \in Live : slots[i].status = "Running" => slots[i].pid = currentPid
        /\ cpu.mode # "idle" => cpu.of = currentPid

(* The registers saved for a process are its own: no save through the      *)
(* curr_proc pointer and no fork gives it those of another one.            *)
OwnContext ==
    ~staleUse => \A i \in Live : slots[i].exit = None /\ slots[i].pid # currentPid
                                    => slots[i].ctx.of = slots[i].pid
                                       /\ slots[i].ctx.mode # "zero"

(* A process is Exited exactly when it has an exit code: what waitpid      *)
(* tests and what the scheduler tests never disagree.                      *)
ZombieHasCode ==
    ~staleUse => \A i \in Live : slots[i].status = "Exited" <=> slots[i].exit # None

(* Every process other than idle and init has a parent in the table that   *)
(* has not ended: exit and the page fault handler leave no orphan.         *)
NoOrphans ==
    machine = "up" /\ ~staleUse =>
        \A i \in Live : slots[i].pid > InitPid =>
            \E j \in Live : slots[j].pid = slots[i].parent /\ slots[j].exit = None

(* When programs wait only for their children, nobody takes the zombie a   *)
(* process waits for: the target stays in the table, as its child.         *)
TargetKept ==
    WaitArgs # "pid" /\ machine = "up" /\ ~staleUse =>
        \A i \in Live : slots[i].status = "WaitingFor" =>
            \E j \in Live : slots[j].pid = slots[i].target
                            /\ slots[j].parent = slots[i].pid

(* When programs wait only for their children, they never all wait: some   *)
(* process can be chosen, so the idle loop is never entered.               *)
NeverAllWaiting ==
    WaitArgs # "pid" /\ machine = "up" /\ ~staleUse =>
        \E i \in Live : /\ slots[i].prio < LowestPriority
                        /\ \/ Eligible(slots, i)
                           \/ slots[i].status \in {"Running", "Blocked"}

(* An entry leaves the table only as a zombie (or in the exit that makes   *)
(* it one), alone, and its exit code goes to the process that now runs:    *)
(* the one that called waitpid, or one that was waiting for this pid.      *)
ReapDelivers ==
    [][\A i \in Live :
         (\A j \in 1 .. len' : slots'[j].pid # slots[i].pid) =>
             /\ len' = len - 1
             /\ rax'.pid = currentPid'
             /\ \/ slots[i].exit = rax'.val
                \/ slots[i].exit = None /\ i = currProc
             /\ \/ currentPid' = currentPid
                \/ \E k \in Live : /\ slots[k].pid = currentPid'
                                   /\ slots[k].status = "WaitingFor"
                                   /\ slots[k].target = slots[i].pid]_vars

(* Once the process init waits for has ended, init runs again: it sits in  *)
(* the lowest slot, so no other process can keep the CPU from it.          *)
InitWoken ==
    slots[2].status = "WaitingFor" /\ Wakeable(slots, 2)
        ~> slots[2].status # "WaitingFor" \/ machine # "up"

-----------------------------------------------------------------------------
(* What the documentation says and the code does not do.                   *)

(* set_current_proc (process/mod.rs): the pointer "must be updated         *)
(* whenever the process is rescheduled or removed", so that it designates  *)
(* the current process.  Reaping moves entries under it.                   *)
CurrProcUpdated == machine = "up" => PointerSound

(* schedule (scheduler/mod.rs) saves a blocked process's context "so they  *)
(* resume correctly when unblocked (e.g., from stdin read inside           *)
(* syscall)".  The frames it needs are on the one system call stack.       *)
ResumesCorrectly == machine # "undefined"

(* README: "Basic round-robin scheduler".  A process that is ready is run  *)
(* eventually, or the machine stops.                                       *)
ReadyIsRun ==
    \A p \in 2 .. MaxPid :
        (\E i \in Live : slots[i].pid = p /\ slots[i].status = "Ready")
            ~> \/ machine # "up"
               \/ \E i \in Live : slots[i].pid = p /\ slots[i].status # "Ready"

(* libc README on wait: "Wait for any child process to terminate."  A      *)
(* parent that waits with -1 can be woken as soon as one child has ended.  *)
AnyChildWakes ==
    WaitArgs = "any" /\ ~staleUse =>
        \A i, j \in Live :
            slots[i].status = "WaitingFor" /\ slots[j].parent = slots[i].pid
                /\ slots[j].exit # None => Wakeable(slots, i)
=============================================================================
