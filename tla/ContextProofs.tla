--------------------------- MODULE ContextProofs ---------------------------
(***************************************************************************)
(* Until a stale pointer is used, the kernel never mixes up the registers  *)
(* of two processes, the process tree stays a tree and the processes never *)
(* all wait for each other: proofs for every table capacity and every kind *)
(* of argument to waitpid.                                                 *)
(***************************************************************************)
EXTENDS ProcessesProofs

(* The saved registers of e can be resumed: they are its own and real.     *)
Resumable(e) ==
    e.ctx.of = e.pid /\ e.ctx.mode # "zero" /\ (e.pid # Idle => e.ctx.mode # "idle")

(* An entry while p is the current pid.  The registers of a process that   *)
(* is running, or blocks inside its call, are in the CPU; those of every   *)
(* other one that has not ended are in the table.                          *)
Coherent(e, p) ==
    /\ e.status = "Running" => e.pid = p
    /\ e.status = "Exited" <=> e.exit # None
    /\ e.exit = None /\ ~(e.pid = p /\ e.status \in {"Running", "Blocked"}) => Resumable(e)

(* The entry of the current process and the mode of the CPU.  A process    *)
(* that executes has not ended; the idle loop runs only when the registers *)
(* of the current process have been saved.                                 *)
Agrees(e, p, m) ==
    e.pid = p => /\ m \in {"user", "kernel"} => e.exit = None
                 /\ m = "idle" => e.status \notin {"Running", "Blocked"}

(* The inductive invariant, for the table t and its length n.              *)
Consistent(t, n, p, c, up) ==
    /\ \A i \in 1 .. n : Coherent(t[i], p)
    /\ up => c.mode # "zero" /\ \A i \in 1 .. n : Agrees(t[i], p, c.mode)
    /\ c.mode # "idle" => c.of = p

CInv ==
    PInv /\ (~staleUse => Consistent(slots, len, currentPid, cpu, machine = "up"))

-----------------------------------------------------------------------------
(* Removing an entry only moves others.                                    *)
LEMMA EntriesKept ==
    ASSUME len \in 2 .. MaxProcs, NEW s \in [Slots -> Processes], NEW k \in 3 .. len
    PROVE  /\ \A i \in 1 .. len - 1 : \E a \in 1 .. len : Remove(s, k)[i] = s[a]
           /\ \A i \in 1 .. len - 1 : \E a \in 1 .. len : SwapRemove(s, k)[i] = s[a]
<1> SUFFICES ASSUME NEW i \in 1 .. len - 1
             PROVE  /\ \E a \in 1 .. len : Remove(s, k)[i] = s[a]
                    /\ \E a \in 1 .. len : SwapRemove(s, k)[i] = s[a]
  OBVIOUS
<1>1. /\ i \in 1 .. len /\ i + 1 \in 1 .. len /\ len \in 1 .. len
      /\ i \in Slots /\ i + 1 \in Slots /\ k \in Slots
  BY MaxProcsAssumption DEF Slots
<1>2. Remove(s, k)[i] = s[i] \/ Remove(s, k)[i] = s[i + 1]
  BY <1>1 DEF Remove
<1>3. SwapRemove(s, k)[i] = s[i] \/ SwapRemove(s, k)[i] = s[len]
  BY <1>1 DEF SwapRemove
<1> QED
  BY <1>1, <1>2, <1>3

LEMMA ConsistentKept ==
    ASSUME NEW n \in Nat, NEW m \in Nat, NEW s, NEW t, NEW p, NEW c, NEW up,
           Consistent(s, n, p, c, up),
           \A i \in 1 .. m : \E a \in 1 .. n : t[i] = s[a]
    PROVE  Consistent(t, m, p, c, up)
  BY DEF Consistent

(* Scheduler::schedule.  c is what the CPU holds, or zeroed registers      *)
(* after an exit, when there is nothing to save.                           *)
LEMMA ScheduleConsistent ==
    ASSUME PInv, NEW t, Table(t, len, nextPid), t[2].exit = None,
           NEW c \in Contexts, Schedule(t, c), machine = "up",
           \A i \in Live : Coherent(t[i], currentPid),
           \A i \in Live : t[i].pid = currentPid /\ t[i].status \in {"Running", "Blocked"}
                             => c.of = currentPid /\ c.mode # "zero" /\ c.mode # "idle"
    PROVE  Consistent(slots', len', currentPid', cpu', machine' = "up")
<1> DEFINE s == SaveCurrent(t, c)
           best == Max(Kept(s))
           chosen == [s EXCEPT ![best].status = "Running", ![best].target = 0]
           reap == ReapIndexes(s)
<1>1. /\ len \in 2 .. MaxProcs /\ len \in Nat
      /\ 1 \in Slots /\ 2 \in Slots /\ Live \subseteq Slots /\ Live = 1 .. len /\ 1 \in Live
      /\ t \in [Slots -> Processes]
      /\ s \in [Slots -> Processes]
  BY MaxProcsAssumption, SaveCurrentFact DEF PInv, TypeOK, Table, Slots, Live
<1>2. ASSUME NEW i \in Live
      PROVE  /\ s[i].status # "Running"
             /\ s[i].status = "Exited" <=> s[i].exit # None
             /\ s[i].exit = None => Resumable(s[i])
             /\ s[i].pid = currentPid => s[i].status \notin {"Running", "Blocked"}
  <2>1. i \in Slots /\ t[i] \in Processes /\ Coherent(t[i], currentPid)
    BY <1>1
  <2>2. CASE t[i].pid = currentPid /\ t[i].status \in {"Running", "Blocked"}
    <3>1. s[i] = [t[i] EXCEPT !.ctx = c, !.status = "Ready"]
      BY <2>1, <2>2 DEF SaveCurrent
    <3>2. /\ s[i].ctx = c /\ s[i].status = "Ready"
          /\ s[i].pid = t[i].pid /\ s[i].exit = t[i].exit
      BY <2>1, <3>1 DEF Processes
    <3>3. c.of = currentPid /\ c.mode # "zero" /\ c.mode # "idle"
      BY <2>2
    <3> QED
      BY <2>1, <2>2, <3>2, <3>3 DEF Resumable, Coherent
  <2>3. CASE ~(t[i].pid = currentPid /\ t[i].status \in {"Running", "Blocked"})
    <3>1. s[i] = t[i]
      BY <2>1, <2>3 DEF SaveCurrent
    <3> QED
      BY <2>1, <2>3, <3>1 DEF Coherent
  <2> QED
    BY <2>2, <2>3
<1>3. Table(s, len, nextPid) /\ s[2].exit = None
  <2>1. SameKeys(t, s) /\ s[1].exit = None /\ s[2].exit = None
    BY <1>1, SaveCurrentFact DEF Table
  <2> QED
    BY <1>1, <2>1, TableKept
<1> HIDE DEF s
<1>4. CASE Kept(s) = {}
  <2>1. /\ slots' = s /\ cpu' = Context("idle", Idle)
        /\ len' = len /\ currentPid' = currentPid
    BY <1>4 DEF Schedule, s
  <2>2. cpu'.mode = "idle"
    BY <2>1 DEF Context
  <2> QED
    BY <1>1, <1>2, <2>1, <2>2 DEF Consistent, Coherent, Agrees
<1>5. CASE Kept(s) # {}
  <2>1. /\ slots' = IF reap = {} THEN chosen ELSE Remove(chosen, Min(reap))
        /\ len' = IF reap = {} THEN len ELSE len - 1
        /\ currentPid' = s[best].pid
        /\ cpu' = s[best].ctx
    BY <1>5 DEF Schedule, Resume, s
  <2>2. best \in Kept(s) /\ best \in Live /\ best \in Slots
    <3>1. Kept(s) \subseteq 1 .. len
      BY <1>1 DEF Kept
    <3>2. best \in Kept(s)
      BY <1>1, <1>5, <3>1, MaxExists
    <3> QED
      BY <1>1, <3>2 DEF Kept
  <2>3. s[best].status # "Exited" /\ s[best].prio < LowestPriority
    BY <2>2 DEF Kept, Improves, Eligible, Wakeable
  <2>4. s[best].exit = None /\ Resumable(s[best])
    BY <1>2, <2>2, <2>3
  <2>5. s[best].pid # Idle
    <3>1. best # 1
      BY <1>3, <2>3 DEF Table, LowestPriority
    <3> QED
      BY <1>1, <1>3, <2>2, <3>1 DEF Table
  <2>6. /\ cpu'.of = s[best].pid /\ cpu'.mode # "zero" /\ cpu'.mode # "idle"
    BY <2>1, <2>4, <2>5 DEF Resumable
  <2>7. /\ chosen \in [Slots -> Processes]
        /\ chosen[best].status = "Running"
        /\ chosen[best].pid = s[best].pid /\ chosen[best].exit = None
        /\ \A i \in Live : i # best => chosen[i] = s[i]
    <3>1. ASSUME NEW r \in Processes
          PROVE  LET q == [[r EXCEPT !.status = "Running"] EXCEPT !.target = 0]
                 IN  /\ q \in Processes /\ q.pid = r.pid /\ q.exit = r.exit
                     /\ q.status = "Running"
      BY DEF Processes, Statuses, Pids
    <3>2. chosen = [s EXCEPT ![best] = [[s[best] EXCEPT !.status = "Running"] EXCEPT !.target = 0]]
      OBVIOUS
    <3>3. s[best] \in Processes
      BY <1>1, <2>2
    <3>4. \E q \in Processes : /\ chosen = [s EXCEPT ![best] = q]
                               /\ q.pid = s[best].pid /\ q.exit = s[best].exit
                               /\ q.status = "Running"
      BY <3>1, <3>2, <3>3
    <3> QED
      BY <1>1, <2>2, <2>4, <3>4
  <2> HIDE DEF chosen
  <2>8. ASSUME NEW i \in Live
        PROVE  Coherent(chosen[i], s[best].pid) /\ Agrees(chosen[i], s[best].pid, cpu'.mode)
    <3>1. CASE i = best
      BY <2>6, <2>7, <3>1 DEF Coherent, Agrees
    <3>2. CASE i # best
      <4>1. chosen[i] = s[i] /\ s[i].pid # s[best].pid
        BY <1>1, <1>3, <2>2, <2>7, <3>2 DEF Table
      <4> QED
        BY <1>2, <4>1 DEF Coherent, Agrees
    <3> QED
      BY <3>1, <3>2
  <2>9. Consistent(chosen, len, s[best].pid, cpu', machine' = "up")
    BY <1>1, <2>6, <2>8 DEF Consistent
  <2>10. /\ reap \subseteq Live
         /\ \A k \in reap : s[k].exit # None
    <3>1. CASE Woken(s) = {}
      BY <3>1 DEF ReapIndexes
    <3>2. CASE Woken(s) # {}
      <4>1. Woken(s) \subseteq 1 .. len
        BY <1>1 DEF Woken, Kept
      <4>2. Max(Woken(s)) \in Woken(s)
        BY <1>1, <3>2, <4>1, MaxExists
      <4>3. Wakeable(s, Max(Woken(s)))
        BY <4>2 DEF Woken
      <4> QED
        BY <3>2, <4>3 DEF ReapIndexes, Wakeable, IndexesOf
    <3> QED
      BY <3>1, <3>2
  <2> HIDE DEF reap, best
  <2>11. CASE reap = {}
    BY <2>1, <2>9, <2>11
  <2>12. CASE reap # {}
    <3>1. Min(reap) \in reap
      BY <1>1, <2>10, <2>12, MinExists
    <3>2. Min(reap) # 1 /\ Min(reap) # 2
      BY <1>3, <2>10, <3>1 DEF Table
    <3>3. Min(reap) \in 3 .. len /\ len - 1 \in Nat
      <4>1. Min(reap) \in 1 .. len
        BY <1>1, <2>10, <3>1
      <4>2. \A k \in 1 .. len : k # 1 /\ k # 2 => k \in 3 .. len
        BY <1>1
      <4> QED
        BY <1>1, <3>2, <4>1, <4>2
    <3>4. slots' = Remove(chosen, Min(reap)) /\ len' = len - 1
      BY <2>1, <2>12
    <3>5. \A i \in 1 .. len - 1 : \E a \in 1 .. len : slots'[i] = chosen[a]
      BY <1>1, <2>7, <3>3, <3>4, EntriesKept
    <3>6. Consistent(slots', len - 1, s[best].pid, cpu', machine' = "up")
      BY <1>1, <2>9, <3>3, <3>5, ConsistentKept
    <3> QED
      BY <2>1, <3>4, <3>6
  <2> QED
    BY <2>11, <2>12
<1> QED
  BY <1>4, <1>5

-----------------------------------------------------------------------------
(* What a system call finds and stores at its entry.                       *)
LEMMA EntryConsistent ==
    ASSUME CInv, SyscallEntry, ~staleUse'
    PROVE  /\ ~staleUse
           /\ currProc \in Live /\ cpu.of = currentPid /\ cpu.mode = "user"
           /\ AtEntry[currProc].pid = currentPid
           /\ AtEntry[currProc].exit = None
           /\ AtEntry[currProc].status # "Exited"
           /\ AtEntry[currProc].ctx = Context("user", currentPid)
           /\ slots[currProc].pid = currentPid
           /\ \A i \in Live : Coherent(AtEntry[i], currentPid)
           /\ \A i \in Live : i # currProc => AtEntry[i].pid # currentPid
<1>1. /\ PInv /\ slots \in [Slots -> Processes] /\ cpu \in Contexts
      /\ machine = "up" /\ cpu.mode = "user"
      /\ Live \subseteq Slots /\ Live = 1 .. len
      /\ SameKeys(slots, AtEntry)
      /\ \A i \in Slots : AtEntry[i].exit = slots[i].exit
  BY EntryFact DEF CInv, PInv, TypeOK, SyscallEntry
<1>2. ~staleUse /\ PointerSound
  BY <1>1 DEF SyscallEntry, PInv, TypeOK
<1>3. /\ \A i \in Live : Coherent(slots[i], currentPid)
      /\ \A i \in Live : Agrees(slots[i], currentPid, "user")
      /\ cpu.of = currentPid
  BY <1>1, <1>2 DEF CInv, Consistent
<1>4. currProc \in Live /\ slots[currProc].pid = currentPid /\ slots[currProc].exit = None
  BY <1>2, <1>3 DEF PointerSound, Agrees
<1>5. \A i \in Live : i # currProc => slots[i].pid # currentPid
  BY <1>1, <1>4 DEF PInv, Table
<1>6. /\ AtEntry[currProc].ctx = Context("user", currentPid)
      /\ AtEntry[currProc].status = slots[currProc].status
  <2>1. AtEntry[currProc] = [slots[currProc] EXCEPT !.ctx = Context("user", cpu.of)]
    BY <1>1, <1>4 DEF AtEntry
  <2>2. slots[currProc] \in Processes
    BY <1>1, <1>4
  <2> QED
    BY <1>3, <2>1, <2>2 DEF Processes
<1>7. ASSUME NEW i \in Live, i # currProc
      PROVE  Coherent(AtEntry[i], currentPid)
  <2>1. slots[i] \in Processes /\ i \in Slots /\ Coherent(slots[i], currentPid)
    BY <1>1, <1>3
  <2>2. CASE slots[i].ctx.mode = "kernel"
    <3>1. AtEntry[i] = [slots[i] EXCEPT !.ctx.mode = "lost"]
      BY <1>7, <2>1, <2>2 DEF AtEntry
    <3>2. /\ AtEntry[i].pid = slots[i].pid /\ AtEntry[i].status = slots[i].status
          /\ AtEntry[i].exit = slots[i].exit
          /\ AtEntry[i].ctx.of = slots[i].ctx.of /\ AtEntry[i].ctx.mode = "lost"
      BY <2>1, <3>1 DEF Processes, Contexts
    <3> QED
      BY <2>1, <3>2 DEF Coherent, Resumable
  <2>3. CASE slots[i].ctx.mode # "kernel"
    BY <1>7, <2>1, <2>3 DEF AtEntry
  <2> QED
    BY <2>2, <2>3
<1>8. AtEntry[currProc].pid = currentPid /\ AtEntry[currProc].exit = None
  BY <1>1, <1>4 DEF SameKeys
<1>9. Coherent(AtEntry[currProc], currentPid) /\ AtEntry[currProc].status # "Exited"
  <2>1. Coherent(slots[currProc], currentPid)
    BY <1>3, <1>4
  <2>2. Resumable(AtEntry[currProc])
    BY <1>6, <1>8 DEF Resumable, Context
  <2> QED
    BY <1>4, <1>6, <1>8, <2>1, <2>2 DEF Coherent
<1> QED
  BY <1>1, <1>2, <1>3, <1>4, <1>5, <1>6, <1>7, <1>8, <1>9 DEF SameKeys

(* A call that stores the registers, then changes the caller's entry only  *)
(* (to q), and lets the caller go on with the registers c.                 *)
LEMMA CallerChanged ==
    ASSUME CInv, SyscallEntry, ~staleUse', NEW q, NEW c,
           \A i \in Live : i # currProc => slots'[i] = AtEntry[i],
           slots'[currProc] = q, q.pid = currentPid,
           Coherent(q, currentPid), Agrees(q, currentPid, c.mode),
           c.mode # "zero", c.of = currentPid
    PROVE  Consistent(slots', len, currentPid, c, TRUE)
<1>1. \A i \in Live : Coherent(slots'[i], currentPid) /\ Agrees(slots'[i], currentPid, c.mode)
  BY EntryConsistent DEF Agrees
<1> QED
  BY <1>1 DEF Consistent, Live

-----------------------------------------------------------------------------
(* Every action keeps the table and the CPU consistent.                    *)

LEMMA InitConsistent == Init => CInv
<1> SUFFICES ASSUME Init PROVE CInv
  OBVIOUS
<1>1. PInv
  BY InitEstablishes
<1>2. 1 \in Slots /\ 2 \in Slots /\ \A i \in 1 .. 2 : i = 1 \/ i = 2
  BY MaxProcsAssumption DEF Slots
<1>3. /\ slots[1] = IdleProcess /\ slots[2] = InitProcess
      /\ len = 2 /\ currentPid = InitPid /\ cpu = Context("user", InitPid)
  BY <1>2 DEF Init
<1>4. /\ Coherent(IdleProcess, InitPid) /\ Agrees(IdleProcess, InitPid, "user")
      /\ Coherent(InitProcess, InitPid) /\ Agrees(InitProcess, InitPid, "user")
  BY DEF Coherent, Agrees, Resumable, IdleProcess, InitProcess, Context, Idle, InitPid
<1>5. cpu.mode = "user" /\ cpu.of = InitPid
  BY <1>3 DEF Context
<1> QED
  BY <1>1, <1>2, <1>3, <1>4, <1>5 DEF CInv, Consistent

LEMMA TickConsistent ==
    ASSUME CInv, Tick, ~staleUse'
    PROVE  Consistent(slots', len', currentPid', cpu', machine' = "up")
<1>1. /\ PInv /\ machine = "up" /\ Schedule(slots, cpu) /\ ~staleUse
      /\ cpu \in Contexts /\ Table(slots, len, nextPid) /\ slots[2].exit = None
      /\ Live = 1 .. len
  BY DEF CInv, PInv, TypeOK, Tick, Live
<1>2. Consistent(slots, len, currentPid, cpu, TRUE)
  BY <1>1 DEF CInv
<1>3. \A i \in Live : Coherent(slots[i], currentPid)
  BY <1>1, <1>2 DEF Consistent
<1>4. \A i \in Live : slots[i].pid = currentPid /\ slots[i].status \in {"Running", "Blocked"}
                        => cpu.of = currentPid /\ cpu.mode # "zero" /\ cpu.mode # "idle"
  BY <1>1, <1>2 DEF Consistent, Agrees
<1> QED
  BY <1>1, <1>3, <1>4, ScheduleConsistent

(* fork: the child's registers are its own from the start.                 *)
LEMMA ForkConsistent ==
    ASSUME CInv, Fork, ~staleUse'
    PROVE  Consistent(slots', len', currentPid', cpu', machine' = "up")
<1>1. /\ PInv /\ SyscallEntry /\ nextPid \in Nat \ {0, 1}
      /\ UNCHANGED <<currProc, currentPid, cpu, machine>>
  BY DEF CInv, PInv, TypeOK, Fork
<1>2. /\ len \in 2 .. MaxProcs /\ Live = 1 .. len
      /\ AtEntry \in [Slots -> Processes] /\ machine = "up"
  BY <1>1, EntryFact
<1>3. /\ \A i \in Live : Coherent(AtEntry[i], currentPid) /\ Agrees(AtEntry[i], currentPid, cpu.mode)
      /\ cpu.mode = "user" /\ cpu.of = currentPid
  BY <1>1, EntryConsistent DEF Agrees
<1>4. CASE HasRoom
  <2>1. slots' = [AtEntry EXCEPT ![len + 1] = Child] /\ len' = len + 1
    BY <1>4 DEF Fork
  <2>2. /\ len + 1 \in Slots /\ \A i \in 1 .. len + 1 : i \in 1 .. len \/ i = len + 1
        /\ \A i \in 1 .. len : i # len + 1
    BY <1>2, <1>4, MaxProcsAssumption DEF HasRoom, Slots
  <2>3. slots'[len + 1] = Child /\ \A i \in 1 .. len : slots'[i] = AtEntry[i]
    <3>1. \A i \in 1 .. len : i \in Slots
      BY <1>2, MaxProcsAssumption DEF Slots
    <3> QED
      BY <1>2, <2>1, <2>2, <3>1
  <2>4. /\ Child.pid = nextPid /\ Child.status = "Ready" /\ Child.exit = None
        /\ Child.ctx.of = nextPid /\ Child.ctx.mode = "user"
    BY DEF Child, Context
  <2>5. Coherent(Child, currentPid) /\ Agrees(Child, currentPid, cpu.mode)
    BY <1>3, <2>4 DEF Coherent, Agrees, Resumable
  <2>6. \A i \in 1 .. len + 1 : /\ Coherent(slots'[i], currentPid)
                                /\ Agrees(slots'[i], currentPid, cpu.mode)
    BY <1>2, <1>3, <2>2, <2>3, <2>5
  <2> QED
    BY <1>1, <1>3, <2>1, <2>6 DEF Consistent
<1>5. CASE ~HasRoom
  <2>1. slots' = AtEntry /\ len' = len
    BY <1>5 DEF Fork
  <2> QED
    BY <1>1, <1>2, <1>3, <2>1 DEF Consistent
<1> QED
  BY <1>4, <1>5

(* What marking the caller as ended and giving its children away change.   *)
LEMMA MarkedFact ==
    ASSUME NEW s \in [Slots -> Processes], NEW code \in Codes, currProc \in Slots
    PROVE  LET m == MarkExited(s, code)
           IN  /\ m[currProc].pid = s[currProc].pid
               /\ m[currProc].status = "Exited" /\ m[currProc].exit = code
               /\ \A i \in Slots : i # currProc => m[i] = s[i]
<1>1. ASSUME NEW r \in Processes
      PROVE  LET q == [[[r EXCEPT !.status = "Exited"] EXCEPT !.target = 0] EXCEPT !.exit = code]
             IN  q.pid = r.pid /\ q.status = "Exited" /\ q.exit = code
  BY DEF Processes
<1>2. \E q : /\ MarkExited(s, code) = [s EXCEPT ![currProc] = q]
             /\ q.pid = s[currProc].pid /\ q.status = "Exited" /\ q.exit = code
  <2> DEFINE r == s[currProc]
             q == [[[r EXCEPT !.status = "Exited"] EXCEPT !.target = 0] EXCEPT !.exit = code]
  <2>1. r \in Processes
    OBVIOUS
  <2>2. q.pid = r.pid /\ q.status = "Exited" /\ q.exit = code
    BY <1>1, <2>1
  <2>3. MarkExited(s, code) = [s EXCEPT ![currProc] = q]
    BY DEF MarkExited
  <2> HIDE DEF q
  <2> QED
    BY <2>2, <2>3
<1> QED
  BY <1>2

LEMMA ReparentedFact ==
    ASSUME NEW s \in [Slots -> Processes], NEW i \in Slots
    PROVE  LET r == Reparent(s)
           IN  /\ r[i].pid = s[i].pid /\ r[i].status = s[i].status
               /\ r[i].exit = s[i].exit /\ r[i].ctx = s[i].ctx
<1>1. ASSUME NEW e \in Processes
      PROVE  LET q == [e EXCEPT !.parent = InitPid]
             IN  /\ q.pid = e.pid /\ q.status = e.status
                 /\ q.exit = e.exit /\ q.ctx = e.ctx
  BY DEF Processes
<1> QED
  BY <1>1 DEF Reparent

(* exit: the entry that ends needs no registers any more, so the zeroed    *)
(* ones that the scheduler is given are saved nowhere.                     *)
LEMMA ExitConsistent ==
    ASSUME CInv, Exit, ~staleUse'
    PROVE  Consistent(slots', len', currentPid', cpu', machine' = "up")
<1>1. PInv /\ SyscallEntry
  BY DEF CInv, Exit
<1>2. PICK code \in Codes :
        IF slots[currProc].pid = InitPid
        THEN /\ slots' = MarkExited(AtEntry, code)
             /\ machine' = "panic"
             /\ UNCHANGED <<len, currProc, currentPid, cpu, rax>>
        ELSE Schedule(Reparent(MarkExited(AtEntry, code)), ZeroContext)
  BY DEF Exit
<1> DEFINE m == MarkExited(AtEntry, code)
<1>3. /\ machine = "up" /\ len \in 2 .. MaxProcs
      /\ 1 \in Slots /\ 2 \in Slots /\ Live \subseteq Slots /\ Live = 1 .. len
      /\ currProc \in Slots /\ currProc # 1
      /\ AtEntry \in [Slots -> Processes]
      /\ Table(AtEntry, len, nextPid)
      /\ AtEntry[1].exit = None /\ AtEntry[2].exit = None
  BY <1>1, EntryFact
<1>4. /\ m \in [Slots -> Processes] /\ SameKeys(AtEntry, m)
      /\ m[1].exit = None /\ (currProc # 2 => m[2].exit = None)
  BY <1>3, MarkExitedFact
<1>5. Table(m, len, nextPid)
  BY <1>3, <1>4, TableKept
<1>6. /\ m[currProc].status = "Exited" /\ m[currProc].exit # None
      /\ \A i \in Slots : i # currProc => m[i] = AtEntry[i]
  BY <1>3, MarkedFact, NoneAssumption
<1>7. \A i \in Live : /\ Coherent(m[i], currentPid)
                      /\ m[i].pid = currentPid => m[i].status = "Exited"
  <2> TAKE i \in Live
  <2>1. CASE i = currProc
    BY <1>6, <2>1 DEF Coherent
  <2>2. CASE i # currProc
    <3>1. m[i] = AtEntry[i]
      BY <1>3, <1>6, <2>2
    <3> QED
      BY <1>1, <2>2, <3>1, EntryConsistent
  <2> QED
    BY <2>1, <2>2
<1> HIDE DEF m
<1>8. CASE slots[currProc].pid = InitPid
  <2>1. /\ slots' = m /\ machine' = "panic" /\ len' = len
        /\ currentPid' = currentPid /\ cpu' = cpu
    BY <1>2, <1>8 DEF m
  <2>2. cpu.of = currentPid
    BY <1>1, EntryConsistent
  <2> QED
    BY <1>3, <1>7, <2>1, <2>2 DEF Consistent
<1>9. CASE slots[currProc].pid # InitPid
  <2>1. Schedule(Reparent(m), ZeroContext)
    BY <1>2, <1>9 DEF m
  <2>2. currProc # 2
    BY <1>1, <1>9 DEF PInv, Table
  <2>3. /\ Reparent(m) \in [Slots -> Processes] /\ SameKeys(m, Reparent(m))
        /\ Reparent(m)[1].exit = None /\ Reparent(m)[2].exit = None
    BY <1>3, <1>4, <2>2, ReparentFact
  <2>4. Table(Reparent(m), len, nextPid)
    BY <1>3, <1>5, <2>3, TableKept
  <2>5. \A i \in Live : /\ Coherent(Reparent(m)[i], currentPid)
                        /\ Reparent(m)[i].pid = currentPid => Reparent(m)[i].status = "Exited"
    <3> TAKE i \in Live
    <3>1. /\ Reparent(m)[i].pid = m[i].pid /\ Reparent(m)[i].status = m[i].status
          /\ Reparent(m)[i].exit = m[i].exit /\ Reparent(m)[i].ctx = m[i].ctx
      BY <1>3, <1>4, ReparentedFact
    <3> QED
      BY <1>7, <3>1 DEF Coherent, Resumable
  <2>6. ZeroContext \in Contexts
    BY ContextFact DEF ZeroContext, Modes, Pids, Idle
  <2> QED
    BY <1>1, <1>3, <2>1, <2>3, <2>4, <2>5, <2>6, ScheduleConsistent
<1> QED
  BY <1>8, <1>9

(* waitpid.                                                                *)
LEMMA ReapNowConsistent ==
    ASSUME CInv, SyscallEntry, ~staleUse', NEW k \in Live, slots[k].exit # None, ReapNow(k)
    PROVE  Consistent(slots', len', currentPid, cpu', TRUE)
<1>1. /\ PInv /\ slots' = SwapRemove(AtEntry, k) /\ len' = len - 1 /\ cpu' = cpu
  BY DEF CInv, ReapNow
<1>2. /\ len \in 2 .. MaxProcs /\ len \in Nat /\ len - 1 \in Nat /\ Live = 1 .. len
      /\ AtEntry \in [Slots -> Processes]
      /\ slots[1].exit = None /\ slots[2].exit = None
  BY <1>1, EntryFact, MaxProcsAssumption
<1>3. k \in 3 .. len
  <2>1. k # 1 /\ k # 2
    BY <1>2
  <2> QED
    BY <1>2, <2>1
<1>4. Consistent(AtEntry, len, currentPid, cpu, TRUE)
  BY <1>2, EntryConsistent DEF Consistent, Agrees
<1>5. \A i \in 1 .. len - 1 : \E a \in 1 .. len : slots'[i] = AtEntry[a]
  BY <1>1, <1>2, <1>3, EntriesKept
<1>6. Consistent(slots', len - 1, currentPid, cpu, TRUE)
  BY <1>2, <1>4, <1>5, ConsistentKept
<1> QED
  BY <1>1, <1>6

LEMMA WaitForConsistent ==
    ASSUME CInv, SyscallEntry, ~staleUse', NEW target \in Pids, WaitFor(target)
    PROVE  Consistent(slots', len', currentPid, cpu', TRUE)
<1> DEFINE found == IndexesOf(slots, target)
<1>1. PInv /\ Live = 1 .. len /\ Live \subseteq Slots /\ AtEntry \in [Slots -> Processes]
  BY EntryFact DEF CInv
<1>2. CASE Zombies(found) # {} /\ ReapNow(Min(Zombies(found)))
  <2>1. Zombies(found) \subseteq Nat
    BY <1>1 DEF Zombies, IndexesOf
  <2>2. Min(Zombies(found)) \in Zombies(found)
    BY <1>2, <2>1, MinExists
  <2>3. Min(Zombies(found)) \in Live /\ slots[Min(Zombies(found))].exit # None
    BY <2>2 DEF Zombies, IndexesOf
  <2> QED
    BY <1>2, <2>3, ReapNowConsistent
<1>3. CASE /\ slots' = [AtEntry EXCEPT ![currProc].status = "WaitingFor",
                                       ![currProc].target = target]
           /\ cpu' = [cpu EXCEPT !.mode = "hlt"]
           /\ UNCHANGED <<len, rax>>
  <2>1. ASSUME NEW r \in Processes
        PROVE  LET q == [[r EXCEPT !.status = "WaitingFor"] EXCEPT !.target = target]
               IN  /\ q.pid = r.pid /\ q.exit = r.exit /\ q.ctx = r.ctx
                   /\ q.status = "WaitingFor"
    BY DEF Processes
  <2>2. currProc \in Slots /\ AtEntry[currProc] \in Processes
    BY <1>1, EntryFact
  <2>3. PICK q : /\ slots' = [AtEntry EXCEPT ![currProc] = q]
                 /\ q.pid = AtEntry[currProc].pid /\ q.exit = AtEntry[currProc].exit
                 /\ q.ctx = AtEntry[currProc].ctx /\ q.status = "WaitingFor"
    <3>1. slots' = [AtEntry EXCEPT ![currProc] =
                      [[AtEntry[currProc] EXCEPT !.status = "WaitingFor"] EXCEPT !.target = target]]
      BY <1>3
    <3> QED
      BY <2>1, <2>2, <3>1
  <2>4. slots'[currProc] = q /\ \A i \in Live : i # currProc => slots'[i] = AtEntry[i]
    BY <1>1, <2>2, <2>3
  <2>5. cpu'.mode = "hlt" /\ cpu'.of = currentPid /\ len' = len
    BY <1>1, <1>3, EntryConsistent DEF PInv, TypeOK, Contexts
  <2>6. q.pid = currentPid /\ Resumable(q) /\ q.exit = None
    BY <2>3, EntryConsistent DEF Resumable, Context
  <2>7. Coherent(q, currentPid) /\ Agrees(q, currentPid, cpu'.mode)
    BY <2>3, <2>5, <2>6 DEF Coherent, Agrees
  <2>8. Consistent(slots', len, currentPid, cpu', TRUE)
    BY <2>4, <2>5, <2>6, <2>7, CallerChanged
  <2> QED
    BY <2>5, <2>8
<1>4. CASE slots' = AtEntry /\ UNCHANGED <<len, cpu, rax>>
  BY <1>1, <1>4, EntryConsistent DEF Consistent, Agrees
<1> QED
  BY <1>2, <1>3, <1>4 DEF WaitFor

LEMMA WaitPidConsistent ==
    ASSUME CInv, WaitPid, ~staleUse'
    PROVE  Consistent(slots', len', currentPid', cpu', machine' = "up")
<1>1. /\ PInv /\ SyscallEntry /\ machine = "up"
      /\ UNCHANGED <<currProc, currentPid, machine>>
  BY DEF CInv, WaitPid, SyscallEntry
<1> DEFINE kids == Children(currentPid)
<1>2. PICK target \in WaitTargets :
        IF target # -1 THEN WaitFor(target)
        ELSE \/ Zombies(kids) # {} /\ ReapNow(Min(Zombies(kids)))
             \/ /\ kids # {} /\ Zombies(kids) = {}
                /\ WaitFor(slots[Min(kids)].pid)
             \/ /\ kids = {}
                /\ slots' = AtEntry
                /\ UNCHANGED <<len, cpu, rax>>
  BY DEF WaitPid
<1>3. \A k \in kids : k \in Live /\ slots[k].pid \in Pids
  BY <1>1, EntryFact DEF Children, PInv, TypeOK, Processes
<1>4. Consistent(slots', len', currentPid, cpu', TRUE)
  <2>1. CASE target # -1
    <3>1. target \in Pids
      <4>1. CASE WaitArgs = "any"
        BY <2>1, <4>1 DEF WaitTargets
      <4>2. CASE WaitArgs = "child"
        BY <1>3, <2>1, <4>2 DEF WaitTargets
      <4>3. CASE WaitArgs = "pid"
        BY <2>1, <4>3, MaxPidAssumption DEF WaitTargets, Pids
      <4> QED
        BY <4>1, <4>2, <4>3, WaitArgsAssumption
    <3> QED
      BY <1>1, <1>2, <2>1, <3>1, WaitForConsistent
  <2>2. CASE Zombies(kids) # {} /\ ReapNow(Min(Zombies(kids)))
    <3>1. Zombies(kids) \subseteq Nat
      BY <1>1, <1>3, EntryFact DEF Zombies
    <3>2. Min(Zombies(kids)) \in Zombies(kids)
      BY <2>2, <3>1, MinExists
    <3>3. Min(Zombies(kids)) \in Live /\ slots[Min(Zombies(kids))].exit # None
      BY <1>3, <3>2 DEF Zombies
    <3> QED
      BY <1>1, <2>2, <3>3, ReapNowConsistent
  <2>3. CASE kids # {} /\ WaitFor(slots[Min(kids)].pid)
    <3>1. kids \subseteq Nat
      BY <1>1, <1>3, EntryFact
    <3>2. Min(kids) \in kids
      BY <2>3, <3>1, MinExists
    <3> QED
      BY <1>1, <1>3, <2>3, <3>2, WaitForConsistent
  <2>4. CASE slots' = AtEntry /\ UNCHANGED <<len, cpu, rax>>
    BY <1>1, <2>4, EntryFact, EntryConsistent DEF Consistent, Agrees
  <2> QED
    BY <1>2, <2>1, <2>2, <2>3, <2>4
<1> QED
  BY <1>1, <1>4 DEF Consistent

(* execve: the entry's registers are zeroed, but it is the running one.    *)
LEMMA ExecConsistent ==
    ASSUME CInv, Exec, ~staleUse'
    PROVE  Consistent(slots', len', currentPid', cpu', machine' = "up")
<1>1. /\ PInv /\ SyscallEntry /\ machine = "up"
      /\ slots' = [AtEntry EXCEPT ![currProc].status = "Running", ![currProc].target = 0,
                                  ![currProc].ctx = ZeroContext]
      /\ currentPid' = slots[currProc].pid
      /\ cpu' = Context("user", slots[currProc].pid)
      /\ UNCHANGED <<len, currProc, machine>>
  BY DEF CInv, Exec, SyscallEntry
<1>2. /\ Live \subseteq Slots /\ AtEntry \in [Slots -> Processes]
      /\ currProc \in Slots /\ AtEntry[currProc] \in Processes
  BY <1>1, EntryFact
<1>3. ASSUME NEW r \in Processes, NEW c
      PROVE  LET q == [[[r EXCEPT !.status = "Running"] EXCEPT !.target = 0] EXCEPT !.ctx = c]
             IN  q.pid = r.pid /\ q.exit = r.exit /\ q.status = "Running"
  BY DEF Processes
<1>4. PICK q : /\ slots' = [AtEntry EXCEPT ![currProc] = q]
               /\ q.pid = AtEntry[currProc].pid /\ q.exit = AtEntry[currProc].exit
               /\ q.status = "Running"
  <2>1. slots' = [AtEntry EXCEPT ![currProc] =
                    [[[AtEntry[currProc] EXCEPT !.status = "Running"] EXCEPT !.target = 0]
                       EXCEPT !.ctx = ZeroContext]]
    BY <1>1
  <2> QED
    BY <1>2, <1>3, <2>1
<1>5. slots'[currProc] = q /\ \A i \in Live : i # currProc => slots'[i] = AtEntry[i]
  BY <1>2, <1>4
<1>6. /\ q.pid = currentPid /\ q.exit = None /\ currentPid' = currentPid
      /\ cpu'.mode = "user" /\ cpu'.of = currentPid
  BY <1>1, <1>4, EntryConsistent DEF Context
<1>7. Coherent(q, currentPid) /\ Agrees(q, currentPid, cpu'.mode)
  BY <1>4, <1>6 DEF Coherent, Agrees
<1>8. Consistent(slots', len, currentPid, cpu', TRUE)
  BY <1>1, <1>5, <1>6, <1>7, CallerChanged
<1> QED
  BY <1>1, <1>6, <1>8 DEF Consistent

LEMMA KernelConsistent ==
    ASSUME CInv, EnterKernel \/ LeaveKernel \/ BlockOnStdin, ~staleUse'
    PROVE  Consistent(slots', len', currentPid', cpu', machine' = "up")
<1>1. PInv /\ cpu \in Contexts
  BY DEF CInv, PInv, TypeOK
<1>2. CASE EnterKernel
  <2>1. /\ SyscallEntry /\ slots' = AtEntry /\ cpu' = [cpu EXCEPT !.mode = "kernel"]
        /\ UNCHANGED <<len, currProc, currentPid, machine>>
    BY <1>2 DEF EnterKernel
  <2>2. cpu'.mode = "kernel" /\ cpu'.of = currentPid
    BY <1>1, <2>1, EntryConsistent DEF Contexts
  <2>3. Live = 1 .. len
    BY DEF Live
  <2> QED
    BY <2>1, <2>2, <2>3, EntryConsistent DEF Consistent, Agrees
<1>3. CASE LeaveKernel
  <2>1. /\ machine = "up" /\ cpu.mode = "kernel" /\ cpu' = [cpu EXCEPT !.mode = "user"]
        /\ UNCHANGED <<slots, len, currProc, currentPid, machine, staleUse>>
    BY <1>3 DEF LeaveKernel
  <2>2. cpu'.mode = "user" /\ cpu'.of = cpu.of
    BY <1>1, <2>1 DEF Contexts
  <2>3. Consistent(slots, len, currentPid, cpu, TRUE)
    BY <2>1 DEF CInv
  <2> QED
    BY <2>1, <2>2, <2>3 DEF Consistent, Agrees
<1>4. CASE BlockOnStdin
  <2>1. /\ machine = "up" /\ cpu.mode = "kernel"
        /\ slots' = [slots EXCEPT ![currProc].status = "Blocked", ![currProc].target = 0]
        /\ UNCHANGED <<len, currProc, currentPid, cpu, machine>>
        /\ ~staleUse /\ PointerSound
    BY <1>1, <1>4 DEF BlockOnStdin, PInv, TypeOK
  <2>2. Consistent(slots, len, currentPid, cpu, TRUE) /\ Live = 1 .. len
    BY <2>1 DEF CInv, Live
  <2>3. /\ slots \in [Slots -> Processes] /\ currProc \in Slots /\ Live \subseteq Slots
        /\ slots[currProc] \in Processes /\ slots[currProc].pid = currentPid
        /\ currProc \in Live
    BY <1>1, <2>1, MaxProcsAssumption DEF PInv, TypeOK, PointerSound, Live, Slots
  <2>4. ASSUME NEW r \in Processes
        PROVE  LET q == [[r EXCEPT !.status = "Blocked"] EXCEPT !.target = 0]
               IN  q.pid = r.pid /\ q.exit = r.exit /\ q.status = "Blocked"
    BY DEF Processes
  <2>5. PICK q : /\ slots' = [slots EXCEPT ![currProc] = q]
                 /\ q.pid = currentPid /\ q.exit = slots[currProc].exit /\ q.status = "Blocked"
    BY <2>1, <2>3, <2>4
  <2>6. slots[currProc].exit = None
    BY <2>1, <2>2, <2>3 DEF Consistent, Agrees
  <2>7. Coherent(q, currentPid) /\ Agrees(q, currentPid, cpu.mode)
    BY <2>1, <2>5, <2>6 DEF Coherent, Agrees
  <2>8. \A i \in 1 .. len : slots'[i] = q \/ slots'[i] = slots[i]
    BY <2>2, <2>3, <2>5
  <2> QED
    BY <2>1, <2>2, <2>7, <2>8 DEF Consistent
<1> QED
  BY <1>2, <1>3, <1>4

(* A process that a fault ends keeps the CPU until the next tick, which    *)
(* finds it Exited and saves nothing.                                      *)
LEMMA PageFaultConsistent ==
    ASSUME CInv, PageFault, ~staleUse'
    PROVE  Consistent(slots', len', currentPid', cpu', machine' = "up")
<1> DEFINE m == MarkExited(slots, -1)
<1>1. /\ PInv /\ cpu \in Contexts /\ machine = "up"
      /\ slots' = Reparent(m) /\ cpu' = [cpu EXCEPT !.mode = "fault"]
      /\ UNCHANGED <<len, currProc, currentPid>>
      /\ cpu.mode # "idle" /\ ~staleUse /\ PointerSound
  BY DEF CInv, PageFault, PInv, TypeOK
<1>2. Consistent(slots, len, currentPid, cpu, TRUE) /\ Live = 1 .. len
  BY <1>1 DEF CInv, Live
<1>3. /\ slots \in [Slots -> Processes] /\ currProc \in Slots /\ Live \subseteq Slots
      /\ slots[currProc].pid = currentPid /\ -1 \in Codes
  BY <1>1, MaxProcsAssumption, CodesAssumption DEF PInv, TypeOK, PointerSound, Live, Slots
<1>4. /\ m[currProc].pid = currentPid
      /\ m[currProc].status = "Exited" /\ m[currProc].exit # None
      /\ \A i \in Slots : i # currProc => m[i] = slots[i]
      /\ m \in [Slots -> Processes]
  BY <1>3, MarkedFact, MarkExitedFact, NoneAssumption
<1> HIDE DEF m
<1>5. \A i \in Live : Coherent(m[i], currentPid)
  <2>1. Coherent(m[currProc], currentPid)
    BY <1>4 DEF Coherent
  <2>2. \A i \in Live : i # currProc => m[i] = slots[i] /\ Coherent(slots[i], currentPid)
    BY <1>2, <1>3, <1>4 DEF Consistent
  <2> QED
    BY <2>1, <2>2
<1>6. ASSUME NEW i \in Live PROVE Coherent(slots'[i], currentPid)
  <2>1. /\ slots'[i].pid = m[i].pid /\ slots'[i].status = m[i].status
        /\ slots'[i].exit = m[i].exit /\ slots'[i].ctx = m[i].ctx
    BY <1>1, <1>3, <1>4, ReparentedFact
  <2> QED
    BY <1>5, <2>1 DEF Coherent, Resumable
<1>7. cpu'.mode = "fault" /\ cpu'.of = currentPid
  BY <1>1, <1>2 DEF Contexts, Consistent
<1> QED
  BY <1>1, <1>2, <1>6, <1>7 DEF Consistent, Agrees

-----------------------------------------------------------------------------
LEMMA ConsistentInductive == CInv /\ [Next]_vars => CInv'
<1> SUFFICES ASSUME CInv, [Next]_vars PROVE CInv'
  OBVIOUS
<1>1. PInv'
  BY Inductive DEF CInv
<1> SUFFICES ASSUME ~staleUse'
             PROVE  Consistent(slots', len', currentPid', cpu', machine' = "up")
  BY <1>1 DEF CInv
<1>2. CASE UNCHANGED vars
  BY <1>2 DEF vars, CInv
<1>3. CASE Key
  BY <1>3 DEF Key, CInv
<1>4. CASE Stopped
  BY <1>2, <1>4 DEF Stopped
<1> QED
  BY <1>2, <1>3, <1>4, TickConsistent, ForkConsistent, ExitConsistent, WaitPidConsistent,
     ExecConsistent, KernelConsistent, PageFaultConsistent DEF Next

LEMMA ConsistentAlways == Spec => []CInv
  BY InitConsistent, ConsistentInductive, PTL DEF Spec

(* Only the current process is marked Running and the registers in the CPU *)
(* are its own, through every tick, exit, wait, exec and fault, until a    *)
(* stale pointer is used.                                                  *)
THEOREM RunsAlone == Spec => []OneRunning
<1>1. CInv => OneRunning
  BY DEF CInv, Consistent, Coherent, OneRunning, Live
<1> QED
  BY <1>1, ConsistentAlways, PTL

(* Whoever is switched away from, by a tick, a wait or another process's   *)
(* exit, finds its own registers in its entry.                             *)
THEOREM ContextsKept == Spec => []OwnContext
<1>1. CInv => OwnContext
  BY DEF CInv, Consistent, Coherent, Resumable, OwnContext, Live
<1> QED
  BY <1>1, ConsistentAlways, PTL

(* The scheduler's test (Exited) and waitpid's test (an exit code) agree   *)
(* about every entry.                                                      *)
THEOREM ZombiesCoded == Spec => []ZombieHasCode
<1>1. CInv => ZombieHasCode
  BY DEF CInv, Consistent, Coherent, ZombieHasCode, Live
<1> QED
  BY <1>1, ConsistentAlways, PTL

-----------------------------------------------------------------------------
(* The family tree, and who waits for whom.                                *)

(* Idle and init are the roots.  Every other process is younger than its   *)
(* parent, which is in the table and has not ended; and everyone but idle  *)
(* has the priority that fork hands down from init.                        *)
Family(t, n) ==
    \A i \in 1 .. n :
        /\ t[i].pid <= InitPid => t[i].parent = Idle
        /\ t[i].pid # Idle => t[i].prio = DefaultPriority
        /\ t[i].pid > InitPid =>
             /\ t[i].parent < t[i].pid
             /\ \E j \in 1 .. n : t[j].pid = t[i].parent /\ t[j].exit = None

(* Who waits, waits for a child of its own that is in the table.           *)
Waits(t, n) ==
    WaitArgs # "pid" =>
        \A i \in 1 .. n : t[i].status = "WaitingFor" =>
            \E j \in 1 .. n : t[j].pid = t[i].target /\ t[j].parent = t[i].pid

(* Who executes, does not wait.                                            *)
Awake(t, n, p, m) ==
    m \in {"user", "kernel"} =>
        \A i \in 1 .. n : t[i].pid = p => t[i].status # "WaitingFor"

Settled(t, n, p, m) == Family(t, n) /\ Waits(t, n) /\ Awake(t, n, p, m)

(* The inductive invariant.                                                *)
FInv ==
    /\ CInv
    /\ ~staleUse /\ machine = "up" => Settled(slots, len, currentPid, cpu.mode)

-----------------------------------------------------------------------------
(* Changes that no relation between processes notices.                     *)

SameKin(s, t) ==
    \A i \in Slots : /\ t[i].pid = s[i].pid /\ t[i].parent = s[i].parent
                     /\ t[i].prio = s[i].prio /\ t[i].exit = s[i].exit

(* Nobody begins to wait.                                                  *)
NoNewWait(s, t) ==
    \A i \in Slots : t[i].status = "WaitingFor" =>
        s[i].status = "WaitingFor" /\ t[i].target = s[i].target

LEMMA KinKept ==
    ASSUME NEW s, NEW t, NEW n \in 2 .. MaxProcs, SameKin(s, t), Family(s, n)
    PROVE  Family(t, n)
<1>1. \A i \in 1 .. n : i \in Slots
  BY MaxProcsAssumption DEF Slots
<1> QED
  BY <1>1 DEF SameKin, Family

LEMMA WaitsKept ==
    ASSUME NEW s, NEW t, NEW n \in 2 .. MaxProcs, SameKin(s, t), NoNewWait(s, t), Waits(s, n)
    PROVE  Waits(t, n)
<1>1. \A i \in 1 .. n : i \in Slots
  BY MaxProcsAssumption DEF Slots
<1> QED
  BY <1>1 DEF SameKin, NoNewWait, Waits

(* One entry is written, and of the fields that matter only the status.    *)
LEMMA OneWritten ==
    ASSUME NEW s \in [Slots -> Processes], NEW c \in Slots, NEW q,
           NEW t, t = [s EXCEPT ![c] = q],
           q.pid = s[c].pid, q.parent = s[c].parent, q.prio = s[c].prio, q.exit = s[c].exit
    PROVE  SameKin(s, t) /\ (q.status # "WaitingFor" => NoNewWait(s, t))
<1>1. t[c] = q /\ \A i \in Slots : i # c => t[i] = s[i]
  OBVIOUS
<1>2. SameKin(s, t)
  BY <1>1 DEF SameKin
<1>3. q.status # "WaitingFor" => NoNewWait(s, t)
  BY <1>1 DEF NoNewWait
<1> QED
  BY <1>2, <1>3

LEMMA EntryKin ==
    ASSUME slots \in [Slots -> Processes]
    PROVE  /\ SameKin(slots, AtEntry) /\ NoNewWait(slots, AtEntry)
           /\ \A i \in Slots : AtEntry[i].status = slots[i].status
<1>1. ASSUME NEW r \in Processes, NEW c
      PROVE  LET q == [r EXCEPT !.ctx = c]
             IN  /\ q.pid = r.pid /\ q.parent = r.parent /\ q.prio = r.prio
                 /\ q.exit = r.exit /\ q.status = r.status /\ q.target = r.target
  BY DEF Processes
<1>2. ASSUME NEW r \in Processes
      PROVE  LET q == [r EXCEPT !.ctx.mode = "lost"]
             IN  /\ q.pid = r.pid /\ q.parent = r.parent /\ q.prio = r.prio
                 /\ q.exit = r.exit /\ q.status = r.status /\ q.target = r.target
  BY DEF Processes
<1>3. ASSUME NEW i \in Slots
      PROVE  /\ AtEntry[i].pid = slots[i].pid /\ AtEntry[i].parent = slots[i].parent
             /\ AtEntry[i].prio = slots[i].prio /\ AtEntry[i].exit = slots[i].exit
             /\ AtEntry[i].status = slots[i].status /\ AtEntry[i].target = slots[i].target
  BY <1>1, <1>2 DEF AtEntry
<1> QED
  BY <1>3 DEF SameKin, NoNewWait

LEMMA SaveKin ==
    ASSUME NEW s \in [Slots -> Processes], NEW c
    PROVE  SameKin(s, SaveCurrent(s, c)) /\ NoNewWait(s, SaveCurrent(s, c))
<1>1. ASSUME NEW r \in Processes
      PROVE  LET q == [r EXCEPT !.ctx = c, !.status = "Ready"]
             IN  /\ q.pid = r.pid /\ q.parent = r.parent /\ q.prio = r.prio
                 /\ q.exit = r.exit /\ q.status = "Ready"
  BY DEF Processes
<1>2. ASSUME NEW i \in Slots
      PROVE  LET t == SaveCurrent(s, c)
             IN  /\ t[i].pid = s[i].pid /\ t[i].parent = s[i].parent
                 /\ t[i].prio = s[i].prio /\ t[i].exit = s[i].exit
                 /\ t[i].status = "WaitingFor" => t[i] = s[i]
  BY <1>1 DEF SaveCurrent
<1> QED
  BY <1>2 DEF SameKin, NoNewWait

-----------------------------------------------------------------------------
(* An entry leaves the table.                                              *)

(* Vec::remove and Vec::swap_remove lose no other entry.                   *)
LEMMA OthersStay ==
    ASSUME len \in 2 .. MaxProcs, NEW s \in [Slots -> Processes], NEW k \in 3 .. len,
           NEW a \in 1 .. len, a # k
    PROVE  /\ \E i \in 1 .. len - 1 : Remove(s, k)[i] = s[a]
           /\ \E i \in 1 .. len - 1 : SwapRemove(s, k)[i] = s[a]
<1>1. /\ len \in Nat /\ a \in Slots /\ k \in Slots /\ k \in Nat
      /\ a > k => a - 1 \in Slots /\ a - 1 \in 1 .. len - 1 /\ k <= a - 1 /\ a - 1 < len
      /\ a < k => a \in 1 .. len - 1 /\ ~(k <= a)
      /\ a # len => a \in 1 .. len - 1
      /\ a = len => k \in 1 .. len - 1
      /\ a > k \/ a < k
  BY MaxProcsAssumption DEF Slots
<1>2. \E i \in 1 .. len - 1 : Remove(s, k)[i] = s[a]
  <2>1. CASE a > k
    <3>1. Remove(s, k)[a - 1] = s[(a - 1) + 1] /\ (a - 1) + 1 = a
      BY <1>1, <2>1 DEF Remove
    <3> QED
      BY <1>1, <2>1, <3>1
  <2>2. CASE a < k
    <3>1. Remove(s, k)[a] = s[a]
      BY <1>1, <2>2 DEF Remove
    <3> QED
      BY <1>1, <2>2, <3>1
  <2> QED
    BY <1>1, <2>1, <2>2
<1>3. \E i \in 1 .. len - 1 : SwapRemove(s, k)[i] = s[a]
  <2>1. CASE a = len
    BY <1>1, <2>1 DEF SwapRemove
  <2>2. CASE a # len
    BY <1>1, <2>2 DEF SwapRemove
  <2> QED
    BY <2>1, <2>2
<1> QED
  BY <1>2, <1>3

(* The entry that leaves is a zombie, so nobody's parent, and nobody who   *)
(* stays waits for it.                                                     *)
LEMMA LeavingKeeps ==
    ASSUME len \in 2 .. MaxProcs, NEW s, NEW t, NEW k \in 1 .. len,
           Family(s, len), Waits(s, len), s[k].exit # None,
           \A i \in 1 .. len - 1 : \E a \in 1 .. len : t[i] = s[a],
           \A a \in 1 .. len : a # k => \E i \in 1 .. len - 1 : t[i] = s[a],
           WaitArgs # "pid" =>
             \A i \in 1 .. len : s[i].status = "WaitingFor" => s[i].target # s[k].pid
    PROVE  Family(t, len - 1) /\ Waits(t, len - 1)
<1>1. Family(t, len - 1)
  <2> SUFFICES ASSUME NEW i \in 1 .. len - 1
               PROVE  /\ t[i].pid <= InitPid => t[i].parent = Idle
                      /\ t[i].pid # Idle => t[i].prio = DefaultPriority
                      /\ t[i].pid > InitPid =>
                           /\ t[i].parent < t[i].pid
                           /\ \E j \in 1 .. len - 1 :
                                t[j].pid = t[i].parent /\ t[j].exit = None
    BY DEF Family
  <2>1. PICK a \in 1 .. len : t[i] = s[a]
    OBVIOUS
  <2>2. ASSUME t[i].pid > InitPid
        PROVE  \E j \in 1 .. len - 1 : t[j].pid = t[i].parent /\ t[j].exit = None
    <3>1. PICK b \in 1 .. len : s[b].pid = s[a].parent /\ s[b].exit = None
      BY <2>1, <2>2 DEF Family
    <3> QED
      BY <2>1, <3>1
  <2> QED
    BY <2>1, <2>2 DEF Family
<1>2. Waits(t, len - 1)
  <2> SUFFICES ASSUME WaitArgs # "pid", NEW i \in 1 .. len - 1, t[i].status = "WaitingFor"
               PROVE  \E j \in 1 .. len - 1 : t[j].pid = t[i].target /\ t[j].parent = t[i].pid
    BY DEF Waits
  <2>1. PICK a \in 1 .. len : t[i] = s[a]
    OBVIOUS
  <2>2. PICK b \in 1 .. len : s[b].pid = s[a].target /\ s[b].parent = s[a].pid
    BY <2>1 DEF Waits
  <2>3. b # k
    BY <2>1, <2>2
  <2> QED
    BY <2>1, <2>2, <2>3
<1> QED
  BY <1>1, <1>2

-----------------------------------------------------------------------------
(* exit and the page fault handler: the process behind the pointer ends    *)
(* and init adopts its children.                                           *)
LEMMA EndedKeeps ==
    ASSUME PInv, NEW s, Table(s, len, nextPid), s[2].exit = None, NEW code \in Codes,
           currProc \in Live, s[currProc].pid # InitPid,
           Family(s, len), Waits(s, len)
    PROVE  LET r == Reparent(MarkExited(s, code)) IN Family(r, len) /\ Waits(r, len)
<1> DEFINE m == MarkExited(s, code)
           r == Reparent(m)
           p == s[currProc].pid
<1>1. /\ len \in 2 .. MaxProcs /\ Live = 1 .. len /\ Live \subseteq Slots
      /\ 1 \in Live /\ 2 \in Live /\ currProc \in Slots
      /\ s \in [Slots -> Processes]
  BY MaxProcsAssumption DEF PInv, TypeOK, Table, Slots, Live
<1>2. ASSUME NEW e \in Processes
      PROVE  LET q == [[[e EXCEPT !.status = "Exited"] EXCEPT !.target = 0] EXCEPT !.exit = code]
             IN  /\ q.pid = e.pid /\ q.parent = e.parent /\ q.prio = e.prio
                 /\ q.status = "Exited"
  BY DEF Processes
<1>3. PICK q : /\ m = [s EXCEPT ![currProc] = q]
               /\ q.pid = p /\ q.parent = s[currProc].parent
               /\ q.prio = s[currProc].prio /\ q.status = "Exited"
  <2> DEFINE e == s[currProc]
             q == [[[e EXCEPT !.status = "Exited"] EXCEPT !.target = 0] EXCEPT !.exit = code]
  <2>1. e \in Processes
    BY <1>1
  <2>2. q.pid = e.pid /\ q.parent = e.parent /\ q.prio = e.prio /\ q.status = "Exited"
    BY <1>2, <2>1
  <2>3. m = [s EXCEPT ![currProc] = q]
    BY DEF MarkExited
  <2> HIDE DEF q
  <2> QED
    BY <2>2, <2>3
<1>4. /\ m[currProc] = q /\ \A i \in Slots : i # currProc => m[i] = s[i]
      /\ m \in [Slots -> Processes]
  BY <1>1, <1>3, MarkExitedFact
<1>5. \A i \in Slots : /\ m[i].pid = s[i].pid /\ m[i].parent = s[i].parent
                       /\ m[i].prio = s[i].prio
  BY <1>3, <1>4
<1> HIDE DEF m
<1>6. ASSUME NEW i \in Live
      PROVE  /\ r[i].pid = s[i].pid /\ r[i].prio = s[i].prio
             /\ r[i].parent = IF s[i].parent = p THEN InitPid ELSE s[i].parent
             /\ i # currProc => /\ r[i].exit = s[i].exit /\ r[i].status = s[i].status
                                /\ r[i].target = s[i].target
             /\ i = currProc => r[i].status = "Exited"
  <2>1. ASSUME NEW e \in Processes
        PROVE  LET a == [e EXCEPT !.parent = InitPid]
               IN  /\ a.pid = e.pid /\ a.parent = InitPid /\ a.prio = e.prio
                   /\ a.exit = e.exit /\ a.status = e.status /\ a.target = e.target
    BY DEF Processes
  <2>2. /\ r[i].pid = m[i].pid /\ r[i].prio = m[i].prio /\ r[i].exit = m[i].exit
        /\ r[i].status = m[i].status /\ r[i].target = m[i].target
        /\ r[i].parent = IF m[i].parent = m[currProc].pid THEN InitPid ELSE m[i].parent
    <3>1. i \in Slots /\ m[i] \in Processes
      BY <1>1, <1>4
    <3>2. CASE m[i].parent = m[currProc].pid
      <4>1. r[i] = [m[i] EXCEPT !.parent = InitPid]
        BY <3>1, <3>2 DEF Reparent
      <4> QED
        BY <2>1, <3>1, <3>2, <4>1
    <3>3. CASE m[i].parent # m[currProc].pid
      <4>1. r[i] = m[i]
        BY <3>1, <3>3 DEF Reparent
      <4> QED
        BY <3>3, <4>1
    <3> QED
      BY <3>2, <3>3
  <2>3. i \in Slots /\ m[i].pid = s[i].pid /\ m[i].parent = s[i].parent
        /\ m[i].prio = s[i].prio /\ m[currProc].pid = p
    BY <1>1, <1>5
  <2>4. i # currProc => m[i] = s[i]
    BY <1>4, <2>3
  <2>5. i = currProc => m[i].status = "Exited"
    BY <1>3, <1>4
  <2> HIDE DEF r
  <2> QED
    BY <2>2, <2>3, <2>4, <2>5
<1> HIDE DEF r
<1>7. /\ p \in Nat /\ p > InitPid
      /\ \A i \in Live : s[i].pid = p => i = currProc
      /\ \A i \in Live : s[i].pid \in Nat /\ s[i].parent \in Nat
  <2>1. currProc # 1
    BY DEF PInv
  <2>2. p # Idle
    BY <1>1, <2>1 DEF Table
  <2>3. \A i \in Live : s[i].pid \in Nat /\ s[i].parent \in Nat
    BY <1>1 DEF Processes, Pids
  <2> QED
    BY <1>1, <2>2, <2>3 DEF Table, Idle, InitPid
<1>8. Family(r, len)
  <2> SUFFICES ASSUME NEW i \in Live
               PROVE  /\ r[i].pid <= InitPid => r[i].parent = Idle
                      /\ r[i].pid # Idle => r[i].prio = DefaultPriority
                      /\ r[i].pid > InitPid =>
                           /\ r[i].parent < r[i].pid
                           /\ \E j \in Live : r[j].pid = r[i].parent /\ r[j].exit = None
    BY <1>1 DEF Family
  <2>1. r[i].pid <= InitPid => r[i].parent = Idle
    BY <1>1, <1>6, <1>7 DEF Family, Idle, InitPid
  <2>2. r[i].pid # Idle => r[i].prio = DefaultPriority
    BY <1>1, <1>6 DEF Family
  <2>3. ASSUME r[i].pid > InitPid, s[i].parent = p
        PROVE  /\ r[i].parent < r[i].pid
               /\ \E j \in Live : r[j].pid = r[i].parent /\ r[j].exit = None
    <3>1. r[i].parent = InitPid
      BY <1>6, <2>3
    <3>2. r[2].pid = InitPid /\ r[2].exit = None
      <4>1. 2 # currProc
        BY DEF Table
      <4> QED
        BY <1>1, <1>6, <4>1 DEF Table
    <3>3. r[i].parent < r[i].pid
      BY <1>6, <1>7, <2>3, <3>1 DEF InitPid
    <3> QED
      BY <1>1, <3>1, <3>2, <3>3
  <2>4. ASSUME r[i].pid > InitPid, s[i].parent # p
        PROVE  /\ r[i].parent < r[i].pid
               /\ \E j \in Live : r[j].pid = r[i].parent /\ r[j].exit = None
    <3>1. r[i].parent = s[i].parent /\ r[i].pid = s[i].pid
      BY <1>6, <2>4
    <3>2. s[i].parent < s[i].pid
      BY <1>1, <2>4, <3>1 DEF Family
    <3>3. PICK j \in Live : s[j].pid = s[i].parent /\ s[j].exit = None
      BY <1>1, <2>4, <3>1 DEF Family
    <3>4. j # currProc
      BY <2>4, <3>3
    <3>5. r[j].pid = r[i].parent /\ r[j].exit = None
      BY <1>6, <3>1, <3>3, <3>4
    <3> QED
      BY <3>1, <3>2, <3>5
  <2> QED
    BY <2>1, <2>2, <2>3, <2>4
<1>9. Waits(r, len)
  <2> SUFFICES ASSUME WaitArgs # "pid", NEW i \in Live, r[i].status = "WaitingFor"
               PROVE  \E j \in Live : r[j].pid = r[i].target /\ r[j].parent = r[i].pid
    BY <1>1 DEF Waits
  <2>1. i # currProc
    BY <1>6
  <2>2. s[i].status = "WaitingFor" /\ s[i].target = r[i].target /\ r[i].pid = s[i].pid
    BY <1>6, <2>1
  <2>3. PICK j \in Live : s[j].pid = s[i].target /\ s[j].parent = s[i].pid
    BY <1>1, <2>2 DEF Waits
  <2>4. s[j].parent # p
    BY <1>7, <2>1, <2>3
  <2> QED
    BY <1>6, <2>2, <2>3, <2>4
<1> QED
  BY <1>8, <1>9 DEF r, m

-----------------------------------------------------------------------------
(* All candidates have the same priority, so the scan keeps only the first *)
(* of them: the waiter whose child is reaped is the process chosen.        *)
LEMMA OneKept ==
    ASSUME NEW s, NEW p, len \in 2 .. MaxProcs, Table(s, len, p), Family(s, len),
           NEW i \in Kept(s), NEW j \in Kept(s)
    PROVE  i = j
<1>1. i \in 1 .. len /\ j \in 1 .. len /\ len \in Nat
  BY DEF Kept, Live
<1>2. ASSUME NEW k \in Kept(s) PROVE s[k].prio = DefaultPriority /\ k \in 1 .. len
  <2>1. k \in 1 .. len /\ s[k].prio < LowestPriority
    BY DEF Kept, Live, Improves
  <2>2. k # 1
    BY <2>1 DEF Table, LowestPriority
  <2>3. 1 \in 1 .. len
    BY <1>1
  <2>4. s[k].pid # Idle
    BY <2>1, <2>2, <2>3 DEF Table
  <2> QED
    BY <2>1, <2>4 DEF Family
<1>3. s[i].prio = 15 /\ s[j].prio = 15
  BY <1>2 DEF DefaultPriority
<1>4. ~(i < j)
  BY <1>1, <1>3 DEF Kept, Live, Improves
<1>5. ~(j < i)
  BY <1>1, <1>3 DEF Kept, Live, Improves
<1> QED
  BY <1>1, <1>4, <1>5

LEMMA ScheduleSettled ==
    ASSUME PInv, NEW t, Table(t, len, nextPid), t[2].exit = None,
           NEW c \in Contexts, Schedule(t, c), machine = "up",
           Family(t, len), Waits(t, len)
    PROVE  Settled(slots', len', currentPid', cpu'.mode)
<1> DEFINE s == SaveCurrent(t, c)
           best == Max(Kept(s))
           chosen == [s EXCEPT ![best].status = "Running", ![best].target = 0]
           reap == ReapIndexes(s)
<1>1. /\ len \in 2 .. MaxProcs /\ len \in Nat
      /\ Live \subseteq Slots /\ Live = 1 .. len /\ 1 \in Live /\ 2 \in Live
      /\ t \in [Slots -> Processes]
      /\ s \in [Slots -> Processes]
  BY MaxProcsAssumption, SaveCurrentFact DEF PInv, TypeOK, Table, Slots, Live
<1>2. Table(s, len, nextPid) /\ s[2].exit = None
  <2>1. SameKeys(t, s) /\ s[1].exit = None /\ s[2].exit = None
    BY <1>1, SaveCurrentFact DEF Table
  <2> QED
    BY <1>1, <2>1, TableKept
<1>3. Family(s, len) /\ Waits(s, len)
  <2>1. SameKin(t, s) /\ NoNewWait(t, s)
    BY <1>1, SaveKin
  <2> QED
    BY <1>1, <2>1, KinKept, WaitsKept
<1> HIDE DEF s
<1>4. CASE Kept(s) = {}
  <2>1. /\ slots' = s /\ cpu' = Context("idle", Idle)
        /\ len' = len /\ currentPid' = currentPid
    BY <1>4 DEF Schedule, s
  <2>2. cpu'.mode = "idle"
    BY <2>1 DEF Context
  <2> QED
    BY <1>3, <2>1, <2>2 DEF Settled, Awake
<1>5. CASE Kept(s) # {}
  <2>1. /\ slots' = IF reap = {} THEN chosen ELSE Remove(chosen, Min(reap))
        /\ len' = IF reap = {} THEN len ELSE len - 1
        /\ currentPid' = s[best].pid
    BY <1>5 DEF Schedule, s
  <2>2. best \in Kept(s) /\ best \in Live /\ best \in Slots
    <3>1. Kept(s) \subseteq 1 .. len
      BY <1>1 DEF Kept
    <3>2. best \in Kept(s)
      BY <1>1, <1>5, <3>1, MaxExists
    <3> QED
      BY <1>1, <3>2 DEF Kept
  <2>3. PICK q : /\ chosen = [s EXCEPT ![best] = q]
                 /\ q.pid = s[best].pid /\ q.parent = s[best].parent
                 /\ q.prio = s[best].prio /\ q.exit = s[best].exit
                 /\ q.status = "Running"
    <3>1. ASSUME NEW r \in Processes
          PROVE  LET q == [[r EXCEPT !.status = "Running"] EXCEPT !.target = 0]
                 IN  /\ q.pid = r.pid /\ q.parent = r.parent /\ q.prio = r.prio
                     /\ q.exit = r.exit /\ q.status = "Running"
      BY DEF Processes
    <3> DEFINE r == s[best]
               q == [[r EXCEPT !.status = "Running"] EXCEPT !.target = 0]
    <3>2. r \in Processes
      BY <1>1, <2>2
    <3>3. /\ q.pid = r.pid /\ q.parent = r.parent /\ q.prio = r.prio
          /\ q.exit = r.exit /\ q.status = "Running"
      BY <3>1, <3>2
    <3>4. chosen = [s EXCEPT ![best] = q]
      OBVIOUS
    <3> HIDE DEF q, chosen
    <3> QED
      BY <3>3, <3>4
  <2>4. /\ chosen[best] = q /\ \A i \in Live : i # best => chosen[i] = s[i]
        /\ chosen \in [Slots -> Processes]
    <3>1. ASSUME NEW r \in Processes
          PROVE  [[r EXCEPT !.status = "Running"] EXCEPT !.target = 0] \in Processes
      BY DEF Processes, Statuses, Pids
    <3>2. chosen = [s EXCEPT ![best] = [[s[best] EXCEPT !.status = "Running"] EXCEPT !.target = 0]]
      OBVIOUS
    <3>3. s[best] \in Processes
      BY <1>1, <2>2
    <3>4. chosen \in [Slots -> Processes]
      BY <1>1, <3>1, <3>2, <3>3
    <3> HIDE DEF chosen
    <3> QED
      BY <1>1, <2>2, <2>3, <3>4
  <2> HIDE DEF chosen
  <2>5. Family(chosen, len) /\ Waits(chosen, len)
    <3>1. SameKin(s, chosen) /\ NoNewWait(s, chosen)
      BY <1>1, <2>2, <2>3, OneWritten
    <3> QED
      BY <1>1, <1>3, <3>1, KinKept, WaitsKept
  <2>6. \A i \in Live : chosen[i].pid = s[best].pid => chosen[i].status # "WaitingFor"
    <3> TAKE i \in Live
    <3>1. CASE i = best
      BY <2>3, <2>4, <3>1
    <3>2. CASE i # best
      BY <1>1, <1>2, <2>2, <2>4, <3>2 DEF Table
    <3> QED
      BY <3>1, <3>2
  <2>7. CASE reap = {}
    <3>1. slots' = chosen /\ len' = len
      BY <2>1, <2>7
    <3>2. Awake(slots', len', currentPid', cpu'.mode)
      BY <1>1, <2>1, <2>6, <3>1 DEF Awake
    <3> QED
      BY <2>5, <3>1, <3>2 DEF Settled
  <2>8. CASE reap # {}
    <3> DEFINE k == Min(reap)
    <3>1. best \in Woken(s) /\ reap = IndexesOf(s, s[best].target)
      <4>1. Woken(s) # {}
        BY <2>8 DEF ReapIndexes
      <4>2. Woken(s) \subseteq 1 .. len
        BY <1>1 DEF Woken, Kept
      <4>3. Max(Woken(s)) \in Woken(s)
        BY <1>1, <4>1, <4>2, MaxExists
      <4>4. Max(Woken(s)) \in Kept(s)
        BY <4>3 DEF Woken
      <4>5. Max(Woken(s)) = best
        BY <1>1, <1>2, <1>3, <2>2, <4>4, OneKept
      <4> QED
        BY <4>1, <4>3, <4>5 DEF ReapIndexes
    <3> HIDE DEF best
    <3>2. s[best].status = "WaitingFor" /\ \A j \in reap : s[j].exit # None
      BY <3>1 DEF Woken, Wakeable
    <3>3. reap \subseteq Live /\ \A j \in reap : s[j].pid = s[best].target
      BY <3>1 DEF IndexesOf
    <3> HIDE DEF reap
    <3>4. k \in reap
      <4>1. reap \subseteq Nat
        BY <1>1, <3>3
      <4> QED
        BY <2>8, <4>1, MinExists
    <3>5. /\ k \in Live /\ s[k].exit # None /\ s[k].pid = s[best].target
      BY <3>2, <3>3, <3>4
    <3>6. k \in 3 .. len /\ k \in 1 .. len
      <4>1. k # 1 /\ k # 2
        BY <1>2, <3>5 DEF Table
      <4> HIDE DEF k
      <4> QED
        BY <1>1, <3>5, <4>1
    <3>7. slots' = Remove(chosen, k) /\ len' = len - 1
      BY <2>1, <2>8
    <3> HIDE DEF k
    <3>8. /\ \A i \in 1 .. len - 1 : \E a \in 1 .. len : slots'[i] = chosen[a]
          /\ \A a \in 1 .. len : a # k => \E i \in 1 .. len - 1 : slots'[i] = chosen[a]
      <4>1. \A i \in 1 .. len - 1 : \E a \in 1 .. len : slots'[i] = chosen[a]
        BY <1>1, <2>4, <3>6, <3>7, EntriesKept
      <4>2. ASSUME NEW a \in 1 .. len, a # k
            PROVE  \E i \in 1 .. len - 1 : slots'[i] = chosen[a]
        BY <1>1, <2>4, <3>6, <3>7, <4>2, OthersStay
      <4> QED
        BY <4>1, <4>2
    <3>9. chosen[k].exit # None /\ chosen[k].pid = s[k].pid
      BY <2>3, <2>4, <3>5
    <3>10. ASSUME WaitArgs # "pid", NEW i \in Live, chosen[i].status = "WaitingFor",
                  chosen[i].target = s[k].pid
           PROVE  FALSE
      <4>1. i # best /\ chosen[i] = s[i]
        BY <2>3, <2>4, <3>10
      <4>2. PICK a \in Live : s[a].pid = s[i].target /\ s[a].parent = s[i].pid
        BY <1>1, <1>3, <3>10, <4>1 DEF Waits
      <4>3. PICK b \in Live : s[b].pid = s[best].target /\ s[b].parent = s[best].pid
        BY <1>1, <1>3, <2>2, <3>2, <3>10 DEF Waits
      <4>4. a = k /\ b = k
        BY <1>1, <1>2, <3>5, <3>10, <4>1, <4>2, <4>3 DEF Table
      <4>5. s[i].pid = s[best].pid
        BY <4>2, <4>3, <4>4
      <4> QED
        BY <1>1, <1>2, <2>2, <4>1, <4>5 DEF Table
    <3>11. Family(slots', len - 1) /\ Waits(slots', len - 1)
      <4>1. WaitArgs # "pid" =>
              \A i \in 1 .. len : chosen[i].status = "WaitingFor" => chosen[i].target # chosen[k].pid
        BY <1>1, <3>9, <3>10
      <4> QED
        BY <1>1, <2>5, <3>6, <3>8, <3>9, <4>1, LeavingKeeps
    <3>12. Awake(slots', len - 1, currentPid', cpu'.mode)
      BY <1>1, <2>1, <2>6, <3>8 DEF Awake
    <3> QED
      BY <3>7, <3>11, <3>12 DEF Settled
  <2> QED
    BY <2>7, <2>8
<1> QED
  BY <1>4, <1>5

-----------------------------------------------------------------------------
(* Every action keeps the relations between processes.                     *)

LEMMA InitSettled == Init => FInv
<1> SUFFICES ASSUME Init PROVE Settled(slots, len, currentPid, cpu.mode)
  BY InitConsistent DEF FInv
<1>1. 1 \in Slots /\ 2 \in Slots /\ \A i \in 1 .. 2 : i = 1 \/ i = 2
  BY MaxProcsAssumption DEF Slots
<1>2. slots[1] = IdleProcess /\ slots[2] = InitProcess /\ len = 2
  BY <1>1 DEF Init
<1>3. /\ IdleProcess.pid = 0 /\ IdleProcess.parent = 0 /\ IdleProcess.status = "Ready"
      /\ InitProcess.pid = 1 /\ InitProcess.parent = 0 /\ InitProcess.status = "Running"
      /\ InitProcess.prio = DefaultPriority
  BY DEF IdleProcess, InitProcess, Idle, InitPid
<1> QED
  BY <1>1, <1>2, <1>3 DEF Settled, Family, Waits, Awake, Idle, InitPid

LEMMA TickSettled ==
    ASSUME FInv, Tick, ~staleUse' PROVE Settled(slots', len', currentPid', cpu'.mode)
<1>1. /\ PInv /\ machine = "up" /\ Schedule(slots, cpu) /\ ~staleUse
      /\ cpu \in Contexts /\ Table(slots, len, nextPid) /\ slots[2].exit = None
  BY DEF FInv, CInv, PInv, TypeOK, Tick
<1>2. Family(slots, len) /\ Waits(slots, len)
  BY <1>1 DEF FInv, Settled
<1> QED
  BY <1>1, <1>2, ScheduleSettled

(* What every system call starts from.                                     *)
LEMMA EntrySettled ==
    ASSUME FInv, SyscallEntry, ~staleUse'
    PROVE  /\ CInv /\ PInv /\ Family(slots, len) /\ Waits(slots, len)
           /\ SameKin(slots, AtEntry)
           /\ Family(AtEntry, len) /\ Waits(AtEntry, len)
           /\ \A i \in Live : slots[i].pid = currentPid => slots[i].status # "WaitingFor"
           /\ \A i \in Live : AtEntry[i].pid = currentPid => AtEntry[i].status # "WaitingFor"
<1>1. CInv /\ PInv /\ ~staleUse /\ machine = "up" /\ cpu.mode = "user"
  BY EntryConsistent DEF FInv, CInv, SyscallEntry
<1>2. Settled(slots, len, currentPid, "user") /\ Live = 1 .. len
  BY <1>1 DEF FInv, Live
<1>3. /\ slots \in [Slots -> Processes] /\ len \in 2 .. MaxProcs /\ Live \subseteq Slots
  BY <1>1, EntryFact DEF PInv, TypeOK
<1>4. /\ SameKin(slots, AtEntry) /\ NoNewWait(slots, AtEntry)
      /\ \A i \in Slots : AtEntry[i].status = slots[i].status
  BY <1>3, EntryKin
<1>5. Family(slots, len) /\ Waits(slots, len)
  BY <1>2 DEF Settled
<1>6. Family(AtEntry, len) /\ Waits(AtEntry, len)
  BY <1>3, <1>4, <1>5, KinKept, WaitsKept
<1>7. \A i \in Live : slots[i].pid = currentPid => slots[i].status # "WaitingFor"
  BY <1>2 DEF Settled, Awake
<1>8. \A i \in Live : AtEntry[i].pid = currentPid => AtEntry[i].status # "WaitingFor"
  BY <1>3, <1>4, <1>7 DEF SameKin
<1> QED
  BY <1>1, <1>4, <1>5, <1>6, <1>7, <1>8

(* fork: the child is younger than its parent, which is running.           *)
LEMMA ForkSettled ==
    ASSUME FInv, Fork, ~staleUse' PROVE Settled(slots', len', currentPid', cpu'.mode)
<1>1. /\ SyscallEntry /\ currentPid' = currentPid
  BY DEF Fork
<1>2. /\ CInv /\ PInv /\ Family(AtEntry, len) /\ Waits(AtEntry, len)
      /\ \A i \in Live : AtEntry[i].pid = currentPid => AtEntry[i].status # "WaitingFor"
  BY <1>1, EntrySettled
<1>3. /\ len \in 2 .. MaxProcs /\ Live = 1 .. len /\ Live \subseteq Slots
      /\ AtEntry \in [Slots -> Processes] /\ Table(AtEntry, len, nextPid)
      /\ 1 \in Live /\ nextPid \in Nat /\ nextPid > 1
  BY <1>1, <1>2, EntryFact DEF PInv, TypeOK
<1>4. /\ currProc \in Live /\ slots[currProc].pid = currentPid
      /\ AtEntry[currProc].pid = currentPid /\ AtEntry[currProc].exit = None
  BY <1>1, <1>2, EntryConsistent
<1>5. CASE ~HasRoom
  <2>1. slots' = AtEntry /\ len' = len
    BY <1>5 DEF Fork
  <2> QED
    BY <1>1, <1>2, <1>3, <2>1 DEF Settled, Awake
<1>6. CASE HasRoom
  <2>1. slots' = [AtEntry EXCEPT ![len + 1] = Child] /\ len' = len + 1
    BY <1>6 DEF Fork
  <2>2. /\ len + 1 \in Slots /\ \A i \in 1 .. len + 1 : i \in 1 .. len \/ i = len + 1
        /\ \A i \in 1 .. len : i # len + 1 /\ i \in 1 .. len + 1
        /\ len + 1 \in 1 .. len + 1
    BY <1>3, <1>6, MaxProcsAssumption DEF HasRoom, Slots
  <2>3. slots'[len + 1] = Child /\ \A i \in 1 .. len : slots'[i] = AtEntry[i]
    BY <1>3, <2>1, <2>2
  <2>4. /\ Child.pid = nextPid /\ Child.parent = currentPid /\ Child.status = "Ready"
        /\ Child.prio = slots[currProc].prio
    BY <1>4 DEF Child
  <2>5. slots[currProc].prio = DefaultPriority
    <3>1. currProc # 1
      BY <1>2 DEF PInv
    <3>2. currentPid # Idle
      BY <1>3, <1>4, <3>1 DEF Table
    <3>3. Family(slots, len)
      BY <1>1, EntrySettled
    <3> QED
      BY <1>3, <1>4, <3>2, <3>3 DEF Family
  <2>6. currentPid < nextPid
    BY <1>3, <1>4 DEF Table
  <2>7. Family(slots', len + 1)
    <3> SUFFICES ASSUME NEW i \in 1 .. len + 1
                 PROVE  /\ slots'[i].pid <= InitPid => slots'[i].parent = Idle
                        /\ slots'[i].pid # Idle => slots'[i].prio = DefaultPriority
                        /\ slots'[i].pid > InitPid =>
                             /\ slots'[i].parent < slots'[i].pid
                             /\ \E j \in 1 .. len + 1 :
                                  slots'[j].pid = slots'[i].parent /\ slots'[j].exit = None
      BY DEF Family
    <3>1. CASE i \in 1 .. len
      BY <1>2, <2>2, <2>3, <3>1 DEF Family
    <3>2. CASE i = len + 1
      <4>1. slots'[currProc].pid = currentPid /\ slots'[currProc].exit = None
        BY <1>3, <1>4, <2>3
      <4>2. ~(nextPid <= InitPid)
        BY <1>3 DEF InitPid
      <4> QED
        BY <1>3, <1>4, <2>2, <2>3, <2>4, <2>5, <2>6, <3>2, <4>1, <4>2
    <3> QED
      BY <2>2, <3>1, <3>2
  <2>8. Waits(slots', len + 1)
    BY <1>2, <2>2, <2>3, <2>4 DEF Waits
  <2>9. Awake(slots', len + 1, currentPid, cpu'.mode)
    BY <1>2, <1>3, <2>2, <2>3, <2>4 DEF Awake
  <2> QED
    BY <1>1, <2>1, <2>7, <2>8, <2>9 DEF Settled
<1> QED
  BY <1>5, <1>6

LEMMA ExitSettled ==
    ASSUME FInv, Exit, ~staleUse', machine' = "up"
    PROVE  Settled(slots', len', currentPid', cpu'.mode)
<1>1. SyscallEntry
  BY DEF Exit
<1>2. /\ CInv /\ PInv /\ Family(AtEntry, len) /\ Waits(AtEntry, len)
  BY <1>1, EntrySettled
<1>3. PICK code \in Codes :
        /\ slots[currProc].pid # InitPid
        /\ Schedule(Reparent(MarkExited(AtEntry, code)), ZeroContext)
  BY DEF Exit
<1> DEFINE m == MarkExited(AtEntry, code)
           r == Reparent(m)
<1>4. /\ machine = "up" /\ len \in 2 .. MaxProcs
      /\ 1 \in Slots /\ 2 \in Slots
      /\ currProc \in Slots /\ currProc # 1
      /\ AtEntry \in [Slots -> Processes]
      /\ Table(AtEntry, len, nextPid)
      /\ AtEntry[1].exit = None /\ AtEntry[2].exit = None
      /\ SameKeys(slots, AtEntry)
  BY <1>1, <1>2, EntryFact
<1>5. currProc # 2 /\ AtEntry[currProc].pid # InitPid
  BY <1>2, <1>3, <1>4 DEF PInv, Table, SameKeys
<1>6. /\ m \in [Slots -> Processes] /\ SameKeys(AtEntry, m)
      /\ m[1].exit = None /\ m[2].exit = None
  BY <1>4, <1>5, MarkExitedFact
<1> HIDE DEF m
<1>7. /\ r \in [Slots -> Processes] /\ SameKeys(m, r)
      /\ r[1].exit = None /\ r[2].exit = None
  BY <1>4, <1>6, ReparentFact
<1>8. Table(r, len, nextPid)
  <2>1. Table(m, len, nextPid)
    BY <1>4, <1>6, TableKept
  <2> HIDE DEF r
  <2> QED
    BY <1>4, <1>7, <2>1, TableKept
<1>9. Family(r, len) /\ Waits(r, len)
  <2>1. currProc \in Live
    BY <1>1, <1>2, EntryConsistent
  <2> QED
    BY <1>2, <1>4, <1>5, <2>1, EndedKeeps DEF m
<1>10. ZeroContext \in Contexts
  BY ContextFact DEF ZeroContext, Modes, Pids, Idle
<1>11. Schedule(r, ZeroContext)
  BY <1>3 DEF m
<1> HIDE DEF r
<1> QED
  BY <1>2, <1>4, <1>7, <1>8, <1>9, <1>10, <1>11, ScheduleSettled

(* waitpid takes a zombie away.  It is the caller's child, and the caller  *)
(* is the only one who could wait for it.                                  *)
LEMMA ReapNowSettled ==
    ASSUME FInv, SyscallEntry, ~staleUse', NEW k \in Live, slots[k].exit # None, ReapNow(k),
           WaitArgs # "pid" => slots[k].parent = currentPid
    PROVE  Settled(slots', len', currentPid, cpu'.mode)
<1>1. slots' = SwapRemove(AtEntry, k) /\ len' = len - 1
  BY DEF ReapNow
<1>2. /\ CInv /\ PInv /\ SameKin(slots, AtEntry)
      /\ Family(AtEntry, len) /\ Waits(AtEntry, len)
      /\ \A i \in Live : AtEntry[i].pid = currentPid => AtEntry[i].status # "WaitingFor"
  BY EntrySettled
<1>3. /\ len \in 2 .. MaxProcs /\ Live = 1 .. len /\ Live \subseteq Slots
      /\ AtEntry \in [Slots -> Processes] /\ Table(AtEntry, len, nextPid)
      /\ slots[1].exit = None /\ slots[2].exit = None
  BY <1>2, EntryFact
<1>4. k \in 3 .. len /\ k \in 1 .. len
  <2>1. k # 1 /\ k # 2
    BY <1>3
  <2> QED
    BY <1>3, <2>1
<1>5. AtEntry[k].exit # None /\ AtEntry[k].parent = slots[k].parent
  BY <1>2, <1>3 DEF SameKin
<1>6. /\ \A i \in 1 .. len - 1 : \E a \in 1 .. len : slots'[i] = AtEntry[a]
      /\ \A a \in 1 .. len : a # k => \E i \in 1 .. len - 1 : slots'[i] = AtEntry[a]
  <2>1. \A i \in 1 .. len - 1 : \E a \in 1 .. len : slots'[i] = AtEntry[a]
    BY <1>1, <1>3, <1>4, EntriesKept
  <2>2. ASSUME NEW a \in 1 .. len, a # k
        PROVE  \E i \in 1 .. len - 1 : slots'[i] = AtEntry[a]
    BY <1>1, <1>3, <1>4, <2>2, OthersStay
  <2> QED
    BY <2>1, <2>2
<1>7. ASSUME WaitArgs # "pid", NEW i \in Live, AtEntry[i].status = "WaitingFor"
      PROVE  AtEntry[i].target # AtEntry[k].pid
  <2> SUFFICES ASSUME AtEntry[i].target = AtEntry[k].pid PROVE FALSE
    OBVIOUS
  <2>1. PICK j \in Live : AtEntry[j].pid = AtEntry[i].target /\ AtEntry[j].parent = AtEntry[i].pid
    BY <1>2, <1>3, <1>7 DEF Waits
  <2>2. j = k
    BY <1>3, <2>1 DEF Table
  <2>3. AtEntry[i].pid = currentPid
    BY <1>5, <1>7, <2>1, <2>2
  <2> QED
    BY <1>2, <1>7, <2>3
<1>8. Family(slots', len - 1) /\ Waits(slots', len - 1)
  <2>1. WaitArgs # "pid" =>
          \A i \in 1 .. len : AtEntry[i].status = "WaitingFor" => AtEntry[i].target # AtEntry[k].pid
    BY <1>3, <1>7
  <2> QED
    BY <1>2, <1>3, <1>4, <1>5, <1>6, <2>1, LeavingKeeps
<1>9. Awake(slots', len - 1, currentPid, cpu'.mode)
  BY <1>2, <1>3, <1>6 DEF Awake
<1> QED
  BY <1>1, <1>8, <1>9 DEF Settled

LEMMA WaitForSettled ==
    ASSUME FInv, SyscallEntry, ~staleUse', NEW target \in Pids, WaitFor(target),
           WaitArgs # "pid" => \A j \in Live : slots[j].pid = target => slots[j].parent = currentPid
    PROVE  Settled(slots', len', currentPid, cpu'.mode)
<1> DEFINE found == IndexesOf(slots, target)
<1>1. /\ CInv /\ PInv /\ SameKin(slots, AtEntry)
      /\ Family(AtEntry, len) /\ Waits(AtEntry, len)
      /\ \A i \in Live : AtEntry[i].pid = currentPid => AtEntry[i].status # "WaitingFor"
  BY EntrySettled
<1>2. /\ len \in 2 .. MaxProcs /\ Live = 1 .. len /\ Live \subseteq Slots
      /\ AtEntry \in [Slots -> Processes] /\ currProc \in Slots /\ cpu \in Contexts
  BY <1>1, EntryFact DEF PInv, TypeOK
<1>3. CASE Zombies(found) # {} /\ ReapNow(Min(Zombies(found)))
  <2>1. Zombies(found) \subseteq Nat
    BY <1>2 DEF Zombies, IndexesOf
  <2>2. Min(Zombies(found)) \in Zombies(found)
    BY <1>3, <2>1, MinExists
  <2>3. /\ Min(Zombies(found)) \in Live /\ slots[Min(Zombies(found))].exit # None
        /\ slots[Min(Zombies(found))].pid = target
    BY <2>2 DEF Zombies, IndexesOf
  <2> QED
    BY <1>3, <2>3, ReapNowSettled
<1>4. CASE /\ found # {}
           /\ slots' = [AtEntry EXCEPT ![currProc].status = "WaitingFor",
                                       ![currProc].target = target]
           /\ cpu' = [cpu EXCEPT !.mode = "hlt"]
           /\ UNCHANGED <<len, rax>>
  <2>1. ASSUME NEW r \in Processes
        PROVE  LET q == [[r EXCEPT !.status = "WaitingFor"] EXCEPT !.target = target]
               IN  /\ q.pid = r.pid /\ q.parent = r.parent /\ q.prio = r.prio
                   /\ q.exit = r.exit /\ q.target = target
    BY DEF Processes
  <2>2. PICK q : /\ slots' = [AtEntry EXCEPT ![currProc] = q]
                 /\ q.pid = AtEntry[currProc].pid /\ q.parent = AtEntry[currProc].parent
                 /\ q.prio = AtEntry[currProc].prio /\ q.exit = AtEntry[currProc].exit
                 /\ q.target = target
    <3> DEFINE r == AtEntry[currProc]
               q == [[r EXCEPT !.status = "WaitingFor"] EXCEPT !.target = target]
    <3>1. r \in Processes
      BY <1>2
    <3>2. /\ q.pid = r.pid /\ q.parent = r.parent /\ q.prio = r.prio
          /\ q.exit = r.exit /\ q.target = target
      BY <2>1, <3>1
    <3>3. slots' = [AtEntry EXCEPT ![currProc] = q]
      BY <1>4
    <3> HIDE DEF q
    <3> QED
      BY <3>2, <3>3
  <2>3. SameKin(AtEntry, slots')
    BY <1>2, <2>2, OneWritten
  <2>4. slots'[currProc] = q /\ \A i \in Live : i # currProc => slots'[i] = AtEntry[i]
    BY <1>2, <2>2
  <2>5. Family(slots', len)
    BY <1>1, <1>2, <2>3, KinKept
  <2>6. Waits(slots', len)
    <3> SUFFICES ASSUME WaitArgs # "pid", NEW i \in Live, slots'[i].status = "WaitingFor"
                 PROVE  \E j \in Live : slots'[j].pid = slots'[i].target
                                        /\ slots'[j].parent = slots'[i].pid
      BY <1>2 DEF Waits
    <3>1. \A j \in Live : /\ slots'[j].pid = AtEntry[j].pid /\ slots'[j].parent = AtEntry[j].parent
                          /\ AtEntry[j].pid = slots[j].pid /\ AtEntry[j].parent = slots[j].parent
      BY <1>1, <1>2, <2>3 DEF SameKin
    <3>2. CASE i # currProc
      <4>1. slots'[i] = AtEntry[i]
        BY <2>4, <3>2
      <4>2. PICK j \in Live : AtEntry[j].pid = AtEntry[i].target /\ AtEntry[j].parent = AtEntry[i].pid
        BY <1>1, <1>2, <4>1 DEF Waits
      <4> QED
        BY <3>1, <4>1, <4>2
    <3>3. CASE i = currProc
      <4>1. PICK j \in Live : slots[j].pid = target
        BY <1>4 DEF IndexesOf
      <4>2. slots[j].parent = currentPid
        BY <4>1
      <4>3. slots'[i].target = target /\ slots'[i].pid = currentPid
        BY <1>1, <2>2, <2>4, <3>3, EntryConsistent
      <4> QED
        BY <3>1, <4>1, <4>2, <4>3
    <3> QED
      BY <3>2, <3>3
  <2>7. cpu'.mode = "hlt" /\ len' = len
    BY <1>2, <1>4 DEF Contexts
  <2> QED
    BY <2>5, <2>6, <2>7 DEF Settled, Awake
<1>5. CASE slots' = AtEntry /\ UNCHANGED <<len, cpu, rax>>
  BY <1>1, <1>2, <1>5 DEF Settled, Awake
<1> QED
  BY <1>3, <1>4, <1>5 DEF WaitFor

LEMMA WaitPidSettled ==
    ASSUME FInv, WaitPid, ~staleUse' PROVE Settled(slots', len', currentPid', cpu'.mode)
<1>1. SyscallEntry /\ currentPid' = currentPid
  BY DEF WaitPid
<1> DEFINE kids == Children(currentPid)
<1>2. PICK target \in WaitTargets :
        IF target # -1 THEN WaitFor(target)
        ELSE \/ Zombies(kids) # {} /\ ReapNow(Min(Zombies(kids)))
             \/ /\ kids # {} /\ Zombies(kids) = {}
                /\ WaitFor(slots[Min(kids)].pid)
             \/ /\ kids = {}
                /\ slots' = AtEntry
                /\ UNCHANGED <<len, cpu, rax>>
  BY DEF WaitPid
<1>3. /\ CInv /\ PInv /\ Family(AtEntry, len) /\ Waits(AtEntry, len)
      /\ \A i \in Live : AtEntry[i].pid = currentPid => AtEntry[i].status # "WaitingFor"
  BY <1>1, EntrySettled
<1>4. /\ Live = 1 .. len /\ Table(slots, len, nextPid)
      /\ \A k \in kids : k \in Live /\ slots[k].pid \in Pids /\ slots[k].parent = currentPid
      /\ \A k \in kids : \A j \in Live : slots[j].pid = slots[k].pid => slots[j].parent = currentPid
  <2>1. Live = 1 .. len /\ Table(slots, len, nextPid)
    BY <1>1, <1>3, EntryFact DEF PInv
  <2>2. \A k \in kids : k \in Live /\ slots[k].pid \in Pids /\ slots[k].parent = currentPid
    BY <1>1, <1>3, EntryFact DEF Children, PInv, TypeOK, Processes
  <2>3. \A k \in kids : \A j \in Live : slots[j].pid = slots[k].pid => slots[j].parent = currentPid
    BY <2>1, <2>2 DEF Table
  <2> QED
    BY <2>1, <2>2, <2>3
<1>5. CASE target # -1
  <2>1. /\ target \in Pids
        /\ WaitArgs # "pid" => \A j \in Live : slots[j].pid = target => slots[j].parent = currentPid
    <3>1. CASE WaitArgs = "any"
      BY <1>5, <3>1 DEF WaitTargets
    <3>2. CASE WaitArgs = "child"
      <4>1. PICK k \in kids : target = slots[k].pid
        BY <1>5, <3>2 DEF WaitTargets
      <4> QED
        BY <1>4, <4>1
    <3>3. CASE WaitArgs = "pid"
      BY <1>5, <3>3, MaxPidAssumption DEF WaitTargets, Pids
    <3> QED
      BY <3>1, <3>2, <3>3, WaitArgsAssumption
  <2> QED
    BY <1>1, <1>2, <1>5, <2>1, WaitForSettled
<1>6. CASE Zombies(kids) # {} /\ ReapNow(Min(Zombies(kids)))
  <2>1. Zombies(kids) \subseteq Nat
    BY <1>4 DEF Zombies
  <2>2. Min(Zombies(kids)) \in Zombies(kids)
    BY <1>6, <2>1, MinExists
  <2>3. /\ Min(Zombies(kids)) \in Live /\ slots[Min(Zombies(kids))].exit # None
        /\ slots[Min(Zombies(kids))].parent = currentPid
    BY <1>4, <2>2 DEF Zombies
  <2> QED
    BY <1>1, <1>6, <2>3, ReapNowSettled
<1>7. CASE kids # {} /\ WaitFor(slots[Min(kids)].pid)
  <2>1. kids \subseteq Nat
    BY <1>4
  <2>2. Min(kids) \in kids
    BY <1>7, <2>1, MinExists
  <2>3. /\ slots[Min(kids)].pid \in Pids
        /\ \A j \in Live : slots[j].pid = slots[Min(kids)].pid => slots[j].parent = currentPid
    BY <1>4, <2>2
  <2> QED
    BY <1>1, <1>7, <2>3, WaitForSettled
<1>8. CASE slots' = AtEntry /\ UNCHANGED <<len, cpu, rax>>
  BY <1>1, <1>3, <1>4, <1>8 DEF Settled, Awake
<1> QED
  BY <1>2, <1>5, <1>6, <1>7, <1>8

LEMMA ExecSettled ==
    ASSUME FInv, Exec, ~staleUse' PROVE Settled(slots', len', currentPid', cpu'.mode)
<1>1. /\ SyscallEntry /\ len' = len /\ currentPid' = slots[currProc].pid
      /\ slots' = [AtEntry EXCEPT ![currProc].status = "Running", ![currProc].target = 0,
                                  ![currProc].ctx = ZeroContext]
  BY DEF Exec
<1>2. /\ CInv /\ PInv /\ Family(AtEntry, len) /\ Waits(AtEntry, len)
      /\ \A i \in Live : AtEntry[i].pid = currentPid => AtEntry[i].status # "WaitingFor"
  BY <1>1, EntrySettled
<1>3. /\ len \in 2 .. MaxProcs /\ Live = 1 .. len /\ Live \subseteq Slots
      /\ AtEntry \in [Slots -> Processes] /\ currProc \in Slots
  BY <1>1, <1>2, EntryFact
<1>4. ASSUME NEW r \in Processes, NEW c
      PROVE  LET q == [[[r EXCEPT !.status = "Running"] EXCEPT !.target = 0] EXCEPT !.ctx = c]
             IN  /\ q.pid = r.pid /\ q.parent = r.parent /\ q.prio = r.prio
                 /\ q.exit = r.exit /\ q.status = "Running"
  BY DEF Processes
<1>5. PICK q : /\ slots' = [AtEntry EXCEPT ![currProc] = q]
               /\ q.pid = AtEntry[currProc].pid /\ q.parent = AtEntry[currProc].parent
               /\ q.prio = AtEntry[currProc].prio /\ q.exit = AtEntry[currProc].exit
               /\ q.status = "Running"
  <2> DEFINE r == AtEntry[currProc]
             q == [[[r EXCEPT !.status = "Running"] EXCEPT !.target = 0] EXCEPT !.ctx = ZeroContext]
  <2>1. r \in Processes
    BY <1>3
  <2>2. /\ q.pid = r.pid /\ q.parent = r.parent /\ q.prio = r.prio
        /\ q.exit = r.exit /\ q.status = "Running"
    BY <1>4, <2>1
  <2>3. slots' = [AtEntry EXCEPT ![currProc] = q]
    BY <1>1
  <2> HIDE DEF q
  <2> QED
    BY <2>2, <2>3
<1>6. SameKin(AtEntry, slots') /\ NoNewWait(AtEntry, slots')
  BY <1>3, <1>5, OneWritten
<1>7. Family(slots', len) /\ Waits(slots', len)
  BY <1>2, <1>3, <1>6, KinKept, WaitsKept
<1>8. currentPid' = currentPid
  BY <1>1, <1>2, EntryConsistent
<1>9. Awake(slots', len, currentPid, cpu'.mode)
  BY <1>2, <1>3, <1>6 DEF Awake, SameKin, NoNewWait
<1> QED
  BY <1>1, <1>7, <1>8, <1>9 DEF Settled

LEMMA KernelSettled ==
    ASSUME FInv, EnterKernel \/ LeaveKernel \/ BlockOnStdin, ~staleUse'
    PROVE  Settled(slots', len', currentPid', cpu'.mode)
<1>1. CASE EnterKernel
  <2>1. SyscallEntry /\ slots' = AtEntry /\ len' = len /\ currentPid' = currentPid
    BY <1>1 DEF EnterKernel
  <2>2. /\ Family(AtEntry, len) /\ Waits(AtEntry, len)
        /\ \A i \in Live : AtEntry[i].pid = currentPid => AtEntry[i].status # "WaitingFor"
    BY <2>1, EntrySettled
  <2> QED
    BY <2>1, <2>2 DEF Settled, Awake, Live
<1>2. CASE LeaveKernel
  <2>1. /\ machine = "up" /\ cpu.mode = "kernel" /\ ~staleUse
        /\ UNCHANGED <<slots, len, currentPid>>
    BY <1>2 DEF LeaveKernel
  <2>2. Settled(slots, len, currentPid, "kernel")
    BY <2>1 DEF FInv
  <2> QED
    BY <2>1, <2>2 DEF Settled, Awake
<1>3. CASE BlockOnStdin
  <2>1. /\ PInv /\ machine = "up" /\ cpu.mode = "kernel"
        /\ slots' = [slots EXCEPT ![currProc].status = "Blocked", ![currProc].target = 0]
        /\ UNCHANGED <<len, currentPid>>
        /\ ~staleUse
    BY <1>3 DEF BlockOnStdin, FInv, CInv, PInv, TypeOK
  <2>2. Settled(slots, len, currentPid, "kernel")
    BY <2>1 DEF FInv
  <2>3. /\ slots \in [Slots -> Processes] /\ currProc \in Slots /\ len \in 2 .. MaxProcs
        /\ \A i \in 1 .. len : i \in Slots
    BY <2>1, MaxProcsAssumption DEF PInv, TypeOK, Slots
  <2>4. ASSUME NEW r \in Processes
        PROVE  LET q == [[r EXCEPT !.status = "Blocked"] EXCEPT !.target = 0]
               IN  /\ q.pid = r.pid /\ q.parent = r.parent /\ q.prio = r.prio
                   /\ q.exit = r.exit /\ q.status = "Blocked"
    BY DEF Processes
  <2>5. PICK q : /\ slots' = [slots EXCEPT ![currProc] = q]
                 /\ q.pid = slots[currProc].pid /\ q.parent = slots[currProc].parent
                 /\ q.prio = slots[currProc].prio /\ q.exit = slots[currProc].exit
                 /\ q.status = "Blocked"
    <3> DEFINE r == slots[currProc]
               q == [[r EXCEPT !.status = "Blocked"] EXCEPT !.target = 0]
    <3>1. r \in Processes
      BY <2>3
    <3>2. /\ q.pid = r.pid /\ q.parent = r.parent /\ q.prio = r.prio
          /\ q.exit = r.exit /\ q.status = "Blocked"
      BY <2>4, <3>1
    <3>3. slots' = [slots EXCEPT ![currProc] = q]
      BY <2>1
    <3> HIDE DEF q
    <3> QED
      BY <3>2, <3>3
  <2>6. SameKin(slots, slots') /\ NoNewWait(slots, slots')
    BY <2>3, <2>5, OneWritten
  <2>7. Family(slots', len) /\ Waits(slots', len)
    BY <2>2, <2>3, <2>6, KinKept, WaitsKept DEF Settled
  <2>8. Awake(slots', len, currentPid, cpu'.mode)
    BY <2>2, <2>3, <2>6 DEF Settled, Awake, SameKin, NoNewWait
  <2> QED
    BY <2>1, <2>7, <2>8 DEF Settled
<1> QED
  BY <1>1, <1>2, <1>3

LEMMA PageFaultSettled ==
    ASSUME FInv, PageFault, ~staleUse', machine' = "up"
    PROVE  Settled(slots', len', currentPid', cpu'.mode)
<1>1. /\ PInv /\ machine = "up" /\ ~staleUse /\ PointerSound /\ cpu \in Contexts
      /\ slots' = Reparent(MarkExited(slots, -1))
      /\ cpu' = [cpu EXCEPT !.mode = "fault"]
      /\ len' = len /\ currentPid # InitPid
  BY DEF FInv, CInv, PInv, TypeOK, PageFault
<1>2. /\ Table(slots, len, nextPid) /\ slots[2].exit = None /\ -1 \in Codes
      /\ currProc \in Live /\ slots[currProc].pid # InitPid
  BY <1>1, CodesAssumption DEF PInv, PointerSound
<1>3. Family(slots, len) /\ Waits(slots, len)
  BY <1>1 DEF FInv, Settled
<1>4. Family(slots', len) /\ Waits(slots', len)
  BY <1>1, <1>2, <1>3, EndedKeeps
<1>5. cpu'.mode = "fault"
  BY <1>1 DEF Contexts
<1> QED
  BY <1>1, <1>4, <1>5 DEF Settled, Awake

-----------------------------------------------------------------------------
LEMMA SettledInductive == FInv /\ [Next]_vars => FInv'
<1> SUFFICES ASSUME FInv, [Next]_vars, ~staleUse', machine' = "up"
             PROVE  Settled(slots', len', currentPid', cpu'.mode)
  BY ConsistentInductive DEF FInv
<1>1. CASE UNCHANGED vars
  BY <1>1 DEF vars, FInv
<1>2. CASE Key
  BY <1>2 DEF Key, FInv
<1>3. CASE Stopped
  BY <1>1, <1>3 DEF Stopped
<1> QED
  BY <1>1, <1>2, <1>3, TickSettled, ForkSettled, ExitSettled, WaitPidSettled,
     ExecSettled, KernelSettled, PageFaultSettled DEF Next

LEMMA SettledAlways == Spec => []FInv
  BY InitSettled, SettledInductive, PTL DEF Spec

(* exit, the page fault handler and both ways of reaping leave no process  *)
(* without a living parent.                                                *)
THEOREM ParentsLive == Spec => []NoOrphans
<1>1. FInv => NoOrphans
  BY DEF FInv, Settled, Family, NoOrphans, Live
<1> QED
  BY <1>1, SettledAlways, PTL

(* With waits for children only, the process that someone waits for is not *)
(* reaped by anyone else, in waitpid or in the scheduler.                  *)
THEOREM TargetsStay == Spec => []TargetKept
<1>1. FInv => TargetKept
  BY DEF FInv, Settled, Waits, TargetKept, Live
<1> QED
  BY <1>1, SettledAlways, PTL

(* With waits for children only, the youngest process that has not ended   *)
(* either can run or waits for a zombie: there is always someone to choose.*)
LEMMA SomeoneCanRun == FInv => NeverAllWaiting
<1> SUFFICES ASSUME FInv, WaitArgs # "pid", machine = "up", ~staleUse
             PROVE  \E i \in Live : /\ slots[i].prio < LowestPriority
                                    /\ \/ Eligible(slots, i)
                                       \/ slots[i].status \in {"Running", "Blocked"}
  BY DEF NeverAllWaiting
<1>1. /\ PInv /\ Family(slots, len) /\ Waits(slots, len)
      /\ Table(slots, len, nextPid) /\ slots[2].exit = None
      /\ len \in 2 .. MaxProcs /\ Live = 1 .. len /\ 1 \in Live /\ 2 \in Live
      /\ nextPid \in Nat
  BY DEF FInv, CInv, PInv, TypeOK, Settled, Live
<1>2. ASSUME NEW i \in Live
      PROVE  /\ slots[i].pid \in Nat /\ slots[i].parent \in Nat /\ slots[i].status \in Statuses
             /\ slots[i].pid < nextPid
             /\ slots[i].status = "Exited" <=> slots[i].exit # None
  <2>1. i \in Slots /\ slots[i] \in Processes
    BY <1>1, MaxProcsAssumption DEF Table, Slots
  <2>2. Coherent(slots[i], currentPid)
    BY <1>1 DEF FInv, CInv, Consistent
  <2> QED
    BY <1>1, <2>1, <2>2 DEF Processes, Pids, Table, Coherent
<1> DEFINE P == {p \in 1 .. nextPid : \E i \in Live : slots[i].pid = p /\ slots[i].exit = None}
<1>3. Max(P) \in P /\ \A p \in P : Max(P) >= p
  <2>1. 1 \in P
    BY <1>1, <1>2 DEF Table, InitPid
  <2>2. P \subseteq 1 .. nextPid /\ P # {}
    BY <2>1
  <2> HIDE DEF P
  <2> QED
    BY <1>1, <2>2, MaxExists
<1>4. PICK i \in Live : slots[i].pid = Max(P) /\ slots[i].exit = None
  BY <1>3
<1>5. slots[i].pid >= 1 /\ \A j \in Live : slots[j].exit = None => slots[j].pid <= slots[i].pid
  <2>1. slots[i].pid \in 1 .. nextPid
    BY <1>3, <1>4
  <2>2. ASSUME NEW j \in Live, slots[j].exit = None PROVE slots[j].pid <= slots[i].pid
    <3>1. CASE slots[j].pid = 0
      BY <1>2, <2>1, <3>1
    <3>2. CASE slots[j].pid # 0
      <4>1. slots[j].pid \in 1 .. nextPid
        BY <1>1, <1>2, <3>2
      <4>2. slots[j].pid \in P
        BY <2>2, <4>1
      <4>3. Max(P) >= slots[j].pid
        BY <1>3, <4>2
      <4> QED
        BY <1>2, <1>4, <4>3
    <3> QED
      BY <3>1, <3>2
  <2> QED
    BY <1>1, <2>1, <2>2
<1> HIDE DEF P
<1>6. slots[i].prio < LowestPriority
  <2>1. slots[i].prio = DefaultPriority
    BY <1>1, <1>2, <1>5 DEF Family, Idle
  <2> QED
    BY <2>1 DEF DefaultPriority, LowestPriority
<1>7. CASE slots[i].status = "WaitingFor"
  <2>1. PICK j \in Live : slots[j].pid = slots[i].target /\ slots[j].parent = slots[i].pid
    BY <1>1, <1>7 DEF Waits
  <2>2. slots[j].pid > InitPid
    <3>1. slots[j].parent # Idle
      BY <1>2, <1>5, <2>1 DEF Idle
    <3>2. ~(slots[j].pid <= InitPid)
      BY <1>1, <3>1 DEF Family
    <3> QED
      BY <1>2, <3>2 DEF InitPid
  <2>3. slots[i].pid < slots[j].pid
    BY <1>1, <2>1, <2>2 DEF Family
  <2>4. slots[j].exit # None
    BY <1>2, <1>5, <2>3
  <2>5. \A k \in Live : slots[k].pid = slots[i].target => k = j
    BY <1>1, <2>1 DEF Table
  <2>6. Wakeable(slots, i)
    BY <1>7, <2>4, <2>5 DEF Wakeable, IndexesOf
  <2> QED
    BY <1>6, <2>6 DEF Eligible
<1>8. CASE slots[i].status # "WaitingFor"
  <2>1. slots[i].status \in {"Ready", "Running", "Blocked"}
    BY <1>2, <1>4, <1>8 DEF Statuses
  <2> QED
    BY <1>6, <2>1 DEF Eligible
<1> QED
  BY <1>7, <1>8

(* The processes never deadlock on each other in waitpid.                  *)
THEOREM NoWaitDeadlock == Spec => []NeverAllWaiting
  BY SomeoneCanRun, SettledAlways, PTL
=============================================================================
