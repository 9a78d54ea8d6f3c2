-------------------------- MODULE ProcessesProofs --------------------------
(***************************************************************************)
(* Proofs about Processes for every table capacity, every bound on pids    *)
(* and every set of exit codes.                                            *)
(***************************************************************************)
EXTENDS Processes, WellFoundedInduction, NaturalsInduction, TLAPS

(* A table of n processes with idle first, init second, one entry per pid  *)
(* and no pid that NEXT_PID would hand out again.                          *)
Table(t, n, p) ==
    /\ t \in [Slots -> Processes]
    /\ t[1].pid = Idle /\ t[1].exit = None /\ t[1].prio = LowestPriority
    /\ t[2].pid = InitPid
    /\ \A i, j \in 1 .. n : t[i].pid = t[j].pid => i = j
    /\ \A i \in 1 .. n : t[i].pid < p

(* The inductive invariant.  Idle is never chosen by the scan, so that no  *)
(* pointer, stale or not, ever designates it; and the pointer designates   *)
(* init's slot only while init is the current process.                     *)
PInv ==
    /\ TypeOK
    /\ Table(slots, len, nextPid)
    /\ machine = "up" => slots[2].exit = None
    /\ currProc # 1
    /\ currProc = 2 => currentPid = InitPid

-----------------------------------------------------------------------------
(* Min and Max of bounded sets of naturals.                                *)

LEMMA MinExists ==
    ASSUME NEW S, S \subseteq Nat, S # {}
    PROVE  Min(S) \in S /\ \A y \in S : Min(S) <= y
<1>1. \A x, y \in Nat : x < y => <<x, y>> \in OpToRel(<, Nat)
  BY DEF OpToRel
<1>2. \E x \in S : \A y \in S : ~(<<y, x>> \in OpToRel(<, Nat))
  BY NatLessThanWellFounded, WFMin
<1>3. \E R : /\ \A x, y \in Nat : x < y => <<x, y>> \in R
             /\ \E x \in S : \A y \in S : ~(<<y, x>> \in R)
  BY <1>1, <1>2, Zenon
<1>4. PICK R : /\ \A x, y \in Nat : x < y => <<x, y>> \in R
               /\ \E x \in S : \A y \in S : ~(<<y, x>> \in R)
  BY <1>3
<1>5. PICK x \in S : \A y \in S : ~(<<y, x>> \in R)
  BY <1>4
<1>6. \A y \in S : x <= y
  <2> TAKE y \in S
  <2>1. x \in Nat /\ y \in Nat
    OBVIOUS
  <2>2. ~(y < x)
    BY <1>4, <1>5, <2>1
  <2> QED
    BY <2>1, <2>2
<1> QED
  BY <1>6 DEF Min

LEMMA MaxExists ==
    ASSUME NEW n \in Nat, NEW S, S \subseteq 1 .. n, S # {}
    PROVE  Max(S) \in S /\ \A y \in S : Max(S) >= y
<1> DEFINE T == {n - x : x \in S}
<1>1. \A x \in S : x \in 1 .. n /\ n - x \in Nat
  OBVIOUS
<1>2. T \subseteq Nat /\ T # {}
  BY <1>1
<1>3. Min(T) \in T /\ \A y \in T : Min(T) <= y
  BY <1>2, MinExists
<1>4. PICK x \in S : Min(T) = n - x
  BY <1>3
<1>5. \A y \in S : x >= y
  <2> TAKE y \in S
  <2>1. n - x <= n - y
    BY <1>3, <1>4
  <2> QED
    BY <1>1, <2>1
<1> QED
  BY <1>5 DEF Max

-----------------------------------------------------------------------------
(* What the operators on the table keep.                                   *)

(* t differs from s in no pid and no priority.                             *)
SameKeys(s, t) ==
    \A i \in Slots : t[i].pid = s[i].pid /\ t[i].prio = s[i].prio

LEMMA TableKept ==
    ASSUME NEW s, NEW t, NEW n \in 2 .. MaxProcs, NEW p,
           Table(s, n, p), t \in [Slots -> Processes], SameKeys(s, t), t[1].exit = None
    PROVE  Table(t, n, p)
<1>1. 1 \in Slots /\ 2 \in Slots /\ \A i \in 1 .. n : i \in Slots
  BY MaxProcsAssumption DEF Slots
<1> QED
  BY <1>1 DEF Table, SameKeys

LEMMA ContextFact ==
    ASSUME NEW m \in Modes, NEW p \in Pids PROVE Context(m, p) \in Contexts
  BY DEF Context, Contexts

(* Saved registers are the only thing a system call entry changes.         *)
LEMMA AtEntryFact ==
    ASSUME slots \in [Slots -> Processes], cpu \in Contexts
    PROVE  /\ AtEntry \in [Slots -> Processes]
           /\ SameKeys(slots, AtEntry)
           /\ \A i \in Slots : AtEntry[i].exit = slots[i].exit
<1>1. Context("user", cpu.of) \in Contexts
  BY ContextFact DEF Contexts, Modes
<1>2. ASSUME NEW r \in Processes, NEW c \in Contexts
      PROVE  LET q == [r EXCEPT !.ctx = c]
             IN  q \in Processes /\ q.pid = r.pid /\ q.prio = r.prio /\ q.exit = r.exit
  BY DEF Processes
<1>3. ASSUME NEW r \in Processes
      PROVE  LET q == [r EXCEPT !.ctx.mode = "lost"]
             IN  q \in Processes /\ q.pid = r.pid /\ q.prio = r.prio /\ q.exit = r.exit
  BY DEF Processes, Contexts, Modes
<1> QED
  BY <1>1, <1>2, <1>3 DEF AtEntry, SameKeys

LEMMA SaveCurrentFact ==
    ASSUME NEW s \in [Slots -> Processes], NEW c \in Contexts
    PROVE  /\ SaveCurrent(s, c) \in [Slots -> Processes]
           /\ SameKeys(s, SaveCurrent(s, c))
           /\ \A i \in Slots : SaveCurrent(s, c)[i].exit = s[i].exit
<1>1. ASSUME NEW r \in Processes
      PROVE  LET q == [r EXCEPT !.ctx = c, !.status = "Ready"]
             IN  q \in Processes /\ q.pid = r.pid /\ q.prio = r.prio /\ q.exit = r.exit
  BY DEF Processes, Statuses
<1> QED
  BY <1>1 DEF SaveCurrent, SameKeys

LEMMA ReparentFact ==
    ASSUME NEW s \in [Slots -> Processes]
    PROVE  /\ Reparent(s) \in [Slots -> Processes]
           /\ SameKeys(s, Reparent(s))
           /\ \A i \in Slots : Reparent(s)[i].exit = s[i].exit
<1>1. ASSUME NEW r \in Processes
      PROVE  LET q == [r EXCEPT !.parent = InitPid]
             IN  q \in Processes /\ q.pid = r.pid /\ q.prio = r.prio /\ q.exit = r.exit
  BY DEF Processes, Pids, InitPid
<1> QED
  BY <1>1 DEF Reparent, SameKeys

LEMMA MarkExitedFact ==
    ASSUME NEW s \in [Slots -> Processes], NEW code \in Codes, currProc \in Slots
    PROVE  /\ MarkExited(s, code) \in [Slots -> Processes]
           /\ SameKeys(s, MarkExited(s, code))
           /\ \A i \in Slots \ {currProc} : MarkExited(s, code)[i].exit = s[i].exit
<1>1. ASSUME NEW r \in Processes
      PROVE  LET q == [[[r EXCEPT !.status = "Exited"] EXCEPT !.target = 0] EXCEPT !.exit = code]
             IN  q \in Processes /\ q.pid = r.pid /\ q.prio = r.prio
  BY DEF Processes, Statuses, Pids
<1>2. MarkExited(s, code) =
        [s EXCEPT ![currProc] =
           [[[s[currProc] EXCEPT !.status = "Exited"] EXCEPT !.target = 0] EXCEPT !.exit = code]]
  BY DEF MarkExited
<1>3. \E q \in Processes : /\ MarkExited(s, code) = [s EXCEPT ![currProc] = q]
                           /\ q.pid = s[currProc].pid /\ q.prio = s[currProc].prio
  BY <1>1, <1>2
<1> QED
  BY <1>3 DEF SameKeys

(* Vec::remove and Vec::swap_remove of an entry behind init's.             *)
LEMMA RemoveFact ==
    ASSUME len \in 2 .. MaxProcs, NEW s, NEW p, Table(s, len, p), NEW k \in 3 .. len
    PROVE  /\ len - 1 \in 2 .. MaxProcs
           /\ Table(Remove(s, k), len - 1, p)
           /\ Remove(s, k)[2] = s[2]
<1>1. /\ len \in Nat /\ len - 1 \in 2 .. MaxProcs
      /\ 1 \in Slots /\ 2 \in Slots
      /\ \A i \in Slots : i < len => i + 1 \in Slots
      /\ \A i \in 1 .. len : i \in Slots
  BY MaxProcsAssumption DEF Slots
<1>2. /\ Remove(s, k) \in [Slots -> Processes]
      /\ \A i \in Slots : Remove(s, k)[i] = IF k <= i /\ i < len THEN s[i + 1] ELSE s[i]
  BY <1>1 DEF Remove, Table
<1>3. Remove(s, k)[1] = s[1] /\ Remove(s, k)[2] = s[2]
  BY <1>1, <1>2
<1>4. ASSUME NEW i \in 1 .. len - 1
      PROVE  \E a \in 1 .. len : /\ Remove(s, k)[i] = s[a]
                                 /\ a = IF k <= i THEN i + 1 ELSE i
  <2>1. i \in Slots /\ i < len /\ i + 1 \in 1 .. len /\ i \in 1 .. len
    BY <1>1, <1>4
  <2> QED
    BY <1>2, <2>1
<1>5. ASSUME NEW i \in 1 .. len - 1, NEW j \in 1 .. len - 1,
             Remove(s, k)[i].pid = Remove(s, k)[j].pid
      PROVE  i = j
  <2>1. PICK a \in 1 .. len : /\ Remove(s, k)[i] = s[a]
                              /\ a = IF k <= i THEN i + 1 ELSE i
    BY <1>4
  <2>2. PICK b \in 1 .. len : /\ Remove(s, k)[j] = s[b]
                              /\ b = IF k <= j THEN j + 1 ELSE j
    BY <1>4
  <2>3. a = b
    BY <1>5, <2>1, <2>2 DEF Table
  <2> QED
    BY <2>1, <2>2, <2>3
<1>6. \A i \in 1 .. len - 1 : Remove(s, k)[i].pid < p
  BY <1>4 DEF Table
<1> QED
  BY <1>1, <1>2, <1>3, <1>5, <1>6 DEF Table

LEMMA SwapRemoveFact ==
    ASSUME len \in 2 .. MaxProcs, NEW s, NEW p, Table(s, len, p), NEW k \in 3 .. len
    PROVE  /\ len - 1 \in 2 .. MaxProcs
           /\ Table(SwapRemove(s, k), len - 1, p)
           /\ SwapRemove(s, k)[2] = s[2]
<1>1. /\ len - 1 \in 2 .. MaxProcs
      /\ 1 \in Slots /\ 2 \in Slots /\ k \in Slots /\ len \in 1 .. len
      /\ \A i \in 1 .. len : i \in Slots
      /\ \A i \in 1 .. len - 1 : i \in 1 .. len /\ i # len
  BY MaxProcsAssumption DEF Slots
<1>2. /\ SwapRemove(s, k) \in [Slots -> Processes]
      /\ \A i \in Slots : SwapRemove(s, k)[i] = IF i = k THEN s[len] ELSE s[i]
  BY <1>1 DEF SwapRemove, Table
<1>3. SwapRemove(s, k)[1] = s[1] /\ SwapRemove(s, k)[2] = s[2]
  BY <1>1, <1>2
<1> QED
  BY <1>1, <1>2, <1>3 DEF Table

-----------------------------------------------------------------------------
(* Scheduler::schedule, for any table t it is given (the one a tick finds, *)
(* or the one an exit has changed).                                        *)
LEMMA ScheduleKeeps ==
    ASSUME PInv, NEW t, Table(t, len, nextPid), t[2].exit = None,
           NEW c \in Contexts, Schedule(t, c),
           nextPid' = nextPid, stdinBlocked' \in BOOLEAN, staleUse' \in BOOLEAN,
           machine = "up"
    PROVE  PInv'
<1> DEFINE s == SaveCurrent(t, c)
           best == Max(Kept(s))
           chosen == [s EXCEPT ![best].status = "Running", ![best].target = 0]
           reap == ReapIndexes(s)
<1>1. /\ len \in 2 .. MaxProcs /\ len \in Nat
      /\ 1 \in Slots /\ 2 \in Slots /\ Live \subseteq Slots /\ Live = 1 .. len
      /\ t \in [Slots -> Processes]
      /\ s \in [Slots -> Processes]
  BY MaxProcsAssumption, SaveCurrentFact DEF PInv, TypeOK, Table, Slots, Live
<1>2. Table(s, len, nextPid) /\ s[2].exit = None
  <2>1. SameKeys(t, s) /\ s[1].exit = None /\ s[2].exit = None
    BY <1>1, SaveCurrentFact DEF Table
  <2> QED
    BY <1>1, <2>1, TableKept
<1> HIDE DEF s
<1>3. CASE Kept(s) = {}
  <2>1. /\ slots' = s
        /\ cpu' = Context("idle", Idle)
        /\ UNCHANGED <<len, currProc, currentPid, rax, machine>>
    BY <1>3 DEF Schedule, s
  <2>2. cpu' \in Contexts
    BY <2>1, ContextFact DEF Modes, Pids, Idle
  <2> QED
    BY <1>1, <1>2, <2>1, <2>2 DEF PInv, TypeOK
<1>4. CASE Kept(s) # {}
  <2>1. /\ slots' = IF reap = {} THEN chosen ELSE Remove(chosen, Min(reap))
        /\ len' = IF reap = {} THEN len ELSE len - 1
        /\ currProc' = best
        /\ currentPid' = s[best].pid
        /\ rax' = IF Woken(s) = {} THEN rax
                  ELSE [pid |-> s[best].pid, val |-> WakeCode(s)]
        /\ Resume(s[best].ctx)
    BY <1>4 DEF Schedule, s
  <2>2. best \in Kept(s) /\ best \in Live /\ best \in Slots
    <3>1. Kept(s) \subseteq 1 .. len
      BY <1>1 DEF Kept
    <3>2. best \in Kept(s)
      BY <1>1, <1>4, <3>1, MaxExists
    <3> QED
      BY <1>1, <3>2 DEF Kept
  <2>3. best # 1
    BY <2>2, <1>2 DEF Kept, Improves, Table, LowestPriority
  <2>4. /\ s[best] \in Processes
        /\ s[best].pid \in Pids
        /\ s[best].ctx \in Contexts
        /\ best = 2 => s[best].pid = InitPid
    BY <1>1, <1>2, <2>2 DEF Processes, Table
  <2>5. /\ reap \subseteq Live
        /\ \A k \in reap : s[k].exit # None
    <3>1. CASE Woken(s) = {}
      BY <3>1 DEF ReapIndexes
    <3>2. CASE Woken(s) # {}
      <4>1. Woken(s) \subseteq 1 .. len
        BY <1>1 DEF Woken, Kept
      <4>2. Max(Woken(s)) \in Woken(s)
        BY <1>1, <3>2, <4>1, MaxExists
      <4>3. Wakeable(s, Max(Woken(s)))
        BY <4>2 DEF Woken
      <4> QED
        BY <3>2, <4>3 DEF ReapIndexes, Wakeable, IndexesOf
    <3> QED
      BY <3>1, <3>2
  <2>6. reap # {} => /\ Min(reap) \in reap
                     /\ Min(reap) \in 3 .. len
                     /\ s[Min(reap)].exit \in Codes \cup {None}
    <3> SUFFICES ASSUME reap # {} PROVE /\ Min(reap) \in reap
                                        /\ Min(reap) \in 3 .. len
                                        /\ s[Min(reap)].exit \in Codes \cup {None}
      OBVIOUS
    <3>1. reap \subseteq Nat
      BY <1>1, <2>5
    <3>2. Min(reap) \in reap
      BY <3>1, MinExists
    <3>3. Min(reap) # 1 /\ Min(reap) # 2
      BY <1>2, <2>5, <3>2 DEF Table
    <3>4. Min(reap) \in 3 .. len
      BY <1>1, <2>5, <3>2, <3>3
    <3>5. s[Min(reap)] \in Processes
      BY <1>1, <2>5, <3>2
    <3> QED
      BY <3>2, <3>4, <3>5 DEF Processes
  <2>7. Table(chosen, len, nextPid) /\ chosen[2].exit = None
    <3>1. ASSUME NEW r \in Processes
          PROVE  LET q == [[r EXCEPT !.status = "Running"] EXCEPT !.target = 0]
                 IN  q \in Processes /\ q.pid = r.pid /\ q.prio = r.prio /\ q.exit = r.exit
      BY DEF Processes, Statuses, Pids
    <3>2. chosen = [s EXCEPT ![best] = [[s[best] EXCEPT !.status = "Running"] EXCEPT !.target = 0]]
      OBVIOUS
    <3>3. \E q \in Processes : /\ chosen = [s EXCEPT ![best] = q]
                               /\ q.pid = s[best].pid /\ q.prio = s[best].prio
                               /\ q.exit = s[best].exit
      BY <2>4, <3>1, <3>2
    <3>4. /\ chosen \in [Slots -> Processes] /\ SameKeys(s, chosen)
          /\ chosen[1].exit = None /\ chosen[2].exit = None
      BY <1>1, <1>2, <2>2, <3>3 DEF SameKeys, Table
    <3> QED
      BY <1>1, <1>2, <3>4, TableKept
  <2> HIDE DEF chosen, best, reap
  <2>8. len' \in 2 .. MaxProcs /\ Table(slots', len', nextPid') /\ slots'[2].exit = None
    <3>1. CASE reap = {}
      BY <1>1, <2>1, <2>7, <3>1
    <3>2. CASE reap # {}
      BY <1>1, <2>1, <2>6, <2>7, <3>2, RemoveFact
    <3> QED
      BY <3>1, <3>2
  <2>9. rax' \in [pid : Pids, val : Codes \cup {None}]
    <3>1. WakeCode(s) \in Codes \cup {None}
      BY <2>6, CodesAssumption DEF WakeCode, reap
    <3> QED
      BY <2>1, <2>4, <3>1 DEF PInv, TypeOK
  <2>10. cpu' \in Contexts /\ machine' \in {"up", "panic", "undefined"}
    BY <2>1, <2>4 DEF Resume
  <2>11. TypeOK'
    BY <2>1, <2>2, <2>4, <2>8, <2>9, <2>10 DEF PInv, TypeOK, Table
  <2> QED
    BY <2>1, <2>3, <2>4, <2>8, <2>11 DEF PInv
<1> QED
  BY <1>3, <1>4

-----------------------------------------------------------------------------
(* The invariant holds when kmain enters init, and every action keeps it.  *)

LEMMA InitEstablishes == Init => PInv
<1> SUFFICES ASSUME Init PROVE PInv
  OBVIOUS
<1>1. 1 \in Slots /\ 2 \in Slots /\ 2 \in 2 .. MaxProcs
  BY MaxProcsAssumption DEF Slots
<1>2. \A m \in Modes, p \in {0, 1} : Context(m, p) \in Contexts
  BY ContextFact DEF Pids
<1>3. /\ IdleProcess \in Processes /\ InitProcess \in Processes /\ Unwritten \in Processes
      /\ IdleProcess.pid = 0 /\ IdleProcess.exit = None
      /\ IdleProcess.prio = LowestPriority
      /\ InitProcess.pid = 1 /\ InitProcess.exit = None
  BY <1>2 DEF IdleProcess, InitProcess, Unwritten, ZeroContext, Processes, Statuses, Pids,
              Idle, InitPid, LowestPriority, DefaultPriority, Modes
<1>4. /\ slots \in [Slots -> Processes]
      /\ slots[1] = IdleProcess /\ slots[2] = InitProcess
  BY <1>1, <1>3 DEF Init
<1>5. Table(slots, len, nextPid)
  <2>1. \A i \in 1 .. 2 : i = 1 \/ i = 2
    OBVIOUS
  <2> QED
    BY <1>3, <1>4, <2>1 DEF Table, Init, Idle, InitPid
<1>6. TypeOK
  <2>1. cpu \in Contexts
    BY <1>2 DEF Init, InitPid, Modes
  <2>2. rax \in [pid : Pids, val : Codes \cup {None}]
    BY DEF Init, Idle, Pids
  <2>3. /\ len \in 2 .. MaxProcs /\ currProc \in Slots
        /\ currentPid \in Pids /\ nextPid \in Nat \ {0, 1}
    BY <1>1 DEF Init, InitPid, Pids
  <2>4. /\ stdinBlocked \in BOOLEAN /\ staleUse \in BOOLEAN
        /\ machine \in {"up", "panic", "undefined"}
    BY DEF Init
  <2> QED
    BY <1>4, <2>1, <2>2, <2>3, <2>4 DEF TypeOK
<1> QED
  BY <1>3, <1>4, <1>5, <1>6 DEF PInv, Init

LEMMA TickKeeps ==
    ASSUME PInv, Tick PROVE PInv'
<1>1. /\ machine = "up" /\ Schedule(slots, cpu)
      /\ nextPid' = nextPid /\ stdinBlocked' \in BOOLEAN /\ staleUse' \in BOOLEAN
      /\ cpu \in Contexts /\ Table(slots, len, nextPid) /\ slots[2].exit = None
  BY DEF PInv, TypeOK, Tick
<1> QED
  BY <1>1, ScheduleKeeps

(* What every system call starts from.                                     *)
LEMMA EntryFact ==
    ASSUME PInv, SyscallEntry
    PROVE  /\ machine = "up"
           /\ staleUse' \in BOOLEAN
           /\ len \in 2 .. MaxProcs
           /\ 1 \in Slots /\ 2 \in Slots /\ Live \subseteq Slots /\ Live = 1 .. len
           /\ currProc \in Slots /\ currProc # 1
           /\ AtEntry \in [Slots -> Processes]
           /\ SameKeys(slots, AtEntry)
           /\ \A i \in Slots : AtEntry[i].exit = slots[i].exit
           /\ slots[1].exit = None /\ slots[2].exit = None
           /\ Table(AtEntry, len, nextPid)
<1>1. /\ machine = "up" /\ staleUse' \in BOOLEAN /\ len \in 2 .. MaxProcs
      /\ 1 \in Slots /\ 2 \in Slots /\ Live \subseteq Slots /\ Live = 1 .. len
      /\ currProc \in Slots /\ currProc # 1
      /\ slots[1].exit = None /\ slots[2].exit = None
      /\ Table(slots, len, nextPid)
  BY MaxProcsAssumption DEF PInv, TypeOK, SyscallEntry, PointerSound, Table, Slots, Live
<1>2. /\ AtEntry \in [Slots -> Processes]
      /\ SameKeys(slots, AtEntry)
      /\ \A i \in Slots : AtEntry[i].exit = slots[i].exit
  BY AtEntryFact DEF PInv, TypeOK
<1>3. Table(AtEntry, len, nextPid)
  BY <1>1, <1>2, TableKept
<1> QED
  BY <1>1, <1>2, <1>3

(* fork: NEXT_PID is above every pid in the table, so the child's is new.  *)
LEMMA ForkKeeps ==
    ASSUME PInv, Fork PROVE PInv'
<1>1. SyscallEntry /\ nextPid' = nextPid + 1 /\ nextPid \in Nat \ {0, 1}
  BY DEF Fork, PInv, TypeOK
<1>2. UNCHANGED <<currProc, currentPid, cpu, stdinBlocked, rax, machine>>
  BY DEF Fork
<1>3. Table(AtEntry, len, nextPid + 1) /\ AtEntry[2].exit = None
  <2>1. \A i \in 1 .. len : AtEntry[i].pid \in Nat
    BY <1>1, EntryFact DEF Processes, Pids
  <2> QED
    BY <1>1, <2>1, EntryFact DEF Table
<1>4. Table(slots', len', nextPid') /\ len' \in 2 .. MaxProcs /\ slots'[2].exit = None
  <2>1. CASE HasRoom
    <3>1. slots' = [AtEntry EXCEPT ![len + 1] = Child] /\ len' = len + 1
      BY <2>1 DEF Fork
    <3>2. len + 1 \in Slots /\ len + 1 \in 2 .. MaxProcs /\ len + 1 # 1 /\ len + 1 # 2
      BY <1>1, <2>1, EntryFact, MaxProcsAssumption DEF HasRoom, Slots
    <3>3. slots[currProc] \in Processes
      BY <1>1, EntryFact DEF PInv, TypeOK
    <3>4. Child \in Processes /\ Child.pid = nextPid
      BY <1>1, <3>3, ContextFact DEF Child, Processes, Statuses, Modes, Pids
    <3>5. /\ slots' \in [Slots -> Processes]
          /\ slots'[1] = AtEntry[1] /\ slots'[2] = AtEntry[2]
          /\ slots'[len + 1] = Child
          /\ \A i \in 1 .. len : slots'[i] = AtEntry[i]
      BY <1>1, <3>1, <3>2, <3>4, EntryFact
    <3>6. \A i \in 1 .. len + 1 : i \in 1 .. len \/ i = len + 1
      BY <1>1, EntryFact
    <3>7. \A i \in 1 .. len : slots'[i].pid < nextPid /\ slots'[i].pid \in Nat
      BY <1>1, <3>5, EntryFact DEF Table, Processes, Pids
    <3>8. \A i, j \in 1 .. len + 1 : slots'[i].pid = slots'[j].pid => i = j
      <4>1. \A i \in 1 .. len : slots'[i].pid # slots'[len + 1].pid
        BY <1>1, <3>4, <3>5, <3>7
      <4>2. \A i, j \in 1 .. len : slots'[i].pid = slots'[j].pid => i = j
        BY <1>3, <3>5 DEF Table
      <4> QED
        BY <3>6, <4>1, <4>2
    <3>9. \A i \in 1 .. len + 1 : slots'[i].pid < nextPid + 1
      BY <1>1, <3>4, <3>5, <3>6, <3>7
    <3> QED
      BY <1>1, <1>3, <3>1, <3>2, <3>5, <3>8, <3>9 DEF Table
  <2>2. CASE ~HasRoom
    BY <1>1, <1>3, <2>2, EntryFact DEF Fork
  <2> QED
    BY <2>1, <2>2
<1>5. TypeOK'
  BY <1>1, <1>2, <1>4, EntryFact DEF PInv, TypeOK, Table
<1> QED
  BY <1>2, <1>4, <1>5 DEF PInv

(* exit: the process that ends is neither idle nor, unless the kernel      *)
(* panics, init.                                                           *)
LEMMA ExitKeeps ==
    ASSUME PInv, Exit PROVE PInv'
<1>1. SyscallEntry /\ UNCHANGED <<nextPid, stdinBlocked>>
  BY DEF Exit
<1>2. PICK code \in Codes :
        IF slots[currProc].pid = InitPid
        THEN /\ slots' = MarkExited(AtEntry, code)
             /\ machine' = "panic"
             /\ UNCHANGED <<len, currProc, currentPid, cpu, rax>>
        ELSE Schedule(Reparent(MarkExited(AtEntry, code)), ZeroContext)
  BY DEF Exit
<1> DEFINE m == MarkExited(AtEntry, code)
<1>3. /\ m \in [Slots -> Processes]
      /\ SameKeys(AtEntry, m)
      /\ \A i \in Slots \ {currProc} : m[i].exit = slots[i].exit
  BY <1>1, EntryFact, MarkExitedFact
<1>4. Table(m, len, nextPid)
  BY <1>1, <1>3, EntryFact, TableKept
<1> HIDE DEF m
<1>5. CASE slots[currProc].pid = InitPid
  <2>1. /\ slots' = m /\ machine' = "panic"
        /\ UNCHANGED <<len, currProc, currentPid, cpu, rax>>
    BY <1>2, <1>5 DEF m
  <2> QED
    BY <1>1, <1>3, <1>4, <2>1, EntryFact DEF PInv, TypeOK
<1>6. CASE slots[currProc].pid # InitPid
  <2>1. Schedule(Reparent(m), ZeroContext)
    BY <1>2, <1>6 DEF m
  <2>2. currProc # 2
    BY <1>6 DEF PInv, Table
  <2>3. m[1].exit = None /\ m[2].exit = None
    BY <1>1, <1>3, <2>2, EntryFact
  <2>4. /\ Reparent(m) \in [Slots -> Processes] /\ SameKeys(m, Reparent(m))
        /\ Reparent(m)[1].exit = None /\ Reparent(m)[2].exit = None
    BY <1>1, <1>3, <2>3, EntryFact, ReparentFact
  <2>5. Table(Reparent(m), len, nextPid)
    BY <1>1, <1>4, <2>4, EntryFact, TableKept
  <2>6. ZeroContext \in Contexts
    BY ContextFact DEF ZeroContext, Modes, Pids, Idle
  <2>7. stdinBlocked' \in BOOLEAN /\ nextPid' = nextPid
    BY <1>1 DEF PInv, TypeOK
  <2> QED
    BY <1>1, <2>1, <2>4, <2>5, <2>6, <2>7, EntryFact, ScheduleKeeps
<1> QED
  BY <1>5, <1>6

(* waitpid removes only zombies, so neither idle nor init.                 *)
LEMMA ReapNowKeeps ==
    ASSUME PInv, SyscallEntry, NEW k \in Live, slots[k].exit # None, ReapNow(k)
    PROVE  /\ len' \in 2 .. MaxProcs
           /\ Table(slots', len', nextPid)
           /\ slots'[2].exit = None
           /\ cpu' \in Contexts
           /\ rax' \in [pid : Pids, val : Codes \cup {None}]
<1>1. k \in 3 .. len
  <2>1. k # 1 /\ k # 2
    BY EntryFact
  <2> QED
    BY <2>1, EntryFact
<1>2. slots' = SwapRemove(AtEntry, k) /\ len' = len - 1 /\ cpu' = cpu
  BY DEF ReapNow
<1>3. rax' \in [pid : Pids, val : Codes \cup {None}]
  <2>1. slots[k] \in Processes /\ currentPid \in Pids
    BY EntryFact DEF PInv, TypeOK
  <2> QED
    BY <2>1 DEF ReapNow, Processes
<1>4. AtEntry[2].exit = None
  BY EntryFact
<1> QED
  BY <1>1, <1>2, <1>3, <1>4, EntryFact, SwapRemoveFact DEF PInv, TypeOK

LEMMA WaitForKeeps ==
    ASSUME PInv, SyscallEntry, NEW target \in Pids, WaitFor(target)
    PROVE  /\ len' \in 2 .. MaxProcs
           /\ Table(slots', len', nextPid)
           /\ slots'[2].exit = None
           /\ cpu' \in Contexts
           /\ rax' \in [pid : Pids, val : Codes \cup {None}]
<1> DEFINE found == IndexesOf(slots, target)
<1>1. CASE Zombies(found) # {} /\ ReapNow(Min(Zombies(found)))
  <2>1. Zombies(found) \subseteq Nat
    BY EntryFact DEF Zombies, IndexesOf
  <2>2. Min(Zombies(found)) \in Zombies(found)
    BY <1>1, <2>1, MinExists
  <2>3. Min(Zombies(found)) \in Live /\ slots[Min(Zombies(found))].exit # None
    BY <2>2 DEF Zombies, IndexesOf
  <2> QED
    BY <1>1, <2>3, ReapNowKeeps
<1>2. CASE /\ slots' = [AtEntry EXCEPT ![currProc].status = "WaitingFor",
                                       ![currProc].target = target]
           /\ cpu' = [cpu EXCEPT !.mode = "hlt"]
           /\ UNCHANGED <<len, rax>>
  <2>1. ASSUME NEW r \in Processes
        PROVE  LET q == [[r EXCEPT !.status = "WaitingFor"] EXCEPT !.target = target]
               IN  q \in Processes /\ q.pid = r.pid /\ q.prio = r.prio /\ q.exit = r.exit
    BY DEF Processes, Statuses
  <2>2. \E q \in Processes : /\ slots' = [AtEntry EXCEPT ![currProc] = q]
                             /\ q.pid = AtEntry[currProc].pid
                             /\ q.prio = AtEntry[currProc].prio
                             /\ q.exit = AtEntry[currProc].exit
    <3>1. AtEntry[currProc] \in Processes
      BY EntryFact
    <3>2. slots' = [AtEntry EXCEPT ![currProc] =
                      [[AtEntry[currProc] EXCEPT !.status = "WaitingFor"] EXCEPT !.target = target]]
      BY <1>2
    <3> QED
      BY <2>1, <3>1, <3>2
  <2>3. /\ slots' \in [Slots -> Processes] /\ SameKeys(AtEntry, slots')
        /\ slots'[1].exit = None /\ slots'[2].exit = None
    BY <2>2, EntryFact DEF SameKeys
  <2>4. Table(slots', len, nextPid)
    BY <2>3, EntryFact, TableKept
  <2>5. cpu' \in Contexts
    BY <1>2 DEF PInv, TypeOK, Contexts, Modes
  <2> QED
    BY <1>2, <2>3, <2>4, <2>5 DEF PInv, TypeOK
<1>3. CASE slots' = AtEntry /\ UNCHANGED <<len, cpu, rax>>
  BY <1>3, EntryFact DEF PInv, TypeOK
<1> QED
  BY <1>1, <1>2, <1>3 DEF WaitFor

LEMMA WaitPidKeeps ==
    ASSUME PInv, WaitPid PROVE PInv'
<1>1. /\ SyscallEntry
      /\ UNCHANGED <<currProc, currentPid, nextPid, stdinBlocked, machine>>
  BY DEF WaitPid
<1> DEFINE kids == Children(currentPid)
<1>2. PICK target \in WaitTargets :
        IF target # -1 THEN WaitFor(target)
        ELSE \/ Zombies(kids) # {} /\ ReapNow(Min(Zombies(kids)))
             \/ /\ kids # {} /\ Zombies(kids) = {}
                /\ WaitFor(slots[Min(kids)].pid)
             \/ /\ kids = {}
                /\ slots' = AtEntry
                /\ UNCHANGED <<len, cpu, rax>>
  BY DEF WaitPid
<1>3. \A k \in kids : k \in Live /\ slots[k].pid \in Pids
  BY <1>1, EntryFact DEF Children, PInv, TypeOK, Processes
<1>4. /\ len' \in 2 .. MaxProcs
      /\ Table(slots', len', nextPid)
      /\ slots'[2].exit = None
      /\ cpu' \in Contexts
      /\ rax' \in [pid : Pids, val : Codes \cup {None}]
  <2>1. CASE target # -1
    <3>1. target \in Pids
      <4>1. CASE WaitArgs = "any"
        BY <2>1, <4>1 DEF WaitTargets
      <4>2. CASE WaitArgs = "child"
        BY <1>3, <2>1, <4>2 DEF WaitTargets
      <4>3. CASE WaitArgs = "pid"
        BY <2>1, <4>3, MaxPidAssumption DEF WaitTargets, Pids
      <4> QED
        BY <4>1, <4>2, <4>3, WaitArgsAssumption
    <3> QED
      BY <1>1, <1>2, <2>1, <3>1, WaitForKeeps
  <2>2. CASE Zombies(kids) # {} /\ ReapNow(Min(Zombies(kids)))
    <3>1. Zombies(kids) \subseteq Nat
      BY <1>1, <1>3, EntryFact DEF Zombies
    <3>2. Min(Zombies(kids)) \in Zombies(kids)
      BY <2>2, <3>1, MinExists
    <3>3. Min(Zombies(kids)) \in Live /\ slots[Min(Zombies(kids))].exit # None
      BY <1>3, <3>2 DEF Zombies
    <3> QED
      BY <1>1, <2>2, <3>3, ReapNowKeeps
  <2>3. CASE kids # {} /\ WaitFor(slots[Min(kids)].pid)
    <3>1. kids \subseteq Nat
      BY <1>1, <1>3, EntryFact
    <3>2. Min(kids) \in kids
      BY <2>3, <3>1, MinExists
    <3> QED
      BY <1>1, <1>3, <2>3, <3>2, WaitForKeeps
  <2>4. CASE slots' = AtEntry /\ UNCHANGED <<len, cpu, rax>>
    BY <1>1, <2>4, EntryFact DEF PInv, TypeOK
  <2> QED
    BY <1>2, <2>1, <2>2, <2>3, <2>4
<1>5. TypeOK'
  BY <1>1, <1>4, EntryFact DEF PInv, TypeOK, Table
<1> QED
  BY <1>1, <1>4, <1>5 DEF PInv

(* execve writes the entry behind the pointer and re-reads its pid.        *)
LEMMA ExecKeeps ==
    ASSUME PInv, Exec PROVE PInv'
<1>1. /\ SyscallEntry
      /\ slots' = [AtEntry EXCEPT ![currProc].status = "Running", ![currProc].target = 0,
                                  ![currProc].ctx = ZeroContext]
      /\ currentPid' = slots[currProc].pid
      /\ cpu' = Context("user", slots[currProc].pid)
      /\ UNCHANGED <<len, currProc, nextPid, stdinBlocked, rax, machine>>
  BY DEF Exec
<1>2. ZeroContext \in Contexts
  BY ContextFact DEF ZeroContext, Modes, Pids, Idle
<1>3. ASSUME NEW r \in Processes, NEW c \in Contexts
      PROVE  LET q == [[[r EXCEPT !.status = "Running"] EXCEPT !.target = 0] EXCEPT !.ctx = c]
             IN  q \in Processes /\ q.pid = r.pid /\ q.prio = r.prio /\ q.exit = r.exit
  BY DEF Processes, Statuses, Pids
<1>4. \E q \in Processes : /\ slots' = [AtEntry EXCEPT ![currProc] = q]
                           /\ q.pid = AtEntry[currProc].pid
                           /\ q.prio = AtEntry[currProc].prio
                           /\ q.exit = AtEntry[currProc].exit
  <2>1. AtEntry[currProc] \in Processes
    BY <1>1, EntryFact
  <2>2. slots' = [AtEntry EXCEPT ![currProc] =
                    [[[AtEntry[currProc] EXCEPT !.status = "Running"] EXCEPT !.target = 0]
                       EXCEPT !.ctx = ZeroContext]]
    BY <1>1
  <2> QED
    BY <1>2, <1>3, <2>1, <2>2
<1>5. /\ slots' \in [Slots -> Processes] /\ SameKeys(AtEntry, slots')
      /\ slots'[1].exit = None /\ slots'[2].exit = None
  <2>1. /\ AtEntry \in [Slots -> Processes] /\ 1 \in Slots /\ 2 \in Slots
        /\ currProc \in Slots
        /\ AtEntry[1].exit = None /\ AtEntry[2].exit = None
    BY <1>1, EntryFact
  <2> QED
    BY <1>4, <2>1 DEF SameKeys
<1>6. Table(slots', len, nextPid)
  <2>1. len \in 2 .. MaxProcs /\ Table(AtEntry, len, nextPid)
    BY <1>1, EntryFact
  <2> QED
    BY <1>5, <2>1, TableKept
<1>7. slots[currProc].pid \in Pids /\ (currProc = 2 => slots[currProc].pid = InitPid)
  BY <1>1, EntryFact DEF PInv, TypeOK, Table, Processes
<1>8. cpu' \in Contexts
  BY <1>1, <1>7, ContextFact DEF Modes
<1> QED
  BY <1>1, <1>5, <1>6, <1>7, <1>8, EntryFact DEF PInv, TypeOK

(* Entering and leaving the kernel, and blocking on stdin.                 *)
LEMMA KernelKeeps ==
    ASSUME PInv, EnterKernel \/ LeaveKernel \/ BlockOnStdin PROVE PInv'
<1>1. \A m \in Modes : [cpu EXCEPT !.mode = m] \in Contexts
  BY DEF PInv, TypeOK, Contexts
<1>2. CASE EnterKernel
  <2>1. /\ SyscallEntry
        /\ slots' = AtEntry
        /\ cpu' \in Contexts
        /\ UNCHANGED <<len, currProc, currentPid, nextPid, stdinBlocked, rax, machine>>
    BY <1>1, <1>2 DEF EnterKernel, Modes
  <2> QED
    BY <2>1, EntryFact DEF PInv, TypeOK
<1>3. CASE LeaveKernel
  <2>1. /\ cpu' \in Contexts
        /\ UNCHANGED <<slots, len, currProc, currentPid, nextPid, stdinBlocked, rax,
                       machine, staleUse>>
    BY <1>1, <1>3 DEF LeaveKernel, Modes
  <2> QED
    BY <2>1 DEF PInv, TypeOK
<1>4. CASE BlockOnStdin
  <2>1. /\ machine = "up"
        /\ slots' = [slots EXCEPT ![currProc].status = "Blocked", ![currProc].target = 0]
        /\ UNCHANGED <<len, currProc, currentPid, nextPid, cpu, rax, machine>>
        /\ stdinBlocked' \in BOOLEAN /\ staleUse' \in BOOLEAN
    BY <1>4 DEF BlockOnStdin, PInv, TypeOK, PointerSound
  <2>2. /\ slots \in [Slots -> Processes] /\ currProc \in Slots
        /\ 1 \in Slots /\ 2 \in Slots /\ len \in 2 .. MaxProcs
        /\ Table(slots, len, nextPid) /\ slots[1].exit = None /\ slots[2].exit = None
    BY <2>1, MaxProcsAssumption DEF PInv, TypeOK, Table, Slots
  <2>3. ASSUME NEW r \in Processes
        PROVE  LET q == [[r EXCEPT !.status = "Blocked"] EXCEPT !.target = 0]
               IN  q \in Processes /\ q.pid = r.pid /\ q.prio = r.prio /\ q.exit = r.exit
    BY DEF Processes, Statuses, Pids
  <2>4. \E q \in Processes : /\ slots' = [slots EXCEPT ![currProc] = q]
                             /\ q.pid = slots[currProc].pid
                             /\ q.prio = slots[currProc].prio
                             /\ q.exit = slots[currProc].exit
    <3> DEFINE r == slots[currProc]
               q == [[r EXCEPT !.status = "Blocked"] EXCEPT !.target = 0]
    <3>1. r \in Processes
      BY <2>2
    <3>2. q \in Processes /\ q.pid = r.pid /\ q.prio = r.prio /\ q.exit = r.exit
      BY <2>3, <3>1
    <3>3. slots' = [slots EXCEPT ![currProc] = q]
      BY <2>1, <2>2
    <3> HIDE DEF q
    <3> QED
      BY <3>2, <3>3
  <2>5. /\ slots' \in [Slots -> Processes] /\ SameKeys(slots, slots')
        /\ slots'[1].exit = None /\ slots'[2].exit = None
    BY <2>2, <2>4 DEF SameKeys
  <2>6. Table(slots', len, nextPid)
    BY <2>2, <2>5, TableKept
  <2> QED
    BY <2>1, <2>5, <2>6 DEF PInv, TypeOK
<1> QED
  BY <1>2, <1>3, <1>4

(* The fault handler marks the slot behind the pointer, and panics only    *)
(* when current_pid is init's: the two never disagree about init.          *)
LEMMA PageFaultKeeps ==
    ASSUME PInv, PageFault PROVE PInv'
<1> DEFINE m == MarkExited(slots, -1)
<1>1. /\ machine = "up"
      /\ slots' = Reparent(m)
      /\ cpu' = [cpu EXCEPT !.mode = "fault"]
      /\ machine' = IF currentPid = InitPid THEN "panic" ELSE "up"
      /\ staleUse' \in BOOLEAN
      /\ UNCHANGED <<len, currProc, currentPid, nextPid, stdinBlocked, rax>>
  BY DEF PageFault, PInv, TypeOK, PointerSound
<1>2. /\ slots \in [Slots -> Processes] /\ currProc \in Slots /\ currProc # 1
      /\ 1 \in Slots /\ 2 \in Slots /\ len \in 2 .. MaxProcs
      /\ Table(slots, len, nextPid) /\ slots[1].exit = None /\ slots[2].exit = None
      /\ currProc = 2 => currentPid = InitPid
  BY <1>1, MaxProcsAssumption DEF PInv, TypeOK, Table, Slots
<1>3. /\ m \in [Slots -> Processes]
      /\ SameKeys(slots, m)
      /\ \A i \in Slots \ {currProc} : m[i].exit = slots[i].exit
  BY <1>2, CodesAssumption, MarkExitedFact
<1>4. Table(m, len, nextPid) /\ m[1].exit = None /\ (currProc # 2 => m[2].exit = None)
  BY <1>2, <1>3, TableKept
<1> HIDE DEF m
<1>5. /\ slots' \in [Slots -> Processes] /\ SameKeys(m, slots')
      /\ slots'[1].exit = None /\ slots'[2].exit = m[2].exit
  BY <1>1, <1>2, <1>3, <1>4, ReparentFact
<1>6. Table(slots', len, nextPid)
  BY <1>2, <1>4, <1>5, TableKept
<1>7. machine' = "up" => slots'[2].exit = None
  BY <1>1, <1>2, <1>4, <1>5
<1>8. cpu' \in Contexts
  BY <1>1 DEF PInv, TypeOK, Contexts, Modes
<1>9. machine' \in {"up", "panic", "undefined"}
  BY <1>1
<1> QED
  BY <1>1, <1>2, <1>5, <1>6, <1>7, <1>8, <1>9 DEF PInv, TypeOK

-----------------------------------------------------------------------------
LEMMA Inductive == PInv /\ [Next]_vars => PInv'
<1> SUFFICES ASSUME PInv, [Next]_vars PROVE PInv'
  OBVIOUS
<1>1. CASE UNCHANGED vars
  BY <1>1 DEF vars, PInv, TypeOK
<1>2. CASE Key
  BY <1>2 DEF Key, PInv, TypeOK
<1>3. CASE Stopped
  BY <1>1, <1>3 DEF Stopped
<1> QED
  BY <1>1, <1>2, <1>3, TickKeeps, ForkKeeps, ExitKeeps, WaitPidKeeps, ExecKeeps, KernelKeeps,
     PageFaultKeeps DEF Next

(* Every field of the table, the scheduler and the CPU keeps its type, and *)
(* PROCESSES stays within its capacity, whatever stale pointers write.     *)
THEOREM TypeCorrect == Spec => []TypeOK
<1>1. PInv => TypeOK
  BY DEF PInv
<1> QED
  BY <1>1, InitEstablishes, Inductive, PTL DEF Spec

(* fork, remove and swap_remove never leave two entries with one pid.      *)
THEOREM PidsUnique == Spec => []UniquePids
<1>1. PInv => UniquePids
  BY DEF PInv, UniquePids, Table, Live
<1> QED
  BY <1>1, InitEstablishes, Inductive, PTL DEF Spec

(* Idle and init keep their slots, and neither is ever a zombie in a       *)
(* machine that is up, though marking and removing go through a pointer    *)
(* that may be stale.                                                      *)
THEOREM SlotsPinned == Spec => []KernelSlotsPinned
<1>1. PInv => KernelSlotsPinned
  BY DEF PInv, KernelSlotsPinned, Table
<1> QED
  BY <1>1, InitEstablishes, Inductive, PTL DEF Spec
=============================================================================
