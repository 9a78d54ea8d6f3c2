-------------------------- MODULE CowMemoryProofs --------------------------
(***************************************************************************)
(* Proofs about CowMemory for every number of address spaces, pages,       *)
(* frames and values, under the condition Refork = FALSE: processes fork   *)
(* only when they hold no copy-on-write page.                              *)
(***************************************************************************)
EXTENDS CowMemory, FiniteSetTheorems, TLAPS

(* cow_clone_table, handle_cow_fault and internal_load give a page either  *)
(* the writable or the copy-on-write bit.                                  *)
WritableOrCow ==
    \A s \in Live, v \in Pages : pte[s][v].writable <=> ~pte[s][v].cow

(* Two entries that map one frame belong to different spaces, are both     *)
(* copy-on-write, and the frame's count is at least two.                   *)
SharedIsCounted ==
    \A s, t \in Live : \A v, w \in Pages :
        pte[s][v].frame = pte[t][w].frame =>
            \/ s = t /\ v = w
            \/ /\ s # t
               /\ pte[s][v].cow
               /\ refcount[pte[s][v].frame] >= 2

(* No frame is mapped by three spaces.  This is where Refork matters.      *)
AtMostTwo ==
    \A r, s, t \in Live : \A u, v, w \in Pages :
        pte[r][u].frame = pte[s][v].frame /\ pte[s][v].frame = pte[t][w].frame
            => r = s \/ s = t \/ r = t

(* What an interrupted clone has reached: the pages behind it are counted  *)
(* for the child that does not exist yet, those ahead are still writable.  *)
CloneProgress ==
    /\ cloning = NoSpace => next = 1
    /\ cloning # NoSpace =>
         \A v \in Pages :
            /\ v >= next => pte[cloning][v].writable
            /\ v < next => /\ refcount[pte[cloning][v].frame] >= 2
                           /\ pte[cloning][v].cow
                           /\ \A t \in Live, w \in Pages :
                                pte[t][w].frame = pte[cloning][v].frame => t = cloning

(* The inductive invariant.                                                *)
IInv ==
    /\ TypeOK
    /\ WritableOrCow
    /\ MappedNotFree
    /\ SharedIsCounted
    /\ AtMostTwo
    /\ CloneProgress
    /\ Isolation

-----------------------------------------------------------------------------
(* Writing one entry of one space changes that entry only.                 *)
LEMMA UpdateEntry ==
    ASSUME NEW D, NEW P, NEW E, NEW f \in [D -> [P -> E]],
           NEW a \in D, NEW p \in P, NEW e \in E,
           NEW g, g = [f EXCEPT ![a] = [@ EXCEPT ![p] = e]]
    PROVE  /\ g \in [D -> [P -> E]]
           /\ DOMAIN g = D
           /\ \A s \in D, v \in P : g[s][v] = IF s = a /\ v = p THEN e ELSE f[s][v]
  OBVIOUS

(* The entry internal_load and handle_cow_fault write.                     *)
LEMMA LoadedPageFact ==
    ASSUME NEW f \in Frames
    PROVE  /\ LoadedPage(f) \in Entries
           /\ LoadedPage(f).frame = f
           /\ LoadedPage(f).writable
           /\ ~LoadedPage(f).cow
  BY DEF LoadedPage, Entries

(* What refcount_inc and refcount_dec return, for every count.             *)
LEMMA CountFacts ==
    ASSUME NEW n \in Nat
    PROVE  /\ refcount_inc(n) \in Nat
           /\ refcount_inc(n) >= 2
           /\ refcount_inc(n) >= n
           /\ refcount_dec(n) \in Nat
           /\ SoleOwner(n) => n < 2
           /\ WasLast(n) => n < 2
  BY DEF refcount_inc, refcount_dec, SoleOwner, WasLast

(* kinit leaves init alone with writable pages in frames of their own.     *)
LEMMA InitEstablishes == Init => IInv
<1> SUFFICES ASSUME Init PROVE IInv
  OBVIOUS
<1>1. PICK g \in Placements(Frames) :
        /\ pte = [s \in {active} |-> [v \in Pages |-> LoadedPage(g[v])]]
        /\ free = Frames \ {g[v] : v \in Pages}
  BY DEF Init
<1>2. /\ g \in [Pages -> Frames]
      /\ \A v, w \in Pages : g[v] = g[w] => v = w
  BY DEF Placements
<1>3. \A v \in Pages : /\ LoadedPage(g[v]) \in Entries
                       /\ LoadedPage(g[v]).frame = g[v]
                       /\ LoadedPage(g[v]).writable
                       /\ ~LoadedPage(g[v]).cow
  BY <1>2, LoadedPageFact
<1>4. /\ Live = {active}
      /\ \A s \in Live, v \in Pages : pte[s][v] = LoadedPage(g[v])
  BY <1>1 DEF Live
<1>5. TypeOK
  <2>1. pte \in [Live -> [Pages -> Entries]]
    BY <1>1, <1>3, <1>4
  <2>2. seen \in [Live -> [Pages -> Values]]
    BY <1>4, ZeroAssumption DEF Init
  <2>3. next \in 1 .. NPages + 1
    BY NPagesAssumption DEF Init
  <2> QED
    BY <1>1, <1>4, <2>1, <2>2, <2>3, ZeroAssumption DEF Init, TypeOK
<1>6. WritableOrCow
  BY <1>3, <1>4 DEF WritableOrCow
<1>7. MappedNotFree
  BY <1>1, <1>3, <1>4 DEF MappedNotFree
<1>8. SharedIsCounted
  BY <1>2, <1>3, <1>4 DEF SharedIsCounted
<1>9. AtMostTwo
  BY <1>4 DEF AtMostTwo
<1>10. CloneProgress
  BY DEF Init, CloneProgress
<1>11. Isolation
  BY <1>2, <1>3, <1>4 DEF Init, Isolation
<1> QED
  BY <1>5, <1>6, <1>7, <1>8, <1>9, <1>10, <1>11 DEF IInv

-----------------------------------------------------------------------------
(* One lemma per action: the inductive invariant is preserved.             *)

(* A clone starts with no copy-on-write page behind it or ahead of it.     *)
LEMMA CloneStartKeeps ==
    ASSUME Refork = FALSE, IInv, CloneStart PROVE IInv'
<1>1. /\ UNCHANGED <<pte, refcount, free, data, active, next, seen, leaky>>
      /\ Live' = Live
      /\ cloning' = active
      /\ next = 1
      /\ \A v \in Pages : ~pte[active][v].cow
  BY DEF IInv, CloneStart, CloneProgress, Live
<1>2. TypeOK'
  BY <1>1 DEF IInv, TypeOK
<1>3. CloneProgress'
  <2>1. \A v \in Pages : pte[active][v].writable /\ ~(v < 1)
    BY <1>1 DEF IInv, TypeOK, WritableOrCow, Pages
  <2> QED
    BY <1>1, <2>1, NoSpaceAssumption DEF IInv, TypeOK, CloneProgress, Pages
<1> QED
  BY <1>1, <1>2, <1>3 DEF IInv, WritableOrCow, MappedNotFree, SharedIsCounted,
                           AtMostTwo, Isolation

(* The page just shared is counted twice before a second space maps it.    *)
LEMMA ClonePageKeeps ==
    ASSUME IInv, ClonePage PROVE IInv'
<1> DEFINE e == pte[active][next]
<1>1. /\ cloning = active /\ next \in Pages /\ cloning # NoSpace
      /\ active \in Live
      /\ e \in Entries
      /\ e.writable /\ ~e.cow
  <2>1. /\ cloning = active /\ next \in Pages /\ active \in Live
        /\ pte \in [Live -> [Pages -> Entries]]
        /\ cloning # NoSpace
    BY NoSpaceAssumption DEF IInv, ClonePage, TypeOK
  <2>2. pte[active][next].writable
    BY <2>1 DEF IInv, CloneProgress, Pages
  <2>3. pte[active][next] \in Entries /\ ~pte[active][next].cow
    BY <2>1, <2>2 DEF IInv, WritableOrCow
  <2> QED
    BY <2>1, <2>2, <2>3
<1>2. /\ Shared(e) \in Entries
      /\ Shared(e).frame = e.frame
      /\ ~Shared(e).writable
      /\ Shared(e).cow
  BY <1>1 DEF Shared, Entries
<1>3. /\ pte' \in [Live -> [Pages -> Entries]]
      /\ Live' = Live
      /\ \A s \in Live, v \in Pages :
           pte'[s][v] = IF s = active /\ v = next THEN Shared(e) ELSE pte[s][v]
  <2>1. pte' = [pte EXCEPT ![active] = [@ EXCEPT ![next] = Shared(e)]]
    BY DEF ClonePage
  <2>2. pte \in [Live -> [Pages -> Entries]]
    BY DEF IInv, TypeOK
  <2>3. DOMAIN pte' = Live /\ pte' \in [Live -> [Pages -> Entries]]
    BY <1>1, <1>2, <2>1, <2>2, UpdateEntry
  <2>4. \A s \in Live, v \in Pages :
           pte'[s][v] = IF s = active /\ v = next THEN Shared(e) ELSE pte[s][v]
    BY <1>1, <1>2, <2>1, <2>2, UpdateEntry
  <2> QED
    BY <2>3, <2>4 DEF Live
<1>4. /\ refcount' \in [Frames -> Nat]
      /\ \A f \in Frames : refcount'[f] >= refcount[f]
      /\ refcount'[e.frame] >= 2
  <2>1. refcount \in [Frames -> Nat] /\ e.frame \in Frames
    BY <1>1 DEF IInv, TypeOK, Entries
  <2>2. refcount' = [refcount EXCEPT ![e.frame] = refcount_inc(@)]
    BY <1>1 DEF ClonePage
  <2> QED
    BY <2>1, <2>2, CountFacts
<1>5. /\ UNCHANGED <<free, data, active, cloning, seen, leaky>>
      /\ next' = next + 1
  BY DEF ClonePage
<1>6. \A s \in Live, v \in Pages :
        /\ pte[s][v] \in Entries
        /\ pte'[s][v].frame = pte[s][v].frame
        /\ pte[s][v].cow => pte'[s][v].cow
  BY <1>1, <1>2, <1>3 DEF IInv, TypeOK
<1>7. TypeOK'
  BY <1>1, <1>3, <1>4, <1>5, NPagesAssumption DEF IInv, TypeOK, Pages
<1>8. WritableOrCow'
  BY <1>2, <1>3 DEF IInv, WritableOrCow
<1>9. MappedNotFree' /\ Isolation'
  BY <1>3, <1>5, <1>6 DEF IInv, MappedNotFree, Isolation
<1>10. SharedIsCounted'
  BY <1>3, <1>4, <1>6 DEF IInv, SharedIsCounted, Entries, TypeOK
<1>11. AtMostTwo'
  BY <1>3, <1>6 DEF IInv, AtMostTwo
<1>12. CloneProgress'
  <2> SUFFICES ASSUME NEW v \in Pages
               PROVE  /\ v >= next + 1 => pte'[active][v].writable
                      /\ v < next + 1 =>
                           /\ refcount'[pte'[active][v].frame] >= 2
                           /\ pte'[active][v].cow
                           /\ \A t \in Live, w \in Pages :
                                pte'[t][w].frame = pte'[active][v].frame => t = active
    BY <1>1, <1>3, <1>5 DEF CloneProgress
  <2>1. CASE v > next
    BY <1>1, <1>3, <2>1 DEF IInv, CloneProgress, Pages
  <2>2. CASE v = next
    <3>1. pte'[active][v] = Shared(e) /\ ~(v >= next + 1)
      BY <1>1, <1>3, <2>2 DEF Pages
    <3>2. ASSUME NEW t \in Live, NEW w \in Pages, pte[t][w].frame = e.frame
          PROVE  t = active
      BY <1>1, <3>2 DEF IInv, SharedIsCounted
    <3> QED
      BY <1>2, <1>4, <1>6, <3>1, <3>2
  <2>3. CASE v < next
    <3>1. /\ pte'[active][v] = pte[active][v] /\ ~(v >= next + 1)
          /\ pte[active][v].frame \in Frames
          /\ refcount[pte[active][v].frame] \in Nat
          /\ refcount'[pte[active][v].frame] \in Nat
      BY <1>1, <1>3, <1>4, <1>6, <2>3 DEF IInv, TypeOK, Entries, Pages
    <3>2. /\ refcount[pte[active][v].frame] >= 2
          /\ pte[active][v].cow
          /\ \A t \in Live, w \in Pages :
                pte[t][w].frame = pte[active][v].frame => t = active
      BY <1>1, <2>3 DEF IInv, CloneProgress
    <3> QED
      BY <1>4, <1>6, <3>1, <3>2
  <2> QED
    BY <1>1, <2>1, <2>2, <2>3 DEF Pages
<1> QED
  BY <1>7, <1>8, <1>9, <1>10, <1>11, <1>12 DEF IInv

(* The child maps what only the parent mapped, and what is counted twice.  *)
LEMMA CloneDoneKeeps ==
    ASSUME IInv, CloneDone PROVE IInv'
<1>1. PICK c \in Spaces \ Live :
        /\ pte' = [s \in Live \cup {c} |-> IF s = c THEN pte[active] ELSE pte[s]]
        /\ seen' = [s \in Live \cup {c} |-> IF s = c THEN seen[active] ELSE seen[s]]
  BY DEF CloneDone
<1>2. /\ cloning = active /\ next = NPages + 1 /\ active \in Live
      /\ cloning # NoSpace
      /\ cloning' = NoSpace /\ next' = 1
      /\ UNCHANGED <<refcount, free, data, active, leaky>>
  BY NoSpaceAssumption DEF IInv, CloneDone, TypeOK
<1>3. /\ Live' = Live \cup {c}
      /\ pte \in [Live -> [Pages -> Entries]]
      /\ seen \in [Live -> [Pages -> Values]]
  BY <1>1 DEF IInv, TypeOK, Live
<1>4. /\ \A v \in Pages : /\ pte'[c][v] = pte[active][v]
                          /\ seen'[c][v] = seen[active][v]
      /\ \A s \in Live, v \in Pages : /\ pte'[s][v] = pte[s][v]
                                      /\ seen'[s][v] = seen[s][v]
  BY <1>1, <1>2, <1>3
<1>5. \A v \in Pages :
        /\ refcount[pte[active][v].frame] >= 2
        /\ pte[active][v].cow
        /\ \A t \in Live, w \in Pages :
             pte[t][w].frame = pte[active][v].frame => t = active
  <2>1. \A v \in Pages : v < next
    BY <1>2, NPagesAssumption DEF Pages
  <2> QED
    BY <1>2, <2>1 DEF IInv, CloneProgress
<1>6. TypeOK'
  <2>1. pte' \in [Live' -> [Pages -> Entries]] /\ seen' \in [Live' -> [Pages -> Values]]
    BY <1>1, <1>2, <1>3
  <2> QED
    BY <1>2, <1>3, <2>1, NPagesAssumption DEF IInv, TypeOK
<1>7. WritableOrCow'
  BY <1>2, <1>3, <1>4 DEF IInv, WritableOrCow
<1>8. MappedNotFree' /\ Isolation'
  BY <1>2, <1>3, <1>4 DEF IInv, MappedNotFree, Isolation
<1>9. SharedIsCounted'
  <2> SUFFICES ASSUME NEW s \in Live', NEW t \in Live', NEW v \in Pages, NEW w \in Pages,
                      pte'[s][v].frame = pte'[t][w].frame
               PROVE  \/ s = t /\ v = w
                      \/ s # t /\ pte'[s][v].cow /\ refcount[pte'[s][v].frame] >= 2
    BY <1>2 DEF SharedIsCounted
  <2>1. CASE s # c /\ t # c
    BY <1>3, <1>4, <2>1 DEF IInv, SharedIsCounted
  <2>2. CASE s = c
    BY <1>2, <1>3, <1>4, <1>5, <2>2 DEF IInv, SharedIsCounted
  <2>3. CASE t = c
    BY <1>2, <1>3, <1>4, <1>5, <2>3 DEF IInv, SharedIsCounted
  <2> QED
    BY <2>1, <2>2, <2>3
<1>10. AtMostTwo'
  <2> SUFFICES ASSUME NEW r \in Live', NEW s \in Live', NEW t \in Live',
                      NEW u \in Pages, NEW v \in Pages, NEW w \in Pages,
                      pte'[r][u].frame = pte'[s][v].frame,
                      pte'[s][v].frame = pte'[t][w].frame
               PROVE  r = s \/ s = t \/ r = t
    BY DEF AtMostTwo
  <2>1. CASE c \notin {r, s, t}
    <3>1. r \in Live /\ s \in Live /\ t \in Live
      BY <1>3, <2>1
    <3>2. pte[r][u].frame = pte[s][v].frame /\ pte[s][v].frame = pte[t][w].frame
      BY <1>4, <3>1
    <3> QED
      BY <3>1, <3>2 DEF IInv, AtMostTwo
  <2>2. CASE r = c
    BY <1>3, <1>4, <1>5, <2>2
  <2>3. CASE s = c
    BY <1>3, <1>4, <1>5, <2>3
  <2>4. CASE t = c
    BY <1>3, <1>4, <1>5, <2>4
  <2> QED
    BY <2>1, <2>2, <2>3, <2>4
<1>11. CloneProgress'
  BY <1>2 DEF CloneProgress
<1> QED
  BY <1>6, <1>7, <1>8, <1>9, <1>10, <1>11 DEF IInv

(* What a failed clone leaves behind is only counted too high.             *)
LEMMA CloneFailsKeeps ==
    ASSUME IInv, CloneFails PROVE IInv'
<1>1. /\ UNCHANGED <<pte, refcount, free, data, active, seen>>
      /\ Live' = Live
      /\ cloning' = NoSpace /\ next' = 1
      /\ leaky' \in BOOLEAN
  BY DEF IInv, CloneFails, TypeOK, Live
<1>2. TypeOK'
  BY <1>1, NPagesAssumption DEF IInv, TypeOK
<1>3. CloneProgress'
  BY <1>1 DEF CloneProgress
<1> QED
  BY <1>1, <1>2, <1>3 DEF IInv, WritableOrCow, MappedNotFree, SharedIsCounted,
                           AtMostTwo, Isolation

(* A writable page is mapped once, so a store shows nowhere else.          *)
LEMMA StoreKeeps ==
    ASSUME IInv, Store PROVE IInv'
<1>1. PICK p \in Pages, x \in Values :
        /\ pte[active][p].writable
        /\ data' = [data EXCEPT ![pte[active][p].frame] = x]
        /\ seen' = [seen EXCEPT ![active] = [@ EXCEPT ![p] = x]]
  BY DEF Store
<1>2. /\ UNCHANGED <<pte, refcount, free, active, cloning, next, leaky>>
      /\ Live' = Live
      /\ active \in Live
      /\ pte \in [Live -> [Pages -> Entries]]
      /\ seen \in [Live -> [Pages -> Values]]
      /\ data \in [Frames -> Values]
  BY DEF IInv, Store, TypeOK, Live
<1>3. /\ seen' \in [Live -> [Pages -> Values]]
      /\ \A s \in Live, v \in Pages :
           seen'[s][v] = IF s = active /\ v = p THEN x ELSE seen[s][v]
  BY <1>1, <1>2, UpdateEntry
<1>4. \A s \in Live, v \in Pages : pte[s][v].frame \in Frames
  BY <1>2 DEF Entries
<1>5. TypeOK'
  BY <1>1, <1>2, <1>3, <1>4 DEF IInv, TypeOK
<1>6. \A s \in Live, v \in Pages :
        pte[s][v].frame = pte[active][p].frame => s = active /\ v = p
  <2>1. ~pte[active][p].cow
    BY <1>1, <1>2 DEF IInv, WritableOrCow
  <2> QED
    BY <1>2, <2>1 DEF IInv, SharedIsCounted
<1>7. Isolation'
  BY <1>1, <1>2, <1>3, <1>4, <1>6 DEF IInv, Isolation
<1>8. UNCHANGED <<pte, refcount, free, cloning, next>> /\ Live' = Live
  BY <1>2
<1>9. WritableOrCow' /\ MappedNotFree'
  BY <1>8 DEF IInv, WritableOrCow, MappedNotFree
<1>10. SharedIsCounted' /\ AtMostTwo'
  BY <1>8 DEF IInv, SharedIsCounted, AtMostTwo
<1>11. CloneProgress'
  BY <1>8 DEF IInv, CloneProgress
<1> QED
  BY <1>5, <1>7, <1>9, <1>10, <1>11 DEF IInv

(* A fault takes the page over only when nobody else maps it, and a copy   *)
(* lowers the count only below two users.                                  *)
LEMMA CowFaultKeeps ==
    ASSUME IInv, CowFault PROVE IInv'
<1> DEFINE e(p) == pte[active][p]
<1>1. PICK p \in Pages :
        /\ e(p).cow
        /\ IF SoleOwner(refcount[e(p).frame])
           THEN /\ pte' = [pte EXCEPT ![active] = [@ EXCEPT ![p] = LoadedPage(e(p).frame)]]
                /\ UNCHANGED <<refcount, free, data>>
           ELSE \E f \in free :
                /\ pte' = [pte EXCEPT ![active] = [@ EXCEPT ![p] = LoadedPage(f)]]
                /\ data' = [data EXCEPT ![f] = data[e(p).frame]]
                /\ free' = free \ {f}
                /\ refcount' = [refcount EXCEPT ![e(p).frame] = refcount_dec(@)]
  BY DEF CowFault
<1> DEFINE old == pte[active][p].frame
<1>2. /\ UNCHANGED <<active, cloning, next, seen, leaky>>
      /\ active \in Live
      /\ pte \in [Live -> [Pages -> Entries]]
      /\ refcount \in [Frames -> Nat]
      /\ data \in [Frames -> Values]
      /\ free \subseteq Frames
      /\ active # cloning
      /\ cloning # NoSpace => cloning \in Live
  BY DEF IInv, CowFault, TypeOK, RunsUserCode
<1>3. /\ \A s \in Live, v \in Pages : pte[s][v].frame \in Frames
      /\ old \in Frames
      /\ refcount[old] \in Nat
  BY <1>2 DEF Entries
<1>4. CASE SoleOwner(refcount[old])
  <2>1. /\ pte' = [pte EXCEPT ![active] = [@ EXCEPT ![p] = LoadedPage(old)]]
        /\ UNCHANGED <<refcount, free, data>>
    BY <1>1, <1>4
  <2>2. /\ pte' \in [Live -> [Pages -> Entries]]
        /\ DOMAIN pte' = Live
        /\ \A s \in Live, v \in Pages :
             pte'[s][v] = IF s = active /\ v = p THEN LoadedPage(old) ELSE pte[s][v]
    BY <1>2, <1>3, <2>1, UpdateEntry, LoadedPageFact
  <2>3. /\ Live' = Live
        /\ \A s \in Live, v \in Pages :
             /\ pte'[s][v].frame = pte[s][v].frame
             /\ (s # active \/ v # p) => pte'[s][v] = pte[s][v]
    BY <1>3, <2>2, LoadedPageFact DEF Live
  <2>4. \A s \in Live, v \in Pages : pte[s][v].frame = old => s = active /\ v = p
    <3>1. ~(refcount[old] >= 2)
      BY <1>3, <1>4, CountFacts
    <3> QED
      BY <1>2, <3>1 DEF IInv, SharedIsCounted
  <2>5. TypeOK'
    BY <1>2, <2>1, <2>2, <2>3 DEF IInv, TypeOK
  <2>6. WritableOrCow'
    BY <1>3, <2>2, <2>3, LoadedPageFact DEF IInv, WritableOrCow
  <2>7. MappedNotFree' /\ Isolation' /\ AtMostTwo'
    <3>1. MappedNotFree'
      BY <2>1, <2>3 DEF IInv, MappedNotFree
    <3>2. Isolation'
      BY <1>2, <2>1, <2>3 DEF IInv, Isolation
    <3>3. AtMostTwo'
      BY <2>3 DEF IInv, AtMostTwo
    <3> QED
      BY <3>1, <3>2, <3>3
  <2>8. SharedIsCounted'
    <3> SUFFICES ASSUME NEW s \in Live, NEW t \in Live, NEW v \in Pages, NEW w \in Pages,
                        pte'[s][v].frame = pte'[t][w].frame, ~(s = t /\ v = w)
                 PROVE  s # t /\ pte'[s][v].cow /\ refcount'[pte'[s][v].frame] >= 2
      BY <2>3 DEF SharedIsCounted
    <3>1. pte[s][v].frame = pte[t][w].frame
      BY <2>3
    <3>2. s # t /\ pte[s][v].cow /\ refcount[pte[s][v].frame] >= 2
      BY <3>1 DEF IInv, SharedIsCounted
    <3>3. s # active \/ v # p
      BY <2>4, <3>1
    <3> QED
      BY <2>1, <2>3, <3>2, <3>3
  <2>9. CloneProgress'
    <3>1. cloning # NoSpace => \A v \in Pages : pte'[cloning][v] = pte[cloning][v]
      BY <1>2, <2>3
    <3>2. \A t \in Live, w \in Pages : pte'[t][w].frame = pte[t][w].frame
      BY <2>3
    <3>3. UNCHANGED <<refcount, cloning, next>> /\ Live' = Live
      BY <1>2, <2>1, <2>3
    <3> QED
      BY <3>1, <3>2, <3>3 DEF IInv, CloneProgress
  <2> QED
    BY <2>5, <2>6, <2>7, <2>8, <2>9 DEF IInv
<1>5. CASE ~SoleOwner(refcount[old])
  <2>1. PICK f \in free :
          /\ pte' = [pte EXCEPT ![active] = [@ EXCEPT ![p] = LoadedPage(f)]]
          /\ data' = [data EXCEPT ![f] = data[old]]
          /\ free' = free \ {f}
          /\ refcount' = [refcount EXCEPT ![old] = refcount_dec(@)]
    BY <1>1, <1>5
  <2>2. /\ pte' \in [Live -> [Pages -> Entries]]
        /\ DOMAIN pte' = Live
        /\ \A s \in Live, v \in Pages :
             pte'[s][v] = IF s = active /\ v = p THEN LoadedPage(f) ELSE pte[s][v]
    BY <1>2, <2>1, UpdateEntry, LoadedPageFact
  <2>3. /\ Live' = Live
        /\ pte'[active][p].frame = f
        /\ f \in Frames
        /\ \A s \in Live, v \in Pages :
             /\ (s # active \/ v # p) => pte'[s][v] = pte[s][v]
             /\ pte[s][v].frame # f
    BY <1>2, <2>1, <2>2, LoadedPageFact DEF IInv, MappedNotFree, Live
  <2>4. /\ refcount' \in [Frames -> Nat]
        /\ \A g \in Frames : g # old => refcount'[g] = refcount[g]
    BY <1>2, <1>3, <2>1, CountFacts
  <2>5. TypeOK'
    BY <1>2, <1>3, <2>1, <2>2, <2>3, <2>4 DEF IInv, TypeOK
  <2>6. WritableOrCow'
    BY <2>2, <2>3, LoadedPageFact DEF IInv, WritableOrCow
  <2>7. MappedNotFree'
    BY <2>1, <2>2, <2>3 DEF IInv, MappedNotFree
  <2>8. Isolation'
    BY <1>2, <1>3, <2>1, <2>3 DEF IInv, Isolation
  <2>9. SharedIsCounted'
    <3> SUFFICES ASSUME NEW s \in Live, NEW t \in Live, NEW v \in Pages, NEW w \in Pages,
                        pte'[s][v].frame = pte'[t][w].frame, ~(s = t /\ v = w)
                 PROVE  s # t /\ pte'[s][v].cow /\ refcount'[pte'[s][v].frame] >= 2
      BY <2>3 DEF SharedIsCounted
    <3>1. (s # active \/ v # p) /\ (t # active \/ w # p)
      BY <2>3
    <3>2. /\ pte'[s][v] = pte[s][v] /\ pte'[t][w] = pte[t][w]
          /\ s # t /\ pte[s][v].cow /\ refcount[pte[s][v].frame] >= 2
      BY <2>3, <3>1 DEF IInv, SharedIsCounted
    <3>3. pte[s][v].frame # old
      BY <1>2, <3>1, <3>2 DEF IInv, SharedIsCounted, AtMostTwo
    <3> QED
      BY <1>3, <2>4, <3>2, <3>3
  <2>10. AtMostTwo'
    BY <2>3 DEF IInv, AtMostTwo
  <2>11. CloneProgress'
    <3> SUFFICES ASSUME cloning # NoSpace, NEW v \in Pages
                 PROVE  /\ v >= next => pte'[cloning][v].writable
                        /\ v < next =>
                             /\ refcount'[pte'[cloning][v].frame] >= 2
                             /\ pte'[cloning][v].cow
                             /\ \A t \in Live, w \in Pages :
                                  pte'[t][w].frame = pte'[cloning][v].frame => t = cloning
      BY <1>2, <2>3 DEF IInv, CloneProgress
    <3>1. pte'[cloning][v] = pte[cloning][v]
      BY <1>2, <2>3
    <3>2. CASE v < next
      <4>1. /\ refcount[pte[cloning][v].frame] >= 2
            /\ pte[cloning][v].cow
            /\ \A t \in Live, w \in Pages :
                 pte[t][w].frame = pte[cloning][v].frame => t = cloning
        BY <3>2 DEF IInv, CloneProgress
      <4>2. pte[cloning][v].frame # old
        BY <1>2, <4>1
      <4>3. ~(v >= next)
        BY <3>2 DEF IInv, TypeOK, Pages
      <4> QED
        BY <1>2, <1>3, <2>3, <2>4, <3>1, <4>1, <4>2, <4>3
    <3>3. CASE ~(v < next)
      BY <3>1, <3>3 DEF IInv, CloneProgress
    <3> QED
      BY <3>2, <3>3
  <2> QED
    BY <2>5, <2>6, <2>7, <2>8, <2>9, <2>10, <2>11 DEF IInv
<1> QED
  BY <1>4, <1>5

(* A tick only changes CR3.                                                *)
LEMMA SwitchKeeps ==
    ASSUME IInv, Switch PROVE IInv'
<1>1. /\ UNCHANGED <<pte, refcount, free, data, cloning, next, seen, leaky>>
      /\ Live' = Live /\ active' \in Live
  BY DEF Switch, Live
<1>2. TypeOK'
  BY <1>1 DEF IInv, TypeOK
<1>3. WritableOrCow' /\ MappedNotFree' /\ Isolation'
  BY <1>1 DEF IInv, WritableOrCow, MappedNotFree, Isolation
<1>4. SharedIsCounted' /\ AtMostTwo'
  BY <1>1 DEF IInv, SharedIsCounted, AtMostTwo
<1>5. CloneProgress'
  BY <1>1 DEF IInv, CloneProgress
<1> QED
  BY <1>2, <1>3, <1>4, <1>5 DEF IInv

(* Teardown frees what nobody else maps: a frame of its own, or one whose  *)
(* count says that it was the last user.                                   *)
LEMMA TeardownKeeps ==
    ASSUME IInv, Teardown PROVE IInv'
<1>1. PICK s \in Live \ {active} :
        /\ free' = free \cup OwnFrames(s) \cup {f \in CowFrames(s) : WasLast(refcount[f])}
        /\ refcount' = [f \in Frames |-> IF f \in CowFrames(s)
                                         THEN refcount_dec(refcount[f]) ELSE refcount[f]]
        /\ pte' = Without(pte, s)
        /\ seen' = Without(seen, s)
  BY DEF Teardown
<1>2. /\ UNCHANGED <<data, active, cloning, next, leaky>>
      /\ cloning = NoSpace
      /\ pte \in [Live -> [Pages -> Entries]]
      /\ seen \in [Live -> [Pages -> Values]]
      /\ refcount \in [Frames -> Nat]
  BY DEF IInv, Teardown, TypeOK
<1>3. /\ Live' = Live \ {s}
      /\ pte' \in [Live' -> [Pages -> Entries]]
      /\ seen' \in [Live' -> [Pages -> Values]]
      /\ \A t \in Live' : pte'[t] = pte[t] /\ seen'[t] = seen[t]
  <2>1. /\ pte' \in [Live \ {s} -> [Pages -> Entries]]
        /\ DOMAIN pte' = Live \ {s}
        /\ \A t \in Live \ {s} : pte'[t] = pte[t]
    BY <1>1, <1>2 DEF Without
  <2>2. /\ seen' \in [Live \ {s} -> [Pages -> Values]]
        /\ \A t \in Live \ {s} : seen'[t] = seen[t]
    BY <1>1, <1>2 DEF Without
  <2> QED
    BY <2>1, <2>2 DEF Live
<1>4. \A t \in Live, v \in Pages : pte[t][v].frame \in Frames
  BY <1>2 DEF Entries
<1>5. /\ OwnFrames(s) \subseteq Frames /\ CowFrames(s) \subseteq Frames
      /\ \A f \in CowFrames(s) : \E w \in Pages : pte[s][w].frame = f /\ pte[s][w].cow
      /\ \A f \in OwnFrames(s) : \E w \in Pages : pte[s][w].frame = f /\ ~pte[s][w].cow
  BY <1>1, <1>4 DEF OwnFrames, CowFrames
<1>6. refcount' \in [Frames -> Nat]
  BY <1>1, <1>2, CountFacts
<1>7. /\ Live' = Live \ {s}
       /\ \A t \in Live \ {s} : pte'[t] = pte[t] /\ seen'[t] = seen[t]
  BY <1>3
<1>8. TypeOK'
  BY <1>1, <1>2, <1>3, <1>5, <1>6 DEF IInv, TypeOK
<1>9. WritableOrCow' /\ Isolation' /\ AtMostTwo'
  <2>1. WritableOrCow'
    BY <1>7 DEF IInv, WritableOrCow
  <2>2. Isolation'
    BY <1>2, <1>7 DEF IInv, Isolation
  <2>3. AtMostTwo'
    BY <1>7 DEF IInv, AtMostTwo
  <2> QED
    BY <2>1, <2>2, <2>3
<1>10. MappedNotFree'
  <2> SUFFICES ASSUME NEW t \in Live \ {s}, NEW v \in Pages
               PROVE  pte[t][v].frame \notin free'
    BY <1>7 DEF MappedNotFree
  <2>1. pte[t][v].frame \notin free
    BY DEF IInv, MappedNotFree
  <2>2. pte[t][v].frame \notin OwnFrames(s)
    BY <1>1, <1>5 DEF IInv, SharedIsCounted
  <2>3. ASSUME pte[t][v].frame \in CowFrames(s) PROVE ~WasLast(refcount[pte[t][v].frame])
    <3>1. refcount[pte[t][v].frame] >= 2
      BY <1>1, <1>5, <2>3 DEF IInv, SharedIsCounted
    <3> QED
      BY <1>2, <1>4, <3>1, CountFacts
  <2> QED
    BY <1>1, <2>1, <2>2, <2>3
<1>11. SharedIsCounted'
  <2> SUFFICES ASSUME NEW t \in Live \ {s}, NEW r \in Live \ {s},
                      NEW v \in Pages, NEW w \in Pages,
                      pte[t][v].frame = pte[r][w].frame, ~(t = r /\ v = w)
               PROVE  t # r /\ pte[t][v].cow /\ refcount'[pte[t][v].frame] >= 2
    BY <1>7 DEF SharedIsCounted
  <2>1. t # r /\ pte[t][v].cow /\ refcount[pte[t][v].frame] >= 2
    BY DEF IInv, SharedIsCounted
  <2>2. pte[t][v].frame \notin CowFrames(s)
    <3> SUFFICES ASSUME NEW x \in Pages, pte[s][x].frame = pte[t][v].frame PROVE FALSE
      BY <1>5
    <3> QED
      BY <1>1, <2>1 DEF IInv, AtMostTwo
  <2> QED
    BY <1>1, <1>4, <2>1, <2>2
<1>12. CloneProgress'
  BY <1>2 DEF IInv, CloneProgress
<1> QED
  BY <1>8, <1>9, <1>10, <1>11, <1>12 DEF IInv

(* Without teardown counts are left too high, never too low.               *)
LEMMA ReapKeeps ==
    ASSUME IInv, ReapWithoutTeardown PROVE IInv'
<1>1. PICK s \in Live \ {active, cloning} : pte' = Without(pte, s) /\ seen' = Without(seen, s)
  BY DEF ReapWithoutTeardown
<1>2. /\ UNCHANGED <<refcount, free, data, active, cloning, next>>
      /\ leaky' = TRUE
      /\ pte \in [Live -> [Pages -> Entries]]
      /\ seen \in [Live -> [Pages -> Values]]
      /\ cloning # NoSpace => cloning \in Live
  BY DEF IInv, ReapWithoutTeardown, TypeOK
<1>3. /\ Live' = Live \ {s}
      /\ pte' \in [Live' -> [Pages -> Entries]]
      /\ seen' \in [Live' -> [Pages -> Values]]
      /\ \A t \in Live' : pte'[t] = pte[t] /\ seen'[t] = seen[t]
  <2>1. /\ pte' \in [Live \ {s} -> [Pages -> Entries]]
        /\ DOMAIN pte' = Live \ {s}
        /\ \A t \in Live \ {s} : pte'[t] = pte[t]
    BY <1>1, <1>2 DEF Without
  <2>2. /\ seen' \in [Live \ {s} -> [Pages -> Values]]
        /\ \A t \in Live \ {s} : seen'[t] = seen[t]
    BY <1>1, <1>2 DEF Without
  <2> QED
    BY <2>1, <2>2 DEF Live
<1>4. TypeOK'
  BY <1>1, <1>2, <1>3 DEF IInv, TypeOK
<1>5. CloneProgress'
  BY <1>1, <1>2, <1>3 DEF IInv, CloneProgress
<1>6. /\ Live' = Live \ {s}
      /\ \A t \in Live \ {s} : pte'[t] = pte[t] /\ seen'[t] = seen[t]
  BY <1>3
<1>7. WritableOrCow'
  BY <1>6 DEF IInv, WritableOrCow
<1>8. MappedNotFree' /\ Isolation'
  BY <1>2, <1>6 DEF IInv, MappedNotFree, Isolation
<1>9. SharedIsCounted'
  BY <1>2, <1>6 DEF IInv, SharedIsCounted
<1>10. AtMostTwo'
  BY <1>6 DEF IInv, AtMostTwo
<1> QED
  BY <1>4, <1>5, <1>7, <1>8, <1>9, <1>10 DEF IInv

(* exec maps free frames only, each once.                                  *)
LEMMA ExecKeeps ==
    ASSUME IInv, Exec PROVE IInv'
<1>1. PICK g \in Placements(free) :
        /\ pte' = [pte EXCEPT ![active] = [v \in Pages |-> LoadedPage(g[v])]]
        /\ free' = free \ {g[v] : v \in Pages}
        /\ data' = [f \in Frames |-> IF \E v \in Pages : g[v] = f THEN Zero ELSE data[f]]
  BY DEF Exec
<1>2. /\ UNCHANGED <<refcount, active, cloning, next>>
      /\ cloning = NoSpace
      /\ leaky' = TRUE
      /\ seen' = [seen EXCEPT ![active] = [v \in Pages |-> Zero]]
      /\ active \in Live
      /\ pte \in [Live -> [Pages -> Entries]]
      /\ seen \in [Live -> [Pages -> Values]]
      /\ data \in [Frames -> Values]
      /\ free \subseteq Frames
  BY DEF IInv, Exec, TypeOK
<1>3. /\ g \in [Pages -> free]
      /\ \A v, w \in Pages : g[v] = g[w] => v = w
      /\ \A v \in Pages : g[v] \in Frames
  BY <1>2 DEF Placements
<1>4. \A v \in Pages : /\ LoadedPage(g[v]) \in Entries
                       /\ LoadedPage(g[v]).frame = g[v]
                       /\ LoadedPage(g[v]).writable
                       /\ ~LoadedPage(g[v]).cow
  BY <1>3, LoadedPageFact
<1>5. /\ Live' = Live
      /\ pte' \in [Live -> [Pages -> Entries]]
      /\ \A v \in Pages : pte'[active][v] = LoadedPage(g[v])
      /\ \A s \in Live \ {active} : pte'[s] = pte[s]
  BY <1>1, <1>2, <1>4 DEF Live
<1>6. /\ seen' \in [Live -> [Pages -> Values]]
      /\ \A v \in Pages : seen'[active][v] = Zero
      /\ \A s \in Live \ {active} : seen'[s] = seen[s]
  BY <1>2, ZeroAssumption
<1>7. \A s \in Live, v, w \in Pages : /\ pte[s][v].frame \in Frames
                                      /\ pte[s][v].frame # g[w]
  BY <1>2, <1>3 DEF IInv, MappedNotFree, Entries
<1>8. TypeOK'
  BY <1>1, <1>2, <1>5, <1>6, ZeroAssumption DEF IInv, TypeOK
<1>9. WritableOrCow'
  BY <1>4, <1>5 DEF IInv, WritableOrCow
<1>10. MappedNotFree'
  BY <1>1, <1>4, <1>5 DEF IInv, MappedNotFree
<1>11. Isolation'
  <2>1. \A v \in Pages : data'[g[v]] = Zero
    BY <1>1, <1>3
  <2>2. \A s \in Live, v \in Pages : data'[pte[s][v].frame] = data[pte[s][v].frame]
    BY <1>1, <1>7
  <2> QED
    BY <1>4, <1>5, <1>6, <2>1, <2>2 DEF IInv, Isolation
<1>12. SharedIsCounted'
  <2> SUFFICES ASSUME NEW s \in Live, NEW t \in Live, NEW v \in Pages, NEW w \in Pages,
                      pte'[s][v].frame = pte'[t][w].frame, ~(s = t /\ v = w)
               PROVE  s # t /\ pte'[s][v].cow /\ refcount[pte'[s][v].frame] >= 2
    <3>1. refcount' = refcount /\ Live' = Live
      BY <1>2, <1>5
    <3> QED
      BY <3>1 DEF SharedIsCounted
  <2>1. s # active /\ t # active
    BY <1>3, <1>4, <1>5, <1>7
  <2> QED
    BY <1>5, <2>1 DEF IInv, SharedIsCounted
<1>13. AtMostTwo'
  <2> SUFFICES ASSUME NEW r \in Live, NEW s \in Live, NEW t \in Live,
                      NEW u \in Pages, NEW v \in Pages, NEW w \in Pages,
                      pte'[r][u].frame = pte'[s][v].frame,
                      pte'[s][v].frame = pte'[t][w].frame,
                      r # s, s # t, r # t
               PROVE  FALSE
    BY <1>5 DEF AtMostTwo
  <2>1. active \notin {r, s, t}
    BY <1>4, <1>5, <1>7
  <2> QED
    BY <1>5, <2>1 DEF IInv, AtMostTwo
<1>14. CloneProgress'
  BY <1>2 DEF IInv, CloneProgress
<1> QED
  BY <1>8, <1>9, <1>10, <1>11, <1>12, <1>13, <1>14 DEF IInv

-----------------------------------------------------------------------------
LEMMA Inductive == ASSUME Refork = FALSE PROVE IInv /\ [Next]_vars => IInv'
<1> SUFFICES ASSUME IInv, [Next]_vars PROVE IInv'
  OBVIOUS
<1>1. CASE UNCHANGED vars
  <2>1. /\ UNCHANGED <<pte, refcount, free, data, active, cloning, next, seen, leaky>>
        /\ Live' = Live
    BY <1>1 DEF vars, Live
  <2>2. TypeOK'
    BY <2>1 DEF IInv, TypeOK
  <2>3. WritableOrCow' /\ MappedNotFree' /\ Isolation'
    BY <2>1 DEF IInv, WritableOrCow, MappedNotFree, Isolation
  <2>4. SharedIsCounted' /\ AtMostTwo'
    BY <2>1 DEF IInv, SharedIsCounted, AtMostTwo
  <2>5. CloneProgress'
    BY <2>1 DEF IInv, CloneProgress
  <2> QED
    BY <2>2, <2>3, <2>4, <2>5 DEF IInv
<1> QED
  BY <1>1, CloneStartKeeps, ClonePageKeeps, CloneDoneKeeps, CloneFailsKeeps, StoreKeeps,
     CowFaultKeeps, SwitchKeeps, TeardownKeeps, ReapKeeps, ExecKeeps DEF Next

(* The state of the page tables, counts and frames stays well typed.       *)
THEOREM TypeCorrect == ASSUME Refork = FALSE PROVE Spec => []TypeOK
<1>1. IInv => TypeOK
  BY DEF IInv
<1> QED
  BY <1>1, InitEstablishes, Inductive, PTL DEF Spec

(* Copy-on-write isolates: whatever clones, faults, stores, reaping and    *)
(* exec interleave, every process reads its own values.                    *)
THEOREM Isolated == ASSUME Refork = FALSE PROVE Spec => []Isolation
<1>1. IInv => Isolation
  BY DEF IInv
<1> QED
  BY <1>1, InitEstablishes, Inductive, PTL DEF Spec

(* teardown_address_space never frees a frame that is still mapped.        *)
THEOREM NoUseAfterFree == ASSUME Refork = FALSE PROVE Spec => []MappedNotFree
<1>1. IInv => MappedNotFree
  BY DEF IInv
<1> QED
  BY <1>1, InitEstablishes, Inductive, PTL DEF Spec

(* A frame has at most one user, or two and a count that covers them.      *)
LEMMA UsersOfAFrame == ASSUME IInv PROVE CountCoversUsers
<1> SUFFICES ASSUME NEW f \in Frames
             PROVE  Cardinality(Mapped(f)) <= IF refcount[f] = 0 THEN 1 ELSE refcount[f]
  BY DEF CountCoversUsers
<1>1. refcount[f] \in Nat
  BY DEF IInv, TypeOK
<1>2. \A m \in Mapped(f) : /\ m = <<m[1], m[2]>>
                           /\ m[1] \in Live /\ m[2] \in Pages
                           /\ pte[m[1]][m[2]].frame = f
  BY DEF Mapped
<1>3. CASE Mapped(f) = {}
  BY <1>1, <1>3, FS_EmptySet
<1>4. ASSUME NEW m \in Mapped(f), Mapped(f) = {m}
      PROVE  Cardinality(Mapped(f)) <= IF refcount[f] = 0 THEN 1 ELSE refcount[f]
  BY <1>1, <1>4, FS_Singleton
<1>5. ASSUME NEW m \in Mapped(f), NEW k \in Mapped(f), m # k
      PROVE  Cardinality(Mapped(f)) <= IF refcount[f] = 0 THEN 1 ELSE refcount[f]
  <2>1. m[1] # k[1] /\ refcount[f] >= 2
    BY <1>2, <1>5 DEF IInv, SharedIsCounted
  <2>2. ASSUME NEW n \in Mapped(f) PROVE n = m \/ n = k
    <3>1. n[1] = m[1] \/ n[1] = k[1]
      BY <1>2, <2>1 DEF IInv, AtMostTwo
    <3> QED
      BY <1>2, <3>1 DEF IInv, SharedIsCounted
  <2>3. Mapped(f) = {m} \cup {k}
    BY <2>2
  <2>4. IsFiniteSet({m}) /\ Cardinality({m}) = 1
    BY FS_Singleton
  <2>5. Cardinality({m} \cup {k}) = 2
    <3>1. k \notin {m}
      BY <1>5
    <3>2. Cardinality({m} \cup {k}) = IF k \in {m} THEN Cardinality({m})
                                      ELSE Cardinality({m}) + 1
      BY <2>4, FS_AddElement, Zenon
    <3> QED
      BY <2>4, <3>1, <3>2
  <2> QED
    BY <1>1, <2>1, <2>3, <2>5
<1> QED
  BY <1>3, <1>4, <1>5

(* PAGE_REFCOUNTS never says fewer users than a frame has.                 *)
THEOREM CountsCover == ASSUME Refork = FALSE PROVE Spec => []CountCoversUsers
<1>1. IInv => CountCoversUsers
  BY UsersOfAFrame
<1> QED
  BY <1>1, InitEstablishes, Inductive, PTL DEF Spec

-----------------------------------------------------------------------------
(* Without the paths that drop an address space (a reap by the scheduler,  *)
(* execve, a fork that fails half way) no frame is lost.                   *)

Used(f) == \E s \in Live, v \in Pages : pte[s][v].frame = f

TwoUsers(f) ==
    \E s, t \in Live : \E v, w \in Pages :
        s # t /\ pte[s][v].frame = f /\ pte[t][w].frame = f

(* The clone in progress has counted f for the child.                      *)
ForChild(f) ==
    cloning # NoSpace /\ \E v \in Pages : v < next /\ pte[cloning][v].frame = f

(* The counts are never too high either: a count of two has two users (or  *)
(* one and the child to come), and a copy-on-write page is always counted, *)
(* so that whoever leaves last finds the count 1 and frees the frame.      *)
CountsExact ==
    /\ \A f \in Frames : refcount[f] <= 2
    /\ \A f \in Frames : refcount[f] >= 2 => TwoUsers(f) \/ ForChild(f)
    /\ \A s \in Live, v \in Pages : pte[s][v].cow => refcount[pte[s][v].frame] >= 1
    /\ \A f \in Frames : f \in free \/ Used(f)

(* The inductive invariant.                                                *)
LInv == IInv /\ (~leaky => CountsExact)

-----------------------------------------------------------------------------
LEMMA InitExact == Init => LInv
<1> SUFFICES ASSUME Init PROVE CountsExact
  BY InitEstablishes DEF LInv
<1>1. PICK g \in Placements(Frames) :
        /\ pte = [s \in {active} |-> [v \in Pages |-> LoadedPage(g[v])]]
        /\ free = Frames \ {g[v] : v \in Pages}
  BY DEF Init
<1>2. \A v \in Pages : g[v] \in Frames
  BY DEF Placements
<1>3. /\ Live = {active}
      /\ \A v \in Pages : pte[active][v] = LoadedPage(g[v])
      /\ \A f \in Frames : refcount[f] = 0
  BY <1>1 DEF Init, Live
<1>4. \A v \in Pages : pte[active][v].frame = g[v] /\ ~pte[active][v].cow
  BY <1>2, <1>3, LoadedPageFact
<1>5. \A f \in Frames : f \in free \/ Used(f)
  BY <1>1, <1>3, <1>4 DEF Used
<1> QED
  BY <1>3, <1>4, <1>5 DEF CountsExact

(* What a step that writes no frame number and no count keeps.             *)
LEMMA ExactKept ==
    ASSUME CountsExact, UNCHANGED <<refcount, free>>, Live' = Live,
           \A s \in Live, v \in Pages : /\ pte'[s][v].frame = pte[s][v].frame
                                        /\ pte'[s][v].cow => pte[s][v].cow,
           \A f \in Frames : ForChild(f) => ForChild(f)'
    PROVE  CountsExact'
<1>1. \A f \in Frames : (TwoUsers(f) => TwoUsers(f)') /\ (Used(f) => Used(f)')
  BY DEF TwoUsers, Used
<1> QED
  BY <1>1 DEF CountsExact

(* fork.                                                                   *)
LEMMA CloneStartExact ==
    ASSUME IInv, CountsExact, CloneStart PROVE CountsExact'
<1>1. /\ UNCHANGED <<pte, refcount, free>> /\ Live' = Live
      /\ cloning = NoSpace
  BY DEF CloneStart, Live
<1>2. \A f \in Frames : ForChild(f) => ForChild(f)'
  BY <1>1 DEF ForChild
<1> QED
  BY <1>1, <1>2, ExactKept

LEMMA ClonePageExact ==
    ASSUME IInv, CountsExact, ClonePage PROVE CountsExact'
<1> DEFINE e == pte[active][next]
<1>1. /\ cloning = active /\ next \in Pages /\ cloning # NoSpace /\ active \in Live
      /\ pte \in [Live -> [Pages -> Entries]]
      /\ refcount \in [Frames -> Nat]
      /\ cloning' = cloning /\ next' = next + 1 /\ free' = free
  BY NoSpaceAssumption DEF IInv, ClonePage, TypeOK
<1>2. e \in Entries /\ e.frame \in Frames /\ e.writable /\ ~e.cow
  <2>1. e.writable
    BY <1>1 DEF IInv, CloneProgress, Pages
  <2>2. e \in Entries /\ ~e.cow
    BY <1>1, <2>1 DEF IInv, WritableOrCow
  <2> QED
    BY <2>1, <2>2 DEF Entries
<1>3. Shared(e) \in Entries /\ Shared(e).frame = e.frame
  BY <1>2 DEF Shared, Entries
<1>4. /\ Live' = Live
      /\ \A s \in Live, v \in Pages :
           pte'[s][v] = IF s = active /\ v = next THEN Shared(e) ELSE pte[s][v]
  <2>1. pte' = [pte EXCEPT ![active] = [@ EXCEPT ![next] = Shared(e)]]
    BY DEF ClonePage
  <2>2. DOMAIN pte' = Live
    BY <1>1, <1>3, <2>1, UpdateEntry
  <2>3. \A s \in Live, v \in Pages :
          pte'[s][v] = IF s = active /\ v = next THEN Shared(e) ELSE pte[s][v]
    BY <1>1, <1>3, <2>1, UpdateEntry
  <2> QED
    BY <2>2, <2>3 DEF Live
<1>5. refcount[e.frame] < 2
  <2> SUFFICES ASSUME refcount[e.frame] >= 2 PROVE FALSE
    BY <1>1, <1>2
  <2>1. TwoUsers(e.frame) \/ ForChild(e.frame)
    BY <1>2 DEF CountsExact
  <2>2. \A t \in Live, w \in Pages : pte[t][w].frame = e.frame => t = active /\ w = next
    BY <1>1, <1>2 DEF IInv, SharedIsCounted
  <2>3. ~TwoUsers(e.frame)
    BY <2>2 DEF TwoUsers
  <2>4. ~ForChild(e.frame)
    BY <1>1, <2>2 DEF ForChild, Pages
  <2> QED
    BY <2>1, <2>3, <2>4
<1>6. /\ refcount'[e.frame] = 2
      /\ \A f \in Frames : f # e.frame => refcount'[f] = refcount[f]
  <2>1. refcount' = [refcount EXCEPT ![e.frame] = refcount_inc(@)]
    BY <1>2 DEF ClonePage
  <2>2. refcount_inc(refcount[e.frame]) = 2
    BY <1>1, <1>2, <1>5 DEF refcount_inc
  <2> QED
    BY <1>1, <1>2, <2>1, <2>2
<1>7. \A s \in Live, v \in Pages : pte'[s][v].frame = pte[s][v].frame
  BY <1>3, <1>4
<1>8. \A f \in Frames : /\ TwoUsers(f) => TwoUsers(f)'
                        /\ Used(f) => Used(f)'
                        /\ ForChild(f) => ForChild(f)'
  <2> TAKE f \in Frames
  <2>1. \A v \in Pages : v < next => v < next'
    BY <1>1 DEF Pages
  <2>2. TwoUsers(f) => TwoUsers(f)'
    BY <1>4, <1>7 DEF TwoUsers
  <2>3. Used(f) => Used(f)'
    BY <1>4, <1>7 DEF Used
  <2>4. ForChild(f) => ForChild(f)'
    BY <1>1, <1>7, <2>1 DEF ForChild
  <2> QED
    BY <2>2, <2>3, <2>4
<1>9. ASSUME NEW f \in Frames, f = e.frame PROVE ForChild(f)'
  <2>1. next < next' /\ pte'[cloning'][next].frame = f /\ cloning' # NoSpace
    BY <1>1, <1>7, <1>9 DEF Pages
  <2> QED
    BY <1>1, <2>1 DEF ForChild
<1>10. ASSUME NEW s \in Live, NEW v \in Pages, pte'[s][v].cow
       PROVE  refcount'[pte'[s][v].frame] >= 1
  <2>1. pte[s][v].frame \in Frames /\ refcount[pte[s][v].frame] \in Nat
    BY <1>1 DEF Entries
  <2>2. CASE pte[s][v].frame = e.frame
    BY <1>6, <1>7, <2>2
  <2>3. CASE pte[s][v].frame # e.frame
    <3>1. pte'[s][v] = pte[s][v]
      BY <1>4, <2>3
    <3> QED
      BY <1>6, <1>10, <2>1, <2>3, <3>1 DEF CountsExact
  <2> QED
    BY <2>2, <2>3
<1>11. ASSUME NEW f \in Frames
       PROVE  refcount'[f] <= 2 /\ (refcount'[f] >= 2 => TwoUsers(f)' \/ ForChild(f)')
  BY <1>6, <1>8, <1>9 DEF CountsExact
<1> HIDE DEF e
<1> QED
  BY <1>1, <1>4, <1>8, <1>10, <1>11 DEF CountsExact

(* The child becomes the second user of every page.                        *)
LEMMA CloneDoneExact ==
    ASSUME IInv, CountsExact, CloneDone PROVE CountsExact'
<1>1. PICK c \in Spaces \ Live :
        pte' = [s \in Live \cup {c} |-> IF s = c THEN pte[active] ELSE pte[s]]
  BY DEF CloneDone
<1>2. /\ cloning = active /\ active \in Live /\ c # active
      /\ UNCHANGED <<refcount, free>>
  BY DEF IInv, CloneDone, TypeOK
<1>3. /\ Live' = Live \cup {c}
      /\ \A v \in Pages : pte'[c][v] = pte[active][v]
      /\ \A s \in Live, v \in Pages : pte'[s][v] = pte[s][v]
  BY <1>1, <1>2 DEF Live
<1>4. ASSUME NEW f \in Frames
      PROVE  /\ TwoUsers(f) => TwoUsers(f)'
             /\ Used(f) => Used(f)'
             /\ ForChild(f) => TwoUsers(f)'
  <2>1. TwoUsers(f) => TwoUsers(f)'
    BY <1>3 DEF TwoUsers
  <2>2. Used(f) => Used(f)'
    BY <1>3 DEF Used
  <2>3. ASSUME ForChild(f) PROVE TwoUsers(f)'
    <3>1. PICK v \in Pages : pte[active][v].frame = f
      BY <1>2, <2>3 DEF ForChild
    <3>2. /\ active \in Live' /\ c \in Live' /\ active # c
          /\ pte'[active][v].frame = f /\ pte'[c][v].frame = f
      BY <1>2, <1>3, <3>1
    <3> QED
      BY <3>2 DEF TwoUsers
  <2> QED
    BY <2>1, <2>2, <2>3
<1>5. \A s \in Live', v \in Pages : pte'[s][v].cow => refcount[pte'[s][v].frame] >= 1
  BY <1>2, <1>3 DEF CountsExact
<1> QED
  BY <1>2, <1>4, <1>5 DEF CountsExact

LEMMA CloneFailsExact ==
    ASSUME IInv, CountsExact, CloneFails, ~leaky' PROVE CountsExact'
<1>1. /\ UNCHANGED <<pte, refcount, free>> /\ Live' = Live
      /\ ~(next > 1) /\ next \in 1 .. NPages + 1
  BY DEF IInv, TypeOK, CloneFails, Live
<1>2. \A f \in Frames : ~ForChild(f)
  BY <1>1 DEF ForChild, Pages
<1> QED
  BY <1>1, <1>2, ExactKept

(* Stores and switches change neither tables nor counts.                   *)
LEMMA StoreExact ==
    ASSUME CountsExact, Store \/ Switch \/ UNCHANGED vars PROVE CountsExact'
<1>1. UNCHANGED <<pte, refcount, free, cloning, next>> /\ Live' = Live
  BY DEF Store, Switch, vars, Live
<1>2. \A f \in Frames : ForChild(f) => ForChild(f)'
  BY <1>1 DEF ForChild
<1> QED
  BY <1>1, <1>2, ExactKept

(* A fault that copies leaves the old frame to its other user, with count  *)
(* one; a fault of the sole user changes no count.                         *)
LEMMA CowFaultExact ==
    ASSUME IInv, CountsExact, CowFault PROVE CountsExact'
<1> DEFINE e(p) == pte[active][p]
<1>1. PICK p \in Pages :
        /\ e(p).cow
        /\ IF SoleOwner(refcount[e(p).frame])
           THEN /\ pte' = [pte EXCEPT ![active] = [@ EXCEPT ![p] = LoadedPage(e(p).frame)]]
                /\ UNCHANGED <<refcount, free, data>>
           ELSE \E f \in free :
                /\ pte' = [pte EXCEPT ![active] = [@ EXCEPT ![p] = LoadedPage(f)]]
                /\ data' = [data EXCEPT ![f] = data[e(p).frame]]
                /\ free' = free \ {f}
                /\ refcount' = [refcount EXCEPT ![e(p).frame] = refcount_dec(@)]
  BY DEF CowFault
<1> DEFINE old == pte[active][p].frame
<1>2. /\ UNCHANGED <<cloning, next>>
      /\ active \in Live /\ active # cloning
      /\ pte \in [Live -> [Pages -> Entries]]
      /\ refcount \in [Frames -> Nat]
      /\ free \subseteq Frames
      /\ cloning # NoSpace => cloning \in Live
  BY DEF IInv, CowFault, TypeOK, RunsUserCode
<1>3. /\ \A s \in Live, v \in Pages : pte[s][v].frame \in Frames
      /\ old \in Frames /\ refcount[old] \in Nat
  BY <1>2 DEF Entries
<1>4. CASE SoleOwner(refcount[old])
  <2>1. /\ pte' = [pte EXCEPT ![active] = [@ EXCEPT ![p] = LoadedPage(old)]]
        /\ UNCHANGED <<refcount, free>>
    BY <1>1, <1>4
  <2>2. /\ DOMAIN pte' = Live
        /\ \A s \in Live, v \in Pages :
             pte'[s][v] = IF s = active /\ v = p THEN LoadedPage(old) ELSE pte[s][v]
    BY <1>2, <1>3, <2>1, UpdateEntry, LoadedPageFact
  <2>3. /\ Live' = Live
        /\ \A s \in Live, v \in Pages : /\ pte'[s][v].frame = pte[s][v].frame
                                        /\ pte'[s][v].cow => pte[s][v].cow
    BY <1>3, <2>2, LoadedPageFact DEF Live
  <2>4. \A f \in Frames : ForChild(f) => ForChild(f)'
    BY <1>2, <2>3 DEF ForChild
  <2> QED
    BY <2>1, <2>3, <2>4, ExactKept
<1>5. CASE ~SoleOwner(refcount[old])
  <2>1. PICK f \in free :
          /\ pte' = [pte EXCEPT ![active] = [@ EXCEPT ![p] = LoadedPage(f)]]
          /\ free' = free \ {f}
          /\ refcount' = [refcount EXCEPT ![old] = refcount_dec(@)]
    BY <1>1, <1>5
  <2>2. /\ DOMAIN pte' = Live
        /\ \A s \in Live, v \in Pages :
             pte'[s][v] = IF s = active /\ v = p THEN LoadedPage(f) ELSE pte[s][v]
    BY <1>2, <2>1, UpdateEntry, LoadedPageFact
  <2>3. /\ Live' = Live /\ f \in Frames
        /\ pte'[active][p].frame = f /\ ~pte'[active][p].cow
        /\ \A s \in Live, v \in Pages :
             /\ (s # active \/ v # p) => pte'[s][v] = pte[s][v]
             /\ pte[s][v].frame # f
    BY <1>2, <2>1, <2>2, LoadedPageFact DEF IInv, MappedNotFree, Live
  <2>4. refcount[old] = 2
    BY <1>3, <1>5 DEF CountsExact, SoleOwner
  <2>5. /\ refcount'[old] = 1
        /\ \A g \in Frames : g # old => refcount'[g] = refcount[g]
    BY <1>2, <1>3, <2>1, <2>4 DEF refcount_dec
  <2>6. ~ForChild(old)
    BY <1>1, <1>2 DEF IInv, CloneProgress, ForChild
  <2>7. ASSUME NEW g \in Frames, g = old PROVE Used(g)'
    <3>1. TwoUsers(old)
      BY <1>3, <2>4, <2>6 DEF CountsExact
    <3>2. PICK s \in Live, v \in Pages : s # active /\ pte[s][v].frame = old
      BY <3>1 DEF TwoUsers
    <3>3. s \in Live' /\ pte'[s][v].frame = g
      BY <2>3, <2>7, <3>2
    <3> QED
      BY <3>3 DEF Used
  <2>8. ASSUME NEW g \in Frames, g # old
        PROVE  /\ Used(g) => Used(g)'
               /\ TwoUsers(g) => TwoUsers(g)'
               /\ ForChild(g) => ForChild(g)'
    <3>1. \A s \in Live, v \in Pages : pte[s][v].frame = g => pte'[s][v].frame = g
      BY <2>3, <2>8
    <3>2. Used(g) => Used(g)'
      BY <2>3, <3>1 DEF Used
    <3>3. TwoUsers(g) => TwoUsers(g)'
      BY <2>3, <3>1 DEF TwoUsers
    <3>4. ForChild(g) => ForChild(g)'
      BY <1>2, <3>1 DEF ForChild
    <3> QED
      BY <3>2, <3>3, <3>4
  <2>9. \A g \in Frames : g \in free' \/ Used(g)'
    <3>1. Used(f)'
      BY <1>2, <2>3 DEF Used
    <3> QED
      BY <2>1, <2>7, <2>8, <3>1 DEF CountsExact
  <2>10. ASSUME NEW g \in Frames
         PROVE  refcount'[g] <= 2 /\ (refcount'[g] >= 2 => TwoUsers(g)' \/ ForChild(g)')
    BY <2>5, <2>8 DEF CountsExact
  <2>11. ASSUME NEW s \in Live, NEW v \in Pages, pte'[s][v].cow
         PROVE  refcount'[pte'[s][v].frame] >= 1
    <3>1. pte'[s][v] = pte[s][v] /\ pte[s][v].frame \in Frames
      BY <1>3, <2>3, <2>11
    <3> QED
      BY <2>5, <2>11, <3>1 DEF CountsExact
  <2> HIDE DEF old
  <2> QED
    BY <2>3, <2>9, <2>10, <2>11 DEF CountsExact
<1> QED
  BY <1>4, <1>5

(* The last user of a frame finds the count 1 and frees it; before that    *)
(* there is another user, who keeps it.                                    *)
LEMMA TeardownExact ==
    ASSUME IInv, CountsExact, Teardown PROVE CountsExact'
<1>1. PICK s \in Live \ {active} :
        /\ free' = free \cup OwnFrames(s) \cup {f \in CowFrames(s) : WasLast(refcount[f])}
        /\ refcount' = [f \in Frames |-> IF f \in CowFrames(s)
                                         THEN refcount_dec(refcount[f]) ELSE refcount[f]]
        /\ pte' = Without(pte, s)
  BY DEF Teardown
<1>2. /\ cloning = NoSpace
      /\ pte \in [Live -> [Pages -> Entries]]
      /\ refcount \in [Frames -> Nat]
  BY DEF IInv, Teardown, TypeOK
<1>3. /\ Live' = Live \ {s}
      /\ \A t \in Live \ {s} : pte'[t] = pte[t]
  BY <1>1, <1>2 DEF Without, Live
<1>4. /\ \A t \in Live, v \in Pages : pte[t][v].frame \in Frames
      /\ \A f \in Frames : ~ForChild(f) /\ refcount[f] \in Nat
  BY <1>2 DEF Entries, ForChild
<1>5. /\ \A f \in CowFrames(s) : \E w \in Pages : pte[s][w].frame = f /\ pte[s][w].cow
      /\ \A w \in Pages : pte[s][w].cow => pte[s][w].frame \in CowFrames(s)
      /\ \A w \in Pages : ~pte[s][w].cow => pte[s][w].frame \in OwnFrames(s)
  BY DEF CowFrames, OwnFrames
<1>6. \A f \in Frames : refcount'[f] = IF f \in CowFrames(s)
                                       THEN refcount_dec(refcount[f]) ELSE refcount[f]
  BY <1>1
<1>7. ASSUME NEW f \in Frames PROVE f \in free' \/ Used(f)'
  <2>1. CASE f \in free
    BY <1>1, <2>1
  <2>2. CASE \E t \in Live \ {s}, v \in Pages : pte[t][v].frame = f
    BY <1>3, <2>2 DEF Used
  <2>3. CASE /\ f \notin free
             /\ \A t \in Live \ {s}, v \in Pages : pte[t][v].frame # f
    <3>1. PICK w \in Pages : pte[s][w].frame = f
      BY <2>3 DEF CountsExact, Used
    <3>2. CASE ~pte[s][w].cow
      BY <1>1, <1>5, <3>1, <3>2
    <3>3. CASE pte[s][w].cow
      <4>1. ~TwoUsers(f)
        BY <2>3 DEF TwoUsers
      <4>2. refcount[f] = 1
        BY <1>1, <1>4, <3>1, <3>3, <4>1 DEF CountsExact
      <4> QED
        BY <1>1, <1>5, <3>1, <3>3, <4>2 DEF WasLast
    <3> QED
      BY <3>2, <3>3
  <2> QED
    BY <2>1, <2>2, <2>3 DEF CountsExact
<1>8. ASSUME NEW f \in Frames, refcount'[f] >= 2 PROVE TwoUsers(f)'
  <2>1. f \notin CowFrames(s)
    <3>1. refcount[f] <= 2 /\ refcount[f] \in Nat
      BY <1>4 DEF CountsExact
    <3> QED
      BY <1>6, <1>8, <3>1 DEF refcount_dec
  <2>2. refcount[f] >= 2
    BY <1>6, <1>8, <2>1
  <2>3. PICK t, r \in Live : \E v, w \in Pages :
          t # r /\ pte[t][v].frame = f /\ pte[r][w].frame = f
    BY <1>4, <2>2 DEF CountsExact, TwoUsers
  <2>4. PICK v, w \in Pages : t # r /\ pte[t][v].frame = f /\ pte[r][w].frame = f
    BY <2>3
  <2>5. pte[t][v].cow /\ pte[r][w].cow
    BY <2>4 DEF IInv, SharedIsCounted
  <2>6. t # s /\ r # s
    BY <1>5, <2>1, <2>4, <2>5
  <2> QED
    BY <1>3, <2>4, <2>6 DEF TwoUsers
<1>9. \A f \in Frames : refcount'[f] <= 2
  BY <1>4, <1>6 DEF CountsExact, refcount_dec
<1>10. ASSUME NEW t \in Live \ {s}, NEW v \in Pages, pte[t][v].cow
       PROVE  refcount'[pte[t][v].frame] >= 1
  <2> DEFINE f == pte[t][v].frame
  <2>1. f \in Frames /\ refcount[f] >= 1 /\ refcount[f] \in Nat
    BY <1>4, <1>10 DEF CountsExact
  <2>2. CASE f \in CowFrames(s)
    <3>1. PICK w \in Pages : pte[s][w].frame = f
      BY <1>5, <2>2
    <3>2. refcount[f] >= 2
      BY <1>1, <3>1 DEF IInv, SharedIsCounted
    <3> QED
      BY <1>6, <2>1, <2>2, <3>2 DEF refcount_dec
  <2>3. CASE f \notin CowFrames(s)
    BY <1>6, <2>1, <2>3
  <2> QED
    BY <2>2, <2>3
<1> QED
  BY <1>3, <1>7, <1>8, <1>9, <1>10 DEF CountsExact

-----------------------------------------------------------------------------
LEMMA ExactInductive == ASSUME Refork = FALSE PROVE LInv /\ [Next]_vars => LInv'
<1> SUFFICES ASSUME LInv, [Next]_vars, ~leaky' PROVE CountsExact'
  BY Inductive DEF LInv
<1>1. IInv /\ leaky \in BOOLEAN
  BY DEF LInv, IInv, TypeOK
<1>2. ~ReapWithoutTeardown /\ ~Exec
  BY DEF ReapWithoutTeardown, Exec
<1>3. ~leaky
  BY <1>1, <1>2 DEF Next, CloneStart, ClonePage, CloneDone, CloneFails, Store, CowFault,
                    Switch, Teardown, vars
<1>4. CountsExact
  BY <1>3 DEF LInv
<1> QED
  BY <1>1, <1>2, <1>4, CloneStartExact, ClonePageExact, CloneDoneExact, CloneFailsExact,
     StoreExact, CowFaultExact, TeardownExact DEF Next

(* As long as every ended process is torn down by waitpid, every frame is  *)
(* in use or free again, whatever forks, faults and teardowns interleave.  *)
THEOREM NoFrameLost == ASSUME Refork = FALSE PROVE Spec => []NothingLost
<1>1. LInv => NothingLost
  <2> SUFFICES ASSUME CountsExact, NEW f \in Frames PROVE f \in free \/ Mapped(f) # {}
    BY DEF LInv, NothingLost
  <2>1. CASE Used(f)
    <3>1. PICK s \in Live, v \in Pages : pte[s][v].frame = f
      BY <2>1 DEF Used
    <3>2. <<s, v>> \in Mapped(f)
      BY <3>1 DEF Mapped
    <3> QED
      BY <3>2
  <2> QED
    BY <2>1 DEF CountsExact
<1> QED
  BY <1>1, InitExact, ExactInductive, PTL DEF Spec
=============================================================================
