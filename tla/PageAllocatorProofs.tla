------------------------ MODULE PageAllocatorProofs ------------------------
(***************************************************************************)
(* Proofs about the page allocator, for any memory, any width of a bitmap  *)
(* word and any number of clients: its bitmaps implement FrameLife.        *)
(***************************************************************************)
EXTENDS BitmapProofs

-----------------------------------------------------------------------------
(* The whole state, and who owns each frame in it.                         *)

Owners == {"free", "mapped", "table", "held", "pinned", "lost", "reserved"}

IsMem(m) ==
    /\ m = [nodes |-> m.nodes, mapped |-> m.mapped, tables |-> m.tables, lost |-> m.lost]
    /\ Bitmaps(m.nodes)
    /\ m.mapped \in [VPages -> Frames \cup {None}]
    /\ m.tables \in [Areas -> Frames \cup {None}]
    /\ m.lost \subseteq Frames

AreJobs(j) ==
    /\ j \in [Clients -> Jobs]
    /\ \A c \in Clients : j[c] # Idle => j[c].page \in ScratchPages /\ j[c].frame \in Frames

MappedOnce(p) == \A v, w \in VPages : p[v] = p[w] /\ v # w => p[v] = None
TablesOnce(t) == \A a, b \in Areas : t[a] = t[b] /\ a # b => t[a] = None
OneUser(m, h, j) ==
    /\ MappedOnce(m.mapped) /\ TablesOnce(m.tables)
    /\ \A c, d \in Clients : j[c].frame = j[d].frame /\ c # d => j[c] = Idle
    /\ \A c \in Clients : j[c].frame \notin h

Transient(m, j) ==
    \A v \in ScratchPages : m.mapped[v] # None =>
        \E c \in Clients : j[c] = [page |-> v, frame |-> m.mapped[v]]

Sound(m, h, pi, j) ==
    /\ IsMem(m) /\ AreJobs(j) /\ h \subseteq Frames /\ pi \subseteq Frames
    /\ OneUser(m, h, j) /\ Transient(m, j)

Owning(own, m, h, pi, j) ==
    \A f \in Frames :
        /\ own[f] = "free" <=> f \in FreeFrames(m.nodes)
        /\ own[f] = "mapped" <=> \E v \in OrdinaryPages : m.mapped[v] = f
        /\ own[f] = "table" <=> \E a \in Areas : m.tables[a] = f
        /\ own[f] = "held" <=> f \in h \/ \E c \in Clients : j[c].frame = f
        /\ own[f] = "pinned" <=> f \in pi
        /\ own[f] = "lost" <=> f \in m.lost
        /\ own[f] = "reserved" <=> f \notin Managed(m.nodes)

Owned(own, m, h, pi, j) ==
    Sound(m, h, pi, j) /\ own \in [Frames -> Owners] /\ Owning(own, m, h, pi, j)

(* A step from owners own that leaves m, h, pi and j.                      *)
Moves(own, new) == \A f \in Frames : Life!Move(own[f], new[f])
MovesTo(own, m, h, pi, j) ==
    \E new \in [Frames -> Owners] : Owning(new, m, h, pi, j) /\ Moves(own, new)
Keeps(own, m, h, pi, j) == Sound(m, h, pi, j) /\ MovesTo(own, m, h, pi, j)

(* A free frame has no user, and a page that is mapped is mapped to a      *)
(* frame that is neither free nor unmanaged.                               *)
LEMMA Unused ==
    ASSUME NEW m, NEW h, NEW pi, NEW j, NEW own, Owned(own, m, h, pi, j),
           NEW f \in FreeFrames(m.nodes)
    PROVE  /\ f \in Frames /\ own[f] = "free" /\ f # None
           /\ \A v \in VPages : m.mapped[v] # f
           /\ \A a \in Areas : m.tables[a] # f
           /\ \A c \in Clients : j[c].frame # f
           /\ f \notin h /\ f \notin pi /\ f \notin m.lost /\ f \in Managed(m.nodes)
<1>1. f \in Frames /\ f # None
  BY FramesAssumption DEF FreeFrames
<1>2. own[f] = "free"
  BY <1>1 DEF Owned, Owning
<1>3. /\ \A v \in OrdinaryPages : m.mapped[v] # f
      /\ \A a \in Areas : m.tables[a] # f
      /\ f \notin h /\ \A c \in Clients : j[c].frame # f
      /\ f \notin pi /\ f \notin m.lost /\ f \in Managed(m.nodes)
  BY <1>1, <1>2 DEF Owned, Owning
<1>4. ASSUME NEW v \in ScratchPages, m.mapped[v] = f
      PROVE  FALSE
  <2>1. PICK c \in Clients : j[c] = [page |-> v, frame |-> m.mapped[v]]
    BY <1>1, <1>4 DEF Owned, Sound, Transient
  <2>2. j[c].frame = f
    BY <1>4, <2>1
  <2> QED
    BY <1>3, <2>2
<1> QED
  BY <1>1, <1>2, <1>3, <1>4 DEF OrdinaryPages

LEMMA JobFacts ==
    ASSUME NEW j, AreJobs(j), NEW c \in Clients
    PROVE  /\ j[c].frame = None <=> j[c] = Idle
           /\ j[c].frame \in Frames <=> j[c] # Idle
           /\ j[c] = [page |-> j[c].page, frame |-> j[c].frame]
  BY FramesAssumption DEF AreJobs, Jobs, Idle

LEMMA ScratchInVPages == ScratchPages \subseteq VPages /\ OrdinaryPages \subseteq VPages
  BY ScratchAssumption DEF ScratchPages, Range, OrdinaryPages

(* map_page and kalloc_page: nothing happens, or a free frame f is taken   *)
(* and perhaps another for a table; f is lost, or returned, and mapped if  *)
(* nothing was mapped at v.                                                *)
Tabled(m, r, v, T) ==
    \/ T = {} /\ r.tables = m.tables
    \/ \E t : /\ T = {t} /\ m.tables[AreaOf[v]] = None
              /\ r.tables = [m.tables EXCEPT ![AreaOf[v]] = t]

Taken(m, v, f, T, r) ==
    /\ IsMem(r.mem) /\ Managed(r.mem.nodes) = Managed(m.nodes)
    /\ T \subseteq FreeFrames(m.nodes) \ {f}
    /\ FreeFrames(r.mem.nodes) = FreeFrames(m.nodes) \ ({f} \cup T)
    /\ Tabled(m, r.mem, v, T)
    /\ \/ r.frame = None /\ r.mem.lost = m.lost \cup {f} /\ r.mem.mapped = m.mapped
       \/ r.frame = f /\ r.mem.lost = m.lost /\ m.mapped[v] # None /\ r.mem.mapped = m.mapped
       \/ /\ r.frame = f /\ r.mem.lost = m.lost /\ m.mapped[v] = None
          /\ r.mem.mapped = [m.mapped EXCEPT ![v] = f]

LEMMA WithTableFact ==
    ASSUME NEW m, IsMem(m), NEW v \in VPages
    PROVE  LET t == WithTable(m, v)
           IN  /\ IsMem(t) /\ t.mapped = m.mapped /\ t.lost = m.lost
               /\ Managed(t.nodes) = Managed(m.nodes)
               /\ \E T \in SUBSET FreeFrames(m.nodes) :
                    Tabled(m, t, v, T) /\ FreeFrames(t.nodes) = FreeFrames(m.nodes) \ T
<1> DEFINE a == AreaOf[v]
           x == alloc_any(m.nodes)
           t == WithTable(m, v)
<1>1. a \in Areas
  BY AreaAssumption
<1>2. CASE m.tables[a] # None \/ x = None
  <2>1. t = m
    BY <1>2 DEF WithTable
  <2>2. Tabled(m, m, v, {}) /\ FreeFrames(m.nodes) = FreeFrames(m.nodes) \ {}
    BY DEF Tabled
  <2> QED
    BY <2>1, <2>2
<1>3. CASE m.tables[a] = None /\ x # None
  <2>1. x \in FreeFrames(m.nodes)
    BY <1>3, AllocAnyFact DEF IsMem
  <2>2. x \in Managed(m.nodes) /\ x \in Frames
    BY <2>1, FreeFact DEF IsMem
  <2> DEFINE n == Claim(m.nodes, x)
             b == [m.tables EXCEPT ![a] = x]
  <2>3. /\ Bitmaps(n) /\ Managed(n) = Managed(m.nodes)
        /\ FreeFrames(n) = FreeFrames(m.nodes) \ {x}
    BY <2>2, ClaimFact DEF IsMem
  <2>4. t = [m EXCEPT !.nodes = n, !.tables[a] = x]
    BY <1>3 DEF WithTable
  <2>5. b \in [Areas -> Frames \cup {None}]
    BY <1>1, <2>2 DEF IsMem
  <2>6. t = [nodes |-> n, mapped |-> m.mapped, tables |-> b, lost |-> m.lost]
    <3> HIDE DEF n, x, a
    <3> QED
      BY <2>4 DEF IsMem
  <2> HIDE DEF t, n, b, x, a
  <2>7. t.nodes = n /\ t.mapped = m.mapped /\ t.tables = b /\ t.lost = m.lost
    BY <2>6
  <2>8. IsMem(t)
    BY <2>3, <2>5, <2>6, <2>7 DEF IsMem
  <2>9. Tabled(m, t, v, {x})
    BY <1>3, <2>7 DEF Tabled, b, a
  <2>10. {x} \in SUBSET FreeFrames(m.nodes)
    BY <2>1
  <2> QED
    BY <2>3, <2>7, <2>8, <2>9, <2>10 DEF t
<1> QED
  BY <1>2, <1>3

LEMMA KallocFact ==
    ASSUME NEW m, IsMem(m), NEW v \in VPages, NEW r, r = kalloc_page(m, v)
    PROVE  \/ r.mem = m /\ r.frame = None
           \/ \E f \in FreeFrames(m.nodes) : \E T \in SUBSET FreeFrames(m.nodes) :
                Taken(m, v, f, T, r)
<1> DEFINE f == alloc_any(m.nodes)
           n == Claim(m.nodes, f)
           m1 == [m EXCEPT !.nodes = n]
           t == WithTable(m1, v)
<1>1. CASE f = None
  BY <1>1 DEF kalloc_page, Result
<1>2. CASE f # None
  <2>1. f \in FreeFrames(m.nodes)
    BY <1>2, AllocAnyFact DEF IsMem
  <2>2. f \in Managed(m.nodes) /\ f \in Frames
    BY <2>1, FreeFact DEF IsMem
  <2>3. /\ Bitmaps(n) /\ Managed(n) = Managed(m.nodes)
        /\ FreeFrames(n) = FreeFrames(m.nodes) \ {f}
    BY <2>2, ClaimFact DEF IsMem
  <2>4. r = map_page(m1, v, f)
    BY <1>2 DEF kalloc_page
  <2> HIDE DEF n, f
  <2>5. m1 = [nodes |-> n, mapped |-> m.mapped, tables |-> m.tables, lost |-> m.lost]
    BY DEF IsMem
  <2> HIDE DEF m1
  <2>6. m1.nodes = n /\ m1.mapped = m.mapped /\ m1.tables = m.tables /\ m1.lost = m.lost
    BY <2>5
  <2>7. IsMem(m1)
    BY <2>3, <2>5, <2>6 DEF IsMem
  <2>8. /\ IsMem(t) /\ t.mapped = m.mapped /\ t.lost = m.lost
        /\ Managed(t.nodes) = Managed(m.nodes)
    BY <2>3, <2>6, <2>7, WithTableFact
  <2>9. PICK T \in SUBSET FreeFrames(n) :
           Tabled(m1, t, v, T) /\ FreeFrames(t.nodes) = FreeFrames(n) \ T
    BY <2>6, <2>7, WithTableFact
  <2>10. /\ T \subseteq FreeFrames(m.nodes) \ {f} /\ T \in SUBSET FreeFrames(m.nodes)
         /\ FreeFrames(t.nodes) = FreeFrames(m.nodes) \ ({f} \cup T)
    BY <2>3, <2>9
  <2>11. Tabled(m, t, v, T)
    BY <2>6, <2>9 DEF Tabled
  <2>12. r = CASE t.tables[AreaOf[v]] = None -> Result([t EXCEPT !.lost = @ \cup {f}], None)
               [] t.tables[AreaOf[v]] # None /\ t.mapped[v] # None -> Result(t, f)
               [] OTHER -> Result([t EXCEPT !.mapped[v] = f], f)
    BY <2>4 DEF map_page
  <2> HIDE DEF t
  <2>13. CASE t.tables[AreaOf[v]] = None
    <3>1. r = Result([t EXCEPT !.lost = @ \cup {f}], None)
      BY <2>12, <2>13
    <3> DEFINE u == [t EXCEPT !.lost = @ \cup {f}]
    <3>2. u = [nodes |-> t.nodes, mapped |-> t.mapped, tables |-> t.tables, lost |-> t.lost \cup {f}]
      BY <2>8 DEF IsMem
    <3>3. r.mem = u /\ r.frame = None
      BY <3>1 DEF Result
    <3> HIDE DEF u
    <3>4. u.nodes = t.nodes /\ u.mapped = t.mapped /\ u.tables = t.tables /\ u.lost = t.lost \cup {f}
      BY <3>2
    <3>5. IsMem(u)
      BY <2>2, <2>8, <3>2, <3>4 DEF IsMem
    <3>6. Tabled(m, u, v, T)
      BY <2>11, <3>4 DEF Tabled
    <3>7. Taken(m, v, f, T, r)
      BY <2>8, <2>10, <3>3, <3>4, <3>5, <3>6 DEF Taken
    <3> QED
      BY <2>1, <2>10, <3>7
  <2>14. CASE t.tables[AreaOf[v]] # None /\ t.mapped[v] # None
    <3>1. r = Result(t, f)
      BY <2>12, <2>14
    <3>2. r.mem = t /\ r.frame = f
      BY <3>1 DEF Result
    <3>3. Taken(m, v, f, T, r)
      BY <2>8, <2>10, <2>11, <2>14, <3>2 DEF Taken
    <3> QED
      BY <2>1, <2>10, <3>3
  <2>15. CASE t.tables[AreaOf[v]] # None /\ t.mapped[v] = None
    <3>1. r = Result([t EXCEPT !.mapped[v] = f], f)
      BY <2>12, <2>15
    <3> DEFINE u == [t EXCEPT !.mapped[v] = f]
               p == [t.mapped EXCEPT ![v] = f]
    <3>2. u = [nodes |-> t.nodes, mapped |-> p, tables |-> t.tables, lost |-> t.lost]
      BY <2>8 DEF IsMem
    <3>3. r.mem = u /\ r.frame = f
      BY <3>1 DEF Result
    <3>4. p \in [VPages -> Frames \cup {None}]
      BY <2>2, <2>8 DEF IsMem
    <3> HIDE DEF u, p
    <3>5. u.nodes = t.nodes /\ u.mapped = p /\ u.tables = t.tables /\ u.lost = t.lost
      BY <3>2
    <3>6. IsMem(u)
      BY <2>8, <3>2, <3>4, <3>5 DEF IsMem
    <3>7. Tabled(m, u, v, T)
      BY <2>11, <3>5 DEF Tabled
    <3>8. p = [m.mapped EXCEPT ![v] = f] /\ m.mapped[v] = None
      BY <2>8, <2>15 DEF p
    <3>9. Taken(m, v, f, T, r)
      BY <2>8, <2>10, <3>3, <3>5, <3>6, <3>7, <3>8 DEF Taken
    <3> QED
      BY <2>1, <2>10, <3>9
  <2> QED
    BY <2>13, <2>14, <2>15
<1> QED
  BY <1>1, <1>2

LEMMA TablesFact ==
    ASSUME NEW m, NEW h, NEW pi, NEW j, NEW own, Owned(own, m, h, pi, j),
           NEW v \in VPages, NEW T \in SUBSET FreeFrames(m.nodes), NEW m2, Tabled(m, m2, v, T)
    PROVE  /\ \A g \in Frames : (\E a \in Areas : m2.tables[a] = g)
                                  <=> (\E a \in Areas : m.tables[a] = g) \/ g \in T
           /\ TablesOnce(m2.tables)
<1>1. CASE T = {} /\ m2.tables = m.tables
  BY <1>1 DEF Owned, Sound, OneUser
<1>2. ASSUME NEW t, T = {t}, m.tables[AreaOf[v]] = None,
             m2.tables = [m.tables EXCEPT ![AreaOf[v]] = t]
      PROVE  /\ \A g \in Frames : (\E a \in Areas : m2.tables[a] = g)
                                    <=> (\E a \in Areas : m.tables[a] = g) \/ g \in T
             /\ TablesOnce(m2.tables)
  <2> DEFINE x == AreaOf[v]
  <2>1. x \in Areas /\ DOMAIN m.tables = Areas
    BY AreaAssumption DEF Owned, Sound, IsMem
  <2>2. /\ t \in Frames /\ t # None /\ \A a \in Areas : m.tables[a] # t
    BY <1>2, Unused
  <2>3. m2.tables[x] = t /\ \A a \in Areas : a # x => m2.tables[a] = m.tables[a]
    BY <1>2, <2>1
  <2> HIDE DEF x
  <2>4. \A g \in Frames : (\E a \in Areas : m2.tables[a] = g)
                            <=> (\E a \in Areas : m.tables[a] = g) \/ g \in T
    <3> TAKE g \in Frames
    <3>1. g # None /\ m.tables[x] = None
      BY <1>2, FramesAssumption DEF x
    <3>2. ASSUME NEW a \in Areas, m2.tables[a] = g
          PROVE  (\E b \in Areas : m.tables[b] = g) \/ g \in T
      BY <1>2, <2>3, <3>2
    <3>3. ASSUME NEW a \in Areas, m.tables[a] = g
          PROVE  \E b \in Areas : m2.tables[b] = g
      BY <2>3, <3>1, <3>3
    <3>4. g \in T => \E b \in Areas : m2.tables[b] = g
      BY <1>2, <2>1, <2>3
    <3> QED
      BY <3>2, <3>3, <3>4
  <2>5. TablesOnce(m2.tables)
    BY <2>2, <2>3 DEF Owned, Sound, OneUser, TablesOnce
  <2> QED
    BY <2>4, <2>5
<1> QED
  BY <1>1, <1>2 DEF Tabled

(* A frame taken goes to one owner, and the table's frame to another.      *)
Cleared(m, v, f, T, m2) ==
    /\ f \notin T /\ Tabled(m, m2, v, T)
    /\ Managed(m2.nodes) = Managed(m.nodes)
    /\ FreeFrames(m2.nodes) = FreeFrames(m.nodes) \ ({f} \cup T)

GoesTo(f, kind, m, j, m2, j2) ==
    /\ kind \in {"lost", "mapped", "held"}
    /\ \A g \in Frames :
        /\ (\E w \in OrdinaryPages : m2.mapped[w] = g)
             <=> (\E w \in OrdinaryPages : m.mapped[w] = g) \/ (kind = "mapped" /\ g = f)
        /\ g \in m2.lost <=> g \in m.lost \/ (kind = "lost" /\ g = f)
        /\ (\E c \in Clients : j2[c].frame = g)
             <=> (\E c \in Clients : j[c].frame = g) \/ (kind = "held" /\ g = f)

LEMMA TakenOwners ==
    ASSUME NEW m, NEW h, NEW pi, NEW j, NEW own, Owned(own, m, h, pi, j),
           NEW v \in VPages, NEW f \in FreeFrames(m.nodes), NEW T \in SUBSET FreeFrames(m.nodes),
           NEW m2, Cleared(m, v, f, T, m2), NEW kind, NEW j2, GoesTo(f, kind, m, j, m2, j2)
    PROVE  MovesTo(own, m2, h, pi, j2)
<1> DEFINE new == [g \in Frames |-> IF g = f THEN kind ELSE IF g \in T THEN "table" ELSE own[g]]
<1>1. f \in Frames /\ own[f] = "free" /\ f \notin h /\ f \notin pi /\ f \notin m.lost
      /\ (\A w \in OrdinaryPages : m.mapped[w] # f) /\ (\A a \in Areas : m.tables[a] # f)
      /\ (\A c \in Clients : j[c].frame # f) /\ f \in Managed(m.nodes)
  BY Unused, ScratchInVPages
<1>2. \A g \in T : g \in Frames /\ own[g] = "free" /\ g \in Managed(m.nodes)
  BY Unused
<1>3. new \in [Frames -> Owners]
  BY DEF Owners, Owned, GoesTo
<1>4. \A g \in Frames : (\E a \in Areas : m2.tables[a] = g)
                          <=> (\E a \in Areas : m.tables[a] = g) \/ g \in T
  <2>1. Tabled(m, m2, v, T)
    BY DEF Cleared
  <2> QED
    BY <2>1, TablesFact
<1>5. ASSUME NEW g \in Frames
      PROVE  /\ g = f => new[g] = kind
             /\ g \in T => new[g] = "table"
             /\ g # f /\ g \notin T => new[g] = own[g]
  BY DEF Cleared
<1> HIDE DEF new
<1>6. ASSUME NEW g \in Frames
      PROVE  /\ new[g] = "free" <=> g \in FreeFrames(m2.nodes)
             /\ new[g] = "mapped" <=> \E w \in OrdinaryPages : m2.mapped[w] = g
             /\ new[g] = "table" <=> \E a \in Areas : m2.tables[a] = g
             /\ new[g] = "held" <=> g \in h \/ \E c \in Clients : j2[c].frame = g
             /\ new[g] = "pinned" <=> g \in pi
             /\ new[g] = "lost" <=> g \in m2.lost
             /\ new[g] = "reserved" <=> g \notin Managed(m2.nodes)
  <2> DEFINE M == \E w \in OrdinaryPages : m.mapped[w] = g
             B == \E a \in Areas : m.tables[a] = g
             J == \E c \in Clients : j[c].frame = g
             M2 == \E w \in OrdinaryPages : m2.mapped[w] = g
             B2 == \E a \in Areas : m2.tables[a] = g
             J2 == \E c \in Clients : j2[c].frame = g
  <2>1. /\ own[g] = "free" <=> g \in FreeFrames(m.nodes)
        /\ own[g] = "mapped" <=> M
        /\ own[g] = "table" <=> B
        /\ own[g] = "held" <=> g \in h \/ J
        /\ own[g] = "pinned" <=> g \in pi
        /\ own[g] = "lost" <=> g \in m.lost
        /\ own[g] = "reserved" <=> g \notin Managed(m.nodes)
    BY DEF Owned, Owning
  <2>2. /\ M2 <=> M \/ (kind = "mapped" /\ g = f)
        /\ g \in m2.lost <=> g \in m.lost \/ (kind = "lost" /\ g = f)
        /\ J2 <=> J \/ (kind = "held" /\ g = f)
        /\ B2 <=> B \/ g \in T
    BY <1>4 DEF GoesTo
  <2> kind \in {"lost", "mapped", "held"}
    BY DEF GoesTo
  <2> HIDE DEF M, B, J, M2, B2, J2
  <2>3. CASE g = f
    <3>1. new[g] = kind /\ own[g] = "free" /\ g \notin T
      BY <1>1, <1>5, <2>3 DEF Cleared
    <3> QED
      BY <2>1, <2>2, <2>3, <3>1 DEF Cleared, M2, B2, J2
  <2>4. CASE g \in T
    <3>1. new[g] = "table" /\ own[g] = "free" /\ g # f
      BY <1>2, <1>5, <2>4 DEF Cleared
    <3> QED
      BY <2>1, <2>2, <2>4, <3>1 DEF Cleared, M2, B2, J2
  <2>5. CASE g # f /\ g \notin T
    <3>1. new[g] = own[g]
      BY <1>5, <2>5
    <3> QED
      BY <2>1, <2>2, <2>5, <3>1 DEF Cleared, M2, B2, J2
  <2> QED
    BY <2>3, <2>4, <2>5
<1>7. Owning(new, m2, h, pi, j2)
  BY <1>6 DEF Owning
<1>8. Moves(own, new)
  <2> SUFFICES ASSUME NEW g \in Frames PROVE Life!Move(own[g], new[g])
    BY DEF Moves
  <2>1. own[g] \in Owners /\ kind \in {"lost", "mapped", "held"}
    BY DEF Owned, GoesTo
  <2> QED
    BY <1>1, <1>2, <1>5, <2>1 DEF Life!Move, Life!Edges, Life!Owners, Owners
<1> QED
  BY <1>3, <1>7, <1>8 DEF MovesTo

(* A new mapping of a free frame keeps mappings one to one.                *)
MappedAt(p, old, v, f) == p[v] = f /\ \A x \in VPages : x # v => p[x] = old[x]

LEMMA MappingAdded ==
    ASSUME NEW m, NEW h, NEW pi, NEW j, NEW own, Owned(own, m, h, pi, j),
           NEW v \in VPages, NEW f \in FreeFrames(m.nodes), NEW p, MappedAt(p, m.mapped, v, f)
    PROVE  MappedOnce(p)
<1>1. \A x \in VPages : m.mapped[x] # f
  BY Unused
<1> QED
  BY <1>1 DEF Owned, Sound, OneUser, MappedOnce, MappedAt

(* kalloc_page by a caller that only uses the page.                        *)
LEMMA KallocKeeps ==
    ASSUME NEW m, NEW h, NEW pi, NEW j, NEW own, Owned(own, m, h, pi, j),
           NEW v \in OrdinaryPages, NEW m2, m2 = kalloc_mapping(m, v).mem
    PROVE  Keeps(own, m2, h, pi, j)
<1> DEFINE r == kalloc_page(m, v)
<1>1. v \in VPages /\ IsMem(m)
  BY ScratchInVPages DEF Owned, Sound
<1>2. \/ r.mem = m /\ r.frame = None
      \/ \E f \in FreeFrames(m.nodes) : \E T \in SUBSET FreeFrames(m.nodes) : Taken(m, v, f, T, r)
  BY <1>1, KallocFact
<1>3. /\ r.frame = None \/ r.mem.mapped[v] = r.frame => m2 = r.mem
      /\ ~(r.frame = None \/ r.mem.mapped[v] = r.frame)
            => m2 = [r.mem EXCEPT !.lost = @ \cup {r.frame}]
  BY DEF kalloc_mapping, Result
<1> HIDE DEF r
<1>4. CASE r.mem = m /\ r.frame = None
  <2>1. m2 = m
    BY <1>3, <1>4
  <2>2. Moves(own, own)
    BY DEF Owned, Moves, Life!Move, Life!Owners, Owners
  <2> QED
    BY <2>1, <2>2 DEF Owned, Keeps, MovesTo
<1>5. ASSUME NEW f \in FreeFrames(m.nodes), NEW T \in SUBSET FreeFrames(m.nodes),
             Taken(m, v, f, T, r)
      PROVE  Keeps(own, m2, h, pi, j)
  <2>1. f \in Frames /\ f # None /\ (\A w \in VPages : m.mapped[w] # f)
    BY Unused
  <2>2. /\ IsMem(r.mem) /\ Managed(r.mem.nodes) = Managed(m.nodes) /\ f \notin T
        /\ FreeFrames(r.mem.nodes) = FreeFrames(m.nodes) \ ({f} \cup T)
        /\ Tabled(m, r.mem, v, T)
    BY <1>5 DEF Taken
  <2>3. TablesOnce(r.mem.tables)
    BY <1>1, <2>2, TablesFact
  <2>4. CASE r.frame = None /\ r.mem.lost = m.lost \cup {f} /\ r.mem.mapped = m.mapped
    <3>1. m2 = r.mem
      BY <1>3, <2>4
    <3>2. Sound(m2, h, pi, j)
      BY <2>2, <2>3, <2>4, <3>1 DEF Owned, Sound, OneUser, Transient
    <3>3. MovesTo(own, m2, h, pi, j)
      <4>1. GoesTo(f, "lost", m, j, m2, j)
        BY <2>4, <3>1 DEF GoesTo
      <4>2. Cleared(m, v, f, T, m2)
        BY <2>2, <3>1 DEF Cleared
      <4> QED
        BY <1>1, <4>1, <4>2, TakenOwners
    <3> QED
      BY <3>2, <3>3 DEF Keeps
  <2>5. CASE r.frame = f /\ r.mem.lost = m.lost /\ m.mapped[v] # None /\ r.mem.mapped = m.mapped
    <3>1. m2 = [r.mem EXCEPT !.lost = @ \cup {f}]
      BY <1>1, <1>3, <2>1, <2>5
    <3>2. m2 = [nodes |-> r.mem.nodes, mapped |-> m.mapped, tables |-> r.mem.tables,
                lost |-> m.lost \cup {f}]
      BY <2>2, <2>5, <3>1 DEF IsMem
    <3>3. /\ m2.nodes = r.mem.nodes /\ m2.mapped = m.mapped /\ m2.tables = r.mem.tables
          /\ m2.lost = m.lost \cup {f}
      BY <3>2
    <3>4. IsMem(m2)
      BY <2>1, <2>2, <2>5, <3>2, <3>3 DEF IsMem
    <3>5. Sound(m2, h, pi, j)
      BY <2>3, <3>3, <3>4 DEF Owned, Sound, OneUser, Transient
    <3>6. MovesTo(own, m2, h, pi, j)
      <4>1. GoesTo(f, "lost", m, j, m2, j)
        BY <3>3 DEF GoesTo
      <4>3. Tabled(m, m2, v, T)
        BY <2>2, <3>3 DEF Tabled
      <4>4. Cleared(m, v, f, T, m2)
        BY <2>2, <3>3, <4>3 DEF Cleared
      <4> QED
        BY <1>1, <4>1, <4>4, TakenOwners
    <3> QED
      BY <3>5, <3>6 DEF Keeps
  <2>6. CASE /\ r.frame = f /\ r.mem.lost = m.lost /\ m.mapped[v] = None
             /\ r.mem.mapped = [m.mapped EXCEPT ![v] = f]
    <3>1. /\ MappedOnce(r.mem.mapped)
          /\ r.mem.mapped[v] = f /\ \A x \in VPages : x # v => r.mem.mapped[x] = m.mapped[x]
      <4>1. MappedAt(r.mem.mapped, m.mapped, v, f)
        BY <1>1, <2>6 DEF MappedAt, IsMem
      <4>2. MappedOnce(r.mem.mapped)
        BY <1>1, <4>1, MappingAdded
      <4> QED
        BY <4>1, <4>2 DEF MappedAt
    <3>2. m2 = r.mem
      BY <1>3, <2>6, <3>1
    <3>3. Transient(m2, j)
      BY <3>1, <3>2, ScratchInVPages DEF Owned, Sound, Transient, OrdinaryPages
    <3>4. Sound(m2, h, pi, j)
      BY <2>2, <2>3, <3>1, <3>2, <3>3 DEF Owned, Sound, OneUser
    <3>5. MovesTo(own, m2, h, pi, j)
      <4>1. GoesTo(f, "mapped", m, j, m2, j)
        <5> SUFFICES ASSUME NEW g \in Frames
                     PROVE  /\ (\E w \in OrdinaryPages : m2.mapped[w] = g)
                                 <=> (\E w \in OrdinaryPages : m.mapped[w] = g) \/ g = f
                            /\ g \in m2.lost <=> g \in m.lost
          BY DEF GoesTo
        <5>1. g # None
          BY FramesAssumption
        <5>2. (\E w \in OrdinaryPages : m2.mapped[w] = g)
                <=> (\E w \in OrdinaryPages : m.mapped[w] = g) \/ g = f
          BY <2>6, <3>1, <3>2, <5>1, ScratchInVPages
        <5>3. m2.lost = m.lost
          BY <2>6, <3>2
        <5> QED
          BY <5>2, <5>3
      <4>2. Cleared(m, v, f, T, m2)
        BY <2>2, <3>2 DEF Cleared
      <4> QED
        BY <1>1, <4>1, <4>2, TakenOwners
    <3> QED
      BY <3>4, <3>5 DEF Keeps
  <2> QED
    BY <1>5, <2>4, <2>5, <2>6 DEF Taken
<1> QED
  BY <1>2, <1>4, <1>5

-----------------------------------------------------------------------------
(* Frames S change hands together, from one owner to another.              *)
SevenOwners(o, f, m, h, pi, j) ==
    /\ o = "free" <=> f \in FreeFrames(m.nodes)
    /\ o = "mapped" <=> \E v \in OrdinaryPages : m.mapped[v] = f
    /\ o = "table" <=> \E a \in Areas : m.tables[a] = f
    /\ o = "held" <=> f \in h \/ \E c \in Clients : j[c].frame = f
    /\ o = "pinned" <=> f \in pi
    /\ o = "lost" <=> f \in m.lost
    /\ o = "reserved" <=> f \notin Managed(m.nodes)

LEMMA OwnersMoved ==
    ASSUME NEW m, NEW h, NEW pi, NEW j, NEW own, Owned(own, m, h, pi, j),
           NEW S, NEW from, NEW to \in Owners, <<from, to>> \in Life!Edges \/ from = to,
           \A g \in S : g \in Frames /\ own[g] = from,
           NEW m2, NEW h2, NEW pi2, NEW j2,
           \A g \in Frames :
               /\ g \in S => SevenOwners(to, g, m2, h2, pi2, j2)
               /\ g \notin S => SevenOwners(own[g], g, m2, h2, pi2, j2)
    PROVE  MovesTo(own, m2, h2, pi2, j2)
<1> DEFINE new == [g \in Frames |-> IF g \in S THEN to ELSE own[g]]
<1>1. new \in [Frames -> Owners]
  BY DEF Owned
<1>2. \A g \in Frames : (g \in S => new[g] = to) /\ (g \notin S => new[g] = own[g])
  OBVIOUS
<1> HIDE DEF new
<1>3. Owning(new, m2, h2, pi2, j2)
  <2> SUFFICES ASSUME NEW g \in Frames PROVE SevenOwners(new[g], g, m2, h2, pi2, j2)
    BY DEF Owning, SevenOwners
  <2> QED
    BY <1>2
<1>4. Moves(own, new)
  <2> SUFFICES ASSUME NEW g \in Frames PROVE Life!Move(own[g], new[g])
    BY DEF Moves
  <2>1. own[g] \in Owners /\ Owners = Life!Owners
    BY DEF Owned, Owners, Life!Owners
  <2> QED
    BY <1>2, <2>1 DEF Life!Move
<1> QED
  BY <1>1, <1>3, <1>4 DEF MovesTo

LEMMA EdgeFacts ==
    /\ <<"mapped", "free">> \in Life!Edges /\ <<"held", "free">> \in Life!Edges
    /\ <<"free", "pinned">> \in Life!Edges
    /\ "free" \in Owners /\ "pinned" \in Owners /\ "held" \in Owners
  BY DEF Life!Edges, Owners

NewNodes(m, n, m2) == m2 = [m EXCEPT !.nodes = n]

LEMMA WithNodes ==
    ASSUME NEW m, IsMem(m), NEW n, Bitmaps(n), NEW m2, NewNodes(m, n, m2)
    PROVE  /\ IsMem(m2) /\ m2.nodes = n /\ m2.mapped = m.mapped /\ m2.tables = m.tables
           /\ m2.lost = m.lost
<1>1. m2 = [nodes |-> n, mapped |-> m.mapped, tables |-> m.tables, lost |-> m.lost]
  BY DEF IsMem, NewNodes
<1>2. m2.nodes = n /\ m2.mapped = m.mapped /\ m2.tables = m.tables /\ m2.lost = m.lost
  BY <1>1
<1> QED
  BY <1>1, <1>2 DEF IsMem

(* A frame, or the frames of a 2 MiB page, taken at a given address.       *)
LEMMA PinKeeps ==
    ASSUME NEW m, NEW h, NEW pi, NEW j, NEW own, Owned(own, m, h, pi, j),
           NEW S \in SUBSET FreeFrames(m.nodes), NEW n, Bitmaps(n),
           Managed(n) = Managed(m.nodes), FreeFrames(n) = FreeFrames(m.nodes) \ S,
           NEW m2, NewNodes(m, n, m2)
    PROVE  Keeps(own, m2, h, pi \cup S, j)
<1>1. /\ IsMem(m2) /\ m2.nodes = n /\ m2.mapped = m.mapped /\ m2.tables = m.tables
      /\ m2.lost = m.lost
  BY WithNodes DEF Owned, Sound
<1>2. \A g \in S : g \in Frames /\ own[g] = "free"
  BY Unused
<1>3. Sound(m2, h, pi \cup S, j)
  BY <1>1, <1>2 DEF Owned, Sound, OneUser, Transient
<1>4. ASSUME NEW g \in Frames
      PROVE  /\ g \in S => SevenOwners("pinned", g, m2, h, pi \cup S, j)
             /\ g \notin S => SevenOwners(own[g], g, m2, h, pi \cup S, j)
  <2>1. SevenOwners(own[g], g, m, h, pi, j)
    BY DEF Owned, Owning, SevenOwners
  <2>2. CASE g \in S
    <3>1. own[g] = "free"
      BY <1>2, <2>2
    <3> QED
      BY <1>1, <2>1, <2>2, <3>1 DEF SevenOwners
  <2>3. CASE g \notin S
    BY <1>1, <2>1, <2>3 DEF SevenOwners
  <2> QED
    BY <2>2, <2>3
<1>5. MovesTo(own, m2, h, pi \cup S, j)
  BY <1>2, <1>4, OwnersMoved, EdgeFacts
<1> QED
  BY <1>3, <1>5 DEF Keeps

(* kfree_page.                                                             *)
LEMMA KfreeKeeps ==
    ASSUME NEW m, NEW h, NEW pi, NEW j, NEW own, Owned(own, m, h, pi, j),
           NEW v \in OrdinaryPages, m.mapped[v] # None, NEW m2, m2 = kfree_page(m, v)
    PROVE  Keeps(own, m2, h, pi, j)
<1> DEFINE f == m.mapped[v]
           n == dealloc(m.nodes, f)
           p == [m.mapped EXCEPT ![v] = None]
<1>1. v \in VPages /\ IsMem(m) /\ v \notin ScratchPages
  BY ScratchInVPages DEF Owned, Sound, OrdinaryPages
<1>2. f \in Frames /\ own[f] = "mapped"
  <2>1. f \in Frames
    BY <1>1 DEF IsMem
  <2> QED
    BY <2>1 DEF Owned, Owning
<1>3. f \in Managed(m.nodes)
  BY <1>2 DEF Owned, Owning
<1>4. Bitmaps(n) /\ Managed(n) = Managed(m.nodes) /\ FreeFrames(n) = FreeFrames(m.nodes) \cup {f}
  BY <1>1, <1>3, DeallocFact DEF IsMem
<1>5. m2 = [m EXCEPT !.mapped[v] = None, !.nodes = n]
  BY DEF kfree_page
<1>6. p \in [VPages -> Frames \cup {None}]
  BY <1>1 DEF IsMem
<1>7. p[v] = None /\ \A x \in VPages : x # v => p[x] = m.mapped[x]
  BY <1>1 DEF IsMem
<1> HIDE DEF n
<1>8. m2 = [nodes |-> n, mapped |-> p, tables |-> m.tables, lost |-> m.lost]
  BY <1>1, <1>5 DEF IsMem
<1> HIDE DEF p
<1>9. m2.nodes = n /\ m2.mapped = p /\ m2.tables = m.tables /\ m2.lost = m.lost
  BY <1>8
<1>10. IsMem(m2)
  BY <1>1, <1>4, <1>6, <1>8, <1>9 DEF IsMem
<1>11. Sound(m2, h, pi, j)
  <2>1. MappedOnce(m2.mapped)
    BY <1>7, <1>9 DEF Owned, Sound, OneUser, MappedOnce
  <2>2. Transient(m2, j)
    BY <1>1, <1>7, <1>9, ScratchInVPages DEF Owned, Sound, Transient
  <2> QED
    BY <1>9, <1>10, <2>1, <2>2 DEF Owned, Sound, OneUser
<1>12. ASSUME NEW g \in Frames
       PROVE  (\E w \in OrdinaryPages : m2.mapped[w] = g)
                <=> (\E w \in OrdinaryPages : m.mapped[w] = g) /\ g # f
  <2>1. g # None
    BY FramesAssumption
  <2>2. ASSUME NEW w \in OrdinaryPages, m2.mapped[w] = g
        PROVE  m.mapped[w] = g /\ g # f
    <3>1. w # v /\ w \in VPages
      BY <1>7, <1>9, <2>1, <2>2, ScratchInVPages
    <3>2. m.mapped[w] = g
      BY <1>7, <1>9, <2>2, <3>1
    <3> QED
      BY <1>1, <2>1, <3>1, <3>2 DEF Owned, Sound, OneUser, MappedOnce
  <2>3. ASSUME NEW w \in OrdinaryPages, m.mapped[w] = g, g # f
        PROVE  m2.mapped[w] = g
    BY <1>7, <1>9, <2>3, ScratchInVPages
  <2> QED
    BY <2>2, <2>3
<1> DEFINE S == {f}
<1>13. ASSUME NEW g \in Frames
       PROVE  /\ g \in S => SevenOwners("free", g, m2, h, pi, j)
              /\ g \notin S => SevenOwners(own[g], g, m2, h, pi, j)
  <2>1. SevenOwners(own[g], g, m, h, pi, j)
    BY DEF Owned, Owning, SevenOwners
  <2> HIDE DEF f
  <2>2. CASE g = f
    BY <1>2, <1>4, <1>9, <1>12, <2>1, <2>2 DEF SevenOwners
  <2>3. CASE g # f
    BY <1>4, <1>9, <1>12, <2>1, <2>3 DEF SevenOwners
  <2> QED
    BY <2>2, <2>3
<1>14. \A g \in S : g \in Frames /\ own[g] = "mapped"
  BY <1>2
<1> HIDE DEF S
<1>15. MovesTo(own, m2, h, pi, j)
  BY <1>13, <1>14, OwnersMoved, EdgeFacts
<1> QED
  BY <1>11, <1>15 DEF Keeps

(* free_phys_page.                                                         *)
LEMMA FreePhysKeeps ==
    ASSUME NEW m, NEW h, NEW pi, NEW j, NEW own, Owned(own, m, h, pi, j),
           NEW f \in h, NEW n, n = dealloc(m.nodes, f), NEW m2, NewNodes(m, n, m2)
    PROVE  Keeps(own, m2, h \ {f}, pi, j)
<1>1. f \in Frames /\ own[f] = "held" /\ IsMem(m)
  BY DEF Owned, Owning, Sound
<1>2. f \in Managed(m.nodes)
  BY <1>1 DEF Owned, Owning
<1>3. Bitmaps(n) /\ Managed(n) = Managed(m.nodes) /\ FreeFrames(n) = FreeFrames(m.nodes) \cup {f}
  BY <1>1, <1>2, DeallocFact DEF IsMem
<1>5. /\ IsMem(m2) /\ m2.nodes = n /\ m2.mapped = m.mapped /\ m2.tables = m.tables
      /\ m2.lost = m.lost
  BY <1>1, <1>3, WithNodes
<1>6. Sound(m2, h \ {f}, pi, j)
  BY <1>5 DEF Owned, Sound, OneUser, Transient
<1>7. \A c \in Clients : j[c].frame # f
  BY DEF Owned, Sound, OneUser
<1> DEFINE S == {f}
<1>8. ASSUME NEW g \in Frames
      PROVE  /\ g \in S => SevenOwners("free", g, m2, h \ {f}, pi, j)
             /\ g \notin S => SevenOwners(own[g], g, m2, h \ {f}, pi, j)
  <2>1. SevenOwners(own[g], g, m, h, pi, j)
    BY DEF Owned, Owning, SevenOwners
  <2>2. CASE g = f
    BY <1>1, <1>3, <1>5, <1>7, <2>1, <2>2 DEF SevenOwners
  <2>3. CASE g # f
    BY <1>3, <1>5, <2>1, <2>3 DEF SevenOwners
  <2> QED
    BY <2>2, <2>3
<1>9. \A g \in S : g \in Frames /\ own[g] = "held"
  BY <1>1
<1> HIDE DEF S
<1>10. MovesTo(own, m2, h \ {f}, pi, j)
  BY <1>8, <1>9, OwnersMoved, EdgeFacts
<1> QED
  BY <1>6, <1>10 DEF Keeps

(* A caller that was idle takes a job with a free frame.                   *)
JobAt(j2, j, c, v, f) ==
    /\ j2[c] = [page |-> v, frame |-> f]
    /\ \A d \in Clients : d # c => j2[d] = j[d]

JobsWith(j, h, f, j2) ==
    /\ AreJobs(j2)
    /\ \A d, e \in Clients : j2[d].frame = j2[e].frame /\ d # e => j2[d] = Idle
    /\ \A d \in Clients : j2[d].frame \notin h
    /\ \A g \in Frames : (\E d \in Clients : j2[d].frame = g)
                           <=> (\E d \in Clients : j[d].frame = g) \/ g = f

LEMMA JobTaken ==
    ASSUME NEW m, NEW h, NEW pi, NEW j, NEW own, Owned(own, m, h, pi, j),
           NEW c \in Clients, j[c] = Idle, NEW v \in ScratchPages,
           NEW f \in FreeFrames(m.nodes), NEW j2 \in [Clients -> Jobs], JobAt(j2, j, c, v, f)
    PROVE  JobsWith(j, h, f, j2)
<1>1. f \in Frames /\ f # None /\ f \notin h /\ \A d \in Clients : j[d].frame # f
  BY Unused
<1>2. j2[c].page = v /\ j2[c].frame = f /\ \A d \in Clients : d # c => j2[d] = j[d]
  BY DEF JobAt
<1>3. AreJobs(j) /\ \A d, e \in Clients : j[d].frame = j[e].frame /\ d # e => j[d] = Idle
  BY DEF Owned, Sound, OneUser
<1>4. j[c].frame = None /\ \A d \in Clients : j[d].frame \notin h
  <2>1. j[c].frame = None
    BY DEF Idle
  <2>2. \A d \in Clients : j[d].frame \notin h
    BY DEF Owned, Sound, OneUser
  <2> QED
    BY <2>1, <2>2
<1>5. AreJobs(j2)
  BY <1>1, <1>2, <1>3 DEF AreJobs
<1>6. \A d, e \in Clients : j2[d].frame = j2[e].frame /\ d # e => j2[d] = Idle
  <2> SUFFICES ASSUME NEW d \in Clients, NEW e \in Clients, j2[d].frame = j2[e].frame, d # e
               PROVE  j2[d] = Idle
    OBVIOUS
  <2>1. d # c /\ e # c
    BY <1>1, <1>2
  <2> QED
    BY <1>2, <1>3, <2>1
<1>7. \A d \in Clients : j2[d].frame \notin h
  BY <1>1, <1>2, <1>4
<1>8. ASSUME NEW g \in Frames
      PROVE  (\E d \in Clients : j2[d].frame = g)
                <=> (\E d \in Clients : j[d].frame = g) \/ g = f
  <2>1. g # None
    BY FramesAssumption
  <2>2. ASSUME NEW d \in Clients, j2[d].frame = g
        PROVE  (\E e \in Clients : j[e].frame = g) \/ g = f
    BY <1>2, <2>2
  <2>3. ASSUME NEW d \in Clients, j[d].frame = g
        PROVE  \E e \in Clients : j2[e].frame = g
    BY <1>2, <1>4, <2>1, <2>3
  <2>4. g = f => \E e \in Clients : j2[e].frame = g
    BY <1>2
  <2> QED
    BY <2>2, <2>3, <2>4
<1> QED
  BY <1>5, <1>6, <1>7, <1>8 DEF JobsWith

LEMMA TableBeginKeeps ==
    ASSUME NEW m, NEW h, NEW pi, NEW j, NEW own, Owned(own, m, h, pi, j),
           NEW c \in Clients, j[c] = Idle, NEW v \in ScratchPages,
           NEW r, r = kalloc_page(m, v),
           NEW j2, j2 = IF r.frame = None THEN j
                        ELSE [j EXCEPT ![c] = [page |-> v, frame |-> r.frame]]
    PROVE  Keeps(own, r.mem, h, pi, j2)
<1>1. v \in VPages /\ IsMem(m) /\ v \notin OrdinaryPages
  BY ScratchInVPages DEF Owned, Sound, OrdinaryPages
<1>2. \/ r.mem = m /\ r.frame = None
      \/ \E f \in FreeFrames(m.nodes) : \E T \in SUBSET FreeFrames(m.nodes) : Taken(m, v, f, T, r)
  BY <1>1, KallocFact
<1>3. CASE r.mem = m /\ r.frame = None
  <2>1. Moves(own, own)
    BY DEF Owned, Moves, Life!Move, Life!Owners, Owners
  <2> QED
    BY <1>3, <2>1 DEF Owned, Keeps, MovesTo
<1>4. ASSUME NEW f \in FreeFrames(m.nodes), NEW T \in SUBSET FreeFrames(m.nodes),
             Taken(m, v, f, T, r)
      PROVE  Keeps(own, r.mem, h, pi, j2)
  <2>1. f \in Frames /\ f # None /\ (\A w \in VPages : m.mapped[w] # f)
    BY Unused
  <2>2. /\ IsMem(r.mem) /\ Managed(r.mem.nodes) = Managed(m.nodes) /\ f \notin T
        /\ FreeFrames(r.mem.nodes) = FreeFrames(m.nodes) \ ({f} \cup T)
        /\ Tabled(m, r.mem, v, T)
    BY <1>4 DEF Taken
  <2>3. TablesOnce(r.mem.tables)
    BY <1>1, <2>2, TablesFact
  <2>4. Cleared(m, v, f, T, r.mem)
    BY <2>2 DEF Cleared
  <2>5. CASE r.frame = None /\ r.mem.lost = m.lost \cup {f} /\ r.mem.mapped = m.mapped
    <3>1. j2 = j
      BY <2>5
    <3>2. Sound(r.mem, h, pi, j)
      BY <2>2, <2>3, <2>5 DEF Owned, Sound, OneUser, Transient
    <3>3. GoesTo(f, "lost", m, j, r.mem, j)
      BY <2>5 DEF GoesTo
    <3>4. MovesTo(own, r.mem, h, pi, j)
      BY <1>1, <2>4, <3>3, TakenOwners
    <3> QED
      BY <3>1, <3>2, <3>4 DEF Keeps
  <2>6. ASSUME r.frame = f
        PROVE  JobAt(j2, j, c, v, f) /\ j2 \in [Clients -> Jobs]
    <3>1. j2 = [j EXCEPT ![c] = [page |-> v, frame |-> f]]
      BY <2>1, <2>6
    <3>2. [page |-> v, frame |-> f] \in Jobs
      BY <2>1 DEF Jobs
    <3> QED
      BY <3>1, <3>2 DEF JobAt, Owned, Sound, AreJobs
  <2>7. ASSUME r.frame = f
        PROVE  JobsWith(j, h, f, j2)
    <3>1. JobAt(j2, j, c, v, f) /\ j2 \in [Clients -> Jobs]
      BY <2>6, <2>7
    <3> QED
      BY <3>1, JobTaken
  <2>8. ASSUME r.frame = f, NEW w \in ScratchPages, m.mapped[w] # None
        PROVE  \E d \in Clients : j2[d] = [page |-> w, frame |-> m.mapped[w]]
    <3>1. PICK d \in Clients : j[d] = [page |-> w, frame |-> m.mapped[w]]
      BY <2>8 DEF Owned, Sound, Transient
    <3>2. d # c
      BY <2>8, <3>1 DEF Idle
    <3> QED
      BY <2>6, <2>8, <3>1, <3>2 DEF JobAt
  <2>9. CASE r.frame = f /\ r.mem.lost = m.lost /\ m.mapped[v] # None /\ r.mem.mapped = m.mapped
    <3>1. Transient(r.mem, j2)
      BY <2>8, <2>9 DEF Transient
    <3>2. MappedOnce(r.mem.mapped)
      BY <2>9 DEF Owned, Sound, OneUser
    <3>3. Sound(r.mem, h, pi, j2)
      BY <2>2, <2>3, <2>7, <2>9, <3>1, <3>2 DEF JobsWith, Owned, Sound, OneUser
    <3>4. GoesTo(f, "held", m, j, r.mem, j2)
      BY <2>7, <2>9 DEF JobsWith, GoesTo
    <3>5. MovesTo(own, r.mem, h, pi, j2)
      BY <1>1, <2>4, <3>4, TakenOwners
    <3> QED
      BY <3>3, <3>5 DEF Keeps
  <2>10. CASE /\ r.frame = f /\ r.mem.lost = m.lost /\ m.mapped[v] = None
              /\ r.mem.mapped = [m.mapped EXCEPT ![v] = f]
    <3>1. MappedAt(r.mem.mapped, m.mapped, v, f)
      BY <1>1, <2>10 DEF MappedAt, IsMem
    <3>2. MappedOnce(r.mem.mapped)
      BY <1>1, <3>1, MappingAdded
    <3>3. Transient(r.mem, j2)
      <4> SUFFICES ASSUME NEW w \in ScratchPages, r.mem.mapped[w] # None
                   PROVE  \E d \in Clients : j2[d] = [page |-> w, frame |-> r.mem.mapped[w]]
        BY DEF Transient
      <4>1. CASE w = v
        BY <2>6, <2>10, <3>1, <4>1 DEF JobAt, MappedAt
      <4>2. CASE w # v
        <5>1. r.mem.mapped[w] = m.mapped[w]
          BY <3>1, <4>2, ScratchInVPages DEF MappedAt
        <5> QED
          BY <2>8, <2>10, <5>1
      <4> QED
        BY <4>1, <4>2
    <3>4. Sound(r.mem, h, pi, j2)
      BY <2>2, <2>3, <2>7, <2>10, <3>2, <3>3 DEF JobsWith, Owned, Sound, OneUser
    <3>5. \A w \in OrdinaryPages : r.mem.mapped[w] = m.mapped[w]
      BY <1>1, <3>1, ScratchInVPages DEF MappedAt
    <3>6. GoesTo(f, "held", m, j, r.mem, j2)
      BY <2>7, <2>10, <3>5 DEF JobsWith, GoesTo
    <3>7. MovesTo(own, r.mem, h, pi, j2)
      BY <1>1, <2>4, <3>6, TakenOwners
    <3> QED
      BY <3>4, <3>7 DEF Keeps
  <2> QED
    BY <1>4, <2>5, <2>9, <2>10 DEF Taken
<1> QED
  BY <1>2, <1>3, <1>4

(* The end of alloc_page_table: the frame changes hands, not its owner.    *)
LEMMA TableEndKeeps ==
    ASSUME NEW m, NEW h, NEW pi, NEW j, NEW own, Owned(own, m, h, pi, j),
           NEW c \in Clients, j[c] # Idle,
           NEW m2, m2 = kleak_page(m, j[c].page), NEW j2, j2 = [j EXCEPT ![c] = Idle],
           NEW h2, h2 = h \cup {j[c].frame}
    PROVE  Keeps(own, m2, h2, pi, j2)
<1> DEFINE v == j[c].page
           f == j[c].frame
           p == [m.mapped EXCEPT ![v] = None]
<1>1. v \in ScratchPages /\ f \in Frames /\ f # None /\ IsMem(m) /\ AreJobs(j)
  BY FramesAssumption DEF Owned, Sound, AreJobs
<1>2. v \in VPages /\ v \notin OrdinaryPages
  BY <1>1, ScratchInVPages DEF OrdinaryPages
<1>3. p \in [VPages -> Frames \cup {None}]
  BY <1>1 DEF IsMem
<1>4. p[v] = None /\ \A x \in VPages : x # v => p[x] = m.mapped[x]
  BY <1>1, <1>2 DEF IsMem
<1>5. m2 = [m EXCEPT !.mapped[v] = None]
  BY DEF kleak_page
<1> HIDE DEF v, f
<1>6. m2 = [nodes |-> m.nodes, mapped |-> p, tables |-> m.tables, lost |-> m.lost]
  BY <1>1, <1>5 DEF IsMem
<1> HIDE DEF p
<1>7. m2.nodes = m.nodes /\ m2.mapped = p /\ m2.tables = m.tables /\ m2.lost = m.lost
  BY <1>6
<1>8. IsMem(m2)
  BY <1>1, <1>3, <1>6, <1>7 DEF IsMem
<1>9. /\ j2 \in [Clients -> Jobs] /\ j2[c] = Idle /\ \A d \in Clients : d # c => j2[d] = j[d]
  BY <1>1 DEF AreJobs, Jobs, Idle
<1>10. /\ \A d \in Clients : d # c => j[d].frame # f
       /\ \A d, e \in Clients : j[d].frame = j[e].frame /\ d # e => j[d] = Idle
       /\ \A d \in Clients : j[d].frame \notin h
  BY DEF f, Owned, Sound, OneUser
<1>11. Idle.frame = None /\ f = j[c].frame /\ v = j[c].page
  BY DEF Idle, f, v
<1>12. None \notin h2 /\ h2 \subseteq Frames /\ h2 = h \cup {f}
  BY <1>1, <1>11, FramesAssumption DEF Owned, Sound
<1>13. Sound(m2, h2, pi, j2)
  <2>1. AreJobs(j2)
    BY <1>1, <1>9 DEF AreJobs
  <2>2. MappedOnce(m2.mapped) /\ TablesOnce(m2.tables)
    BY <1>4, <1>7 DEF Owned, Sound, OneUser, MappedOnce
  <2>3. \A d, e \in Clients : j2[d].frame = j2[e].frame /\ d # e => j2[d] = Idle
    <3> SUFFICES ASSUME NEW d \in Clients, NEW e \in Clients, j2[d].frame = j2[e].frame, d # e
                 PROVE  j2[d] = Idle
      OBVIOUS
    <3>1. CASE d = c
      BY <1>9, <3>1
    <3>2. CASE e = c
      <4>1. j2[d] = j[d] /\ j[d].frame = None
        BY <1>9, <1>11, <3>2
      <4> QED
        BY <1>1, <4>1, JobFacts
    <3>3. CASE d # c /\ e # c
      BY <1>9, <1>10, <3>3
    <3> QED
      BY <3>1, <3>2, <3>3
  <2>4. \A d \in Clients : j2[d].frame \notin h2
    BY <1>9, <1>10, <1>11, <1>12
  <2>5. Transient(m2, j2)
    <3> SUFFICES ASSUME NEW w \in ScratchPages, m2.mapped[w] # None
                 PROVE  \E d \in Clients : j2[d] = [page |-> w, frame |-> m2.mapped[w]]
      BY DEF Transient
    <3>1. w # v /\ m2.mapped[w] = m.mapped[w]
      BY <1>4, <1>7, ScratchInVPages
    <3>2. PICK d \in Clients : j[d] = [page |-> w, frame |-> m.mapped[w]]
      BY <3>1 DEF Owned, Sound, Transient
    <3>3. d # c
      BY <1>11, <3>1, <3>2
    <3> QED
      BY <1>9, <3>1, <3>2, <3>3
  <2> QED
    BY <1>8, <1>12, <2>1, <2>2, <2>3, <2>4, <2>5 DEF Owned, Sound, OneUser
<1>14. ASSUME NEW g \in Frames
       PROVE  SevenOwners(own[g], g, m2, h2, pi, j2)
  <2>1. SevenOwners(own[g], g, m, h, pi, j)
    BY DEF Owned, Owning, SevenOwners
  <2>2. (\E w \in OrdinaryPages : m2.mapped[w] = g) <=> \E w \in OrdinaryPages : m.mapped[w] = g
    BY <1>2, <1>4, <1>7, ScratchInVPages
  <2>3. (g \in h2 \/ \E d \in Clients : j2[d].frame = g)
          <=> (g \in h \/ \E d \in Clients : j[d].frame = g)
    <3>1. g # None
      BY FramesAssumption
    <3>2. ASSUME NEW d \in Clients, j2[d].frame = g PROVE j[d].frame = g
      BY <1>9, <1>11, <3>1, <3>2
    <3>3. ASSUME NEW d \in Clients, j[d].frame = g
          PROVE  g \in h2 \/ \E e \in Clients : j2[e].frame = g
      BY <1>9, <1>11, <1>12, <3>3
    <3> QED
      BY <1>11, <1>12, <3>2, <3>3
  <2> QED
    BY <1>7, <2>1, <2>2, <2>3 DEF SevenOwners
<1> DEFINE S == {}
<1>15. \A g \in Frames : /\ g \in S => SevenOwners("held", g, m2, h2, pi, j2)
                         /\ g \notin S => SevenOwners(own[g], g, m2, h2, pi, j2)
  BY <1>14
<1>16. \A g \in S : g \in Frames /\ own[g] = "held"
  OBVIOUS
<1> HIDE DEF S
<1>17. MovesTo(own, m2, h2, pi, j2)
  BY <1>15, <1>16, OwnersMoved, EdgeFacts
<1> QED
  BY <1>13, <1>17 DEF Keeps

-----------------------------------------------------------------------------
(* The start, and init.                                                    *)

LEMMA NewNodeFact ==
    ASSUME NEW base \in Nat, NEW pages \in Nat,
           \A p \in 0 .. pages - 1 : base + p \in Frames,
           NEW n, n = NewNode(base, pages)
    PROVE  IsNode(n) /\ \A f \in Frames : Holds(n, f) => PageFree(n, f - n.base)
<1> DEFINE map == [w \in Words(pages) |-> {b \in Bits : w * WordBits + b < pages}]
<1>1. n = [base |-> base, pages |-> pages, map |-> map]
  BY DEF NewNode
<1>2. n.base = base /\ n.pages = pages /\ n.map = map
  BY <1>1
<1>3. map \in [Words(pages) -> SUBSET Bits]
  OBVIOUS
<1>4. ASSUME NEW w \in Words(pages), NEW b \in map[w]
      PROVE  WordBits * w + b < pages
  <2>1. w \in Int /\ b \in Int /\ w * WordBits + b < pages
    BY <1>4 DEF Words, Bits
  <2> QED
    BY <2>1, WordAssumption
<1>5. IsNode(n)
  <2> HIDE DEF map
  <2> QED
    BY <1>1, <1>2, <1>3, <1>4 DEF IsNode
<1>6. ASSUME NEW f \in Frames, Holds(n, f)
      PROVE  PageFree(n, f - n.base)
  <2> DEFINE p == f - base
             w == p \div WordBits
             b == p % WordBits
  <2>1. p \in 0 .. pages - 1 /\ p \in Nat
    BY <1>2, <1>6, FramesAssumption DEF Holds
  <2> HIDE DEF p
  <2>2. w \in Words(pages) /\ b \in Bits
    BY <2>1, WordOfPage
  <2>3. w \in Nat /\ p = WordBits * w + b
    BY <2>1, Division, WordAssumption
  <2> HIDE DEF w, b
  <2>4. w * WordBits + b < pages
    <3>1. w * WordBits = WordBits * w /\ b \in Int
      BY <2>2, <2>3, WordAssumption DEF Bits
    <3> QED
      BY <2>1, <2>3, <3>1
  <2>5. b \in map[w]
    BY <2>2, <2>4
  <2> QED
    BY <1>2, <2>5 DEF PageFree, p, w, b
<1> QED
  BY <1>5, <1>6

LEMMA ReportedFact ==
    ASSUME NEW nodes, Reported(nodes)
    PROVE  Bitmaps(nodes) /\ FreeFrames(nodes) = Managed(nodes)
<1>1. ASSUME NEW i \in DOMAIN nodes
      PROVE  IsNode(nodes[i]) /\ \A f \in Frames : Holds(nodes[i], f) => PageFree(nodes[i], f - nodes[i].base)
  <2> DEFINE base == nodes[i].base
             pages == nodes[i].pages
  <2>1. /\ base \in Nat /\ pages \in Nat /\ nodes[i] = NewNode(base, pages)
        /\ \A p \in 0 .. pages - 1 : base + p \in Frames
    BY DEF Reported
  <2> HIDE DEF base, pages
  <2> QED
    BY <2>1, NewNodeFact
<1>2. Bitmaps(nodes)
  BY <1>1 DEF Bitmaps, Reported
<1>3. FreeFrames(nodes) = Managed(nodes)
  BY <1>1 DEF FreeFrames, Managed
<1> QED
  BY <1>2, <1>3

Untouched(m, nodes) ==
    /\ IsMem(m) /\ m.nodes = nodes /\ m.lost = {}
    /\ \A v \in VPages : m.mapped[v] = None
    /\ \A a \in Areas : m.tables[a] = None

LEMMA NewMemFact ==
    ASSUME NEW nodes, Bitmaps(nodes)
    PROVE  Untouched(NewMem(nodes), nodes)
<1> DEFINE m == NewMem(nodes)
           p == [v \in VPages |-> None]
           t == [a \in Areas |-> None]
<1>1. m = [nodes |-> nodes, mapped |-> p, tables |-> t, lost |-> {}]
  BY DEF NewMem
<1> HIDE DEF m
<1>2. p \in [VPages -> Frames \cup {None}] /\ t \in [Areas -> Frames \cup {None}]
  OBVIOUS
<1>3. (\A v \in VPages : p[v] = None) /\ (\A a \in Areas : t[a] = None)
  OBVIOUS
<1> HIDE DEF p, t
<1>4. m.nodes = nodes /\ m.mapped = p /\ m.tables = t /\ m.lost = {}
  BY <1>1
<1>5. IsMem(m)
  BY <1>1, <1>2, <1>4 DEF IsMem
<1> QED
  BY <1>3, <1>4, <1>5 DEF Untouched, m

LEMMA NoNodes ==
    Bitmaps(<<>>) /\ Managed(<<>>) = {} /\ FreeFrames(<<>>) = {}
<1>1. DOMAIN <<>> = {} /\ DOMAIN <<>> = 1 .. 0
  OBVIOUS
<1> QED
  BY <1>1 DEF Bitmaps, Managed, FreeFrames, Disjoint

(* A memory without users, all callers idle.                               *)
LEMMA FreshOwned ==
    ASSUME NEW nodes, Bitmaps(nodes), FreeFrames(nodes) = Managed(nodes),
           NEW m, m = NewMem(nodes), NEW j, AreJobs(j), \A c \in Clients : j[c] = Idle,
           NEW own, own = [f \in Frames |-> IF f \in Managed(nodes) THEN "free" ELSE "reserved"]
    PROVE  Owned(own, m, {}, {}, j)
<1>1. /\ IsMem(m) /\ m.nodes = nodes /\ m.lost = {}
      /\ \A v \in VPages : m.mapped[v] = None
      /\ \A a \in Areas : m.tables[a] = None
  <2>1. Untouched(m, nodes)
    BY NewMemFact
  <2> QED
    BY <2>1 DEF Untouched
<1>2. \A c \in Clients : j[c].frame = None
  BY DEF Idle
<1>3. \A f \in Frames : f # None
  BY FramesAssumption
<1>4. Sound(m, {}, {}, j)
  BY <1>1, <1>2, ScratchInVPages DEF Sound, OneUser, MappedOnce, TablesOnce, Transient
<1>5. own \in [Frames -> Owners]
  BY DEF Owners
<1>6. ASSUME NEW f \in Frames
      PROVE  SevenOwners(own[f], f, m, {}, {}, j)
  BY <1>1, <1>2, <1>3, ScratchInVPages DEF SevenOwners
<1>7. Owning(own, m, {}, {}, j)
  BY <1>6 DEF Owning, SevenOwners
<1> QED
  BY <1>4, <1>5, <1>7 DEF Owned

-----------------------------------------------------------------------------
(* The inductive invariant: every frame has one owner, and SingleUser and  *)
(* ScratchTransient hold.                                                  *)

PageInv == scratch \in Nat /\ \E own : Owned(own, mem, held, pinned, job)

LEMMA InvImplies == PageInv => SingleUser /\ ScratchTransient
  BY DEF PageInv, Owned, Sound, OneUser, MappedOnce, TablesOnce, Transient,
         SingleUser, ScratchTransient

LEMMA InitOwned ==
    ASSUME StartsWith(<<>>)
    PROVE  Owned([f \in Frames |-> "reserved"], mem, held, pinned, job) /\ scratch \in Nat
<1> DEFINE own == [f \in Frames |-> IF f \in Managed(<<>>) THEN "free" ELSE "reserved"]
<1>1. own = [f \in Frames |-> "reserved"]
  BY NoNodes
<1>2. /\ mem = NewMem(<<>>) /\ held = {} /\ pinned = {} /\ scratch = 0
      /\ job = [c \in Clients |-> Idle]
  BY DEF StartsWith
<1>3. AreJobs(job) /\ \A c \in Clients : job[c] = Idle
  BY <1>2 DEF AreJobs, Jobs, Idle
<1> HIDE DEF own
<1>4. Owned(own, mem, {}, {}, job)
  BY <1>2, <1>3, NoNodes, FreshOwned DEF own
<1> QED
  BY <1>1, <1>2, <1>4

(* init opens the memory: every frame was reserved.                        *)
Opens(own, m, h, pi, j) ==
    /\ \A f \in Frames : own[f] = "reserved"
    /\ \E new \in [Frames -> {"free", "reserved"}] : Owned(new, m, h, pi, j)

LEMMA InitOpens ==
    ASSUME NEW own, Owned(own, mem, held, pinned, job), init
    PROVE  Opens(own, mem', held', pinned', job')
<1> DEFINE nodes == mem'.nodes
           new == [f \in Frames |-> IF f \in Managed(nodes) THEN "free" ELSE "reserved"]
<1>1. /\ mem = NewMem(<<>>) /\ Reported(nodes) /\ mem' = NewMem(nodes)
      /\ held' = held /\ pinned' = pinned /\ job' = job
  BY DEF init
<1>2. mem.nodes = <<>>
  <2>1. Untouched(mem, <<>>)
    BY <1>1, NoNodes, NewMemFact
  <2> QED
    BY <2>1 DEF Untouched
<1>3. \A f \in Frames : own[f] = "reserved"
  BY <1>2, NoNodes DEF Owned, Owning
<1>4. /\ held \subseteq Frames /\ pinned \subseteq Frames /\ AreJobs(job)
      /\ \A f \in Frames : f \notin held /\ f \notin pinned /\ \A c \in Clients : job[c].frame # f
  BY <1>3 DEF Owned, Owning, Sound
<1>5. held = {} /\ pinned = {}
  BY <1>4
<1>6. \A c \in Clients : job[c] = Idle
  BY <1>4, JobFacts
<1>7. Bitmaps(nodes) /\ FreeFrames(nodes) = Managed(nodes)
  BY <1>1, ReportedFact
<1>8. new \in [Frames -> {"free", "reserved"}]
  OBVIOUS
<1>9. new = [f \in Frames |-> IF f \in Managed(nodes) THEN "free" ELSE "reserved"]
  OBVIOUS
<1> HIDE DEF new, nodes
<1>10. Owned(new, mem', {}, {}, job)
  BY <1>1, <1>4, <1>6, <1>7, <1>9, FreshOwned
<1> QED
  BY <1>1, <1>3, <1>5, <1>8, <1>10 DEF Opens

LEMMA ScratchAddr ==
    ASSUME scratch \in Nat
    PROVE  get_scratch_addr \in ScratchPages
<1>1. scratch % ScratchSlots \in 0 .. ScratchSlots - 1
  BY ScratchAssumption
<1> QED
  BY <1>1, ScratchAssumption DEF get_scratch_addr, ScratchPages, Range

LEMMA NextKeeps ==
    ASSUME scratch \in Nat, NEW own, Owned(own, mem, held, pinned, job),
           PageNext(OrdinaryPages)
    PROVE  Keeps(own, mem', held', pinned', job') /\ scratch' \in Nat
<1>1. ASSUME NEW v \in OrdinaryPages, KallocPage(v)
      PROVE  Keeps(own, mem', held', pinned', job') /\ scratch' \in Nat
  <2>1. /\ mem' = kalloc_mapping(mem, v).mem
        /\ held' = held /\ pinned' = pinned /\ job' = job /\ scratch' = scratch
    BY <1>1 DEF KallocPage
  <2> QED
    BY <2>1, KallocKeeps
<1>2. ASSUME NEW v \in OrdinaryPages, KfreePage(v)
      PROVE  Keeps(own, mem', held', pinned', job') /\ scratch' \in Nat
  <2>1. /\ mem.mapped[v] # None /\ mem' = kfree_page(mem, v)
        /\ held' = held /\ pinned' = pinned /\ job' = job /\ scratch' = scratch
    BY <1>2 DEF KfreePage
  <2> QED
    BY <2>1, KfreeKeeps
<1>3. ASSUME NEW f \in Given, AllocRecursive(f)
      PROVE  Keeps(own, mem', held', pinned', job') /\ scratch' \in Nat
  <2> DEFINE n == Claim(mem.nodes, f)
             S == {f}
  <2>1. /\ alloc_at(mem.nodes, f) # None /\ mem' = [mem EXCEPT !.nodes = n]
        /\ pinned' = pinned \cup S /\ held' = held /\ job' = job /\ scratch' = scratch
    BY <1>3 DEF AllocRecursive
  <2>2. f \in FreeFrames(mem.nodes) /\ Bitmaps(mem.nodes)
    BY <2>1 DEF alloc_at, Owned, Sound, IsMem
  <2>3. f \in Managed(mem.nodes) /\ S \in SUBSET FreeFrames(mem.nodes)
    BY <2>2, FreeFact
  <2>4. Bitmaps(n) /\ Managed(n) = Managed(mem.nodes) /\ FreeFrames(n) = FreeFrames(mem.nodes) \ S
    BY <2>2, <2>3, ClaimFact
  <2>5. NewNodes(mem, n, mem')
    BY <2>1 DEF NewNodes
  <2> HIDE DEF n, S
  <2>6. Keeps(own, mem', held, pinned \cup S, job)
    BY <2>3, <2>4, <2>5, PinKeeps
  <2> QED
    BY <2>1, <2>6
<1>4. ASSUME NEW f \in Given, AllocHuge(f)
      PROVE  Keeps(own, mem', held', pinned', job') /\ scratch' \in Nat
  <2> DEFINE n == ClaimHuge(mem.nodes, f)
             S == HugeFrames(f)
  <2>1. /\ huge_fits(mem.nodes, f) /\ mem' = [mem EXCEPT !.nodes = n]
        /\ pinned' = pinned \cup S /\ held' = held /\ job' = job /\ scratch' = scratch
    BY <1>4 DEF AllocHuge
  <2>2. Bitmaps(mem.nodes)
    BY DEF Owned, Sound, IsMem
  <2>3. /\ S \in SUBSET FreeFrames(mem.nodes)
        /\ Bitmaps(n) /\ Managed(n) = Managed(mem.nodes) /\ FreeFrames(n) = FreeFrames(mem.nodes) \ S
    BY <2>1, <2>2, HugeFact
  <2>4. NewNodes(mem, n, mem')
    BY <2>1 DEF NewNodes
  <2> HIDE DEF n, S
  <2>5. Keeps(own, mem', held, pinned \cup S, job)
    BY <2>3, <2>4, PinKeeps
  <2> QED
    BY <2>1, <2>5
<1>5. ASSUME NEW f \in held, FreePhysPage(f)
      PROVE  Keeps(own, mem', held', pinned', job') /\ scratch' \in Nat
  <2> DEFINE n == dealloc(mem.nodes, f)
  <2>1. /\ mem' = [mem EXCEPT !.nodes = n]
        /\ held' = held \ {f} /\ pinned' = pinned /\ job' = job /\ scratch' = scratch
    BY <1>5 DEF FreePhysPage
  <2>2. NewNodes(mem, n, mem') /\ n = dealloc(mem.nodes, f)
    BY <2>1 DEF NewNodes
  <2> HIDE DEF n
  <2>3. Keeps(own, mem', held \ {f}, pinned, job)
    BY <2>2, FreePhysKeeps
  <2> QED
    BY <2>1, <2>3
<1>6. ASSUME NEW c \in Clients, AllocTableBegin(c)
      PROVE  Keeps(own, mem', held', pinned', job') /\ scratch' \in Nat
  <2> DEFINE v == get_scratch_addr
             r == kalloc_page(mem, v)
  <2>1. /\ job[c] = Idle /\ mem' = r.mem /\ scratch' = scratch + 1
        /\ job' = IF r.frame = None THEN job
                  ELSE [job EXCEPT ![c] = [page |-> v, frame |-> r.frame]]
        /\ held' = held /\ pinned' = pinned
    BY <1>6 DEF AllocTableBegin
  <2>2. v \in ScratchPages
    BY ScratchAddr
  <2>3. r = kalloc_page(mem, v)
    OBVIOUS
  <2> HIDE DEF v, r
  <2>4. Keeps(own, r.mem, held, pinned, job')
    BY <2>1, <2>2, <2>3, TableBeginKeeps
  <2> QED
    BY <2>1, <2>4
<1>7. ASSUME NEW c \in Clients, AllocTableEnd(c)
      PROVE  Keeps(own, mem', held', pinned', job') /\ scratch' \in Nat
  <2>1. /\ job[c] # Idle /\ mem' = kleak_page(mem, job[c].page)
        /\ held' = held \cup {job[c].frame} /\ job' = [job EXCEPT ![c] = Idle]
        /\ pinned' = pinned /\ scratch' = scratch
    BY <1>7 DEF AllocTableEnd
  <2>2. Keeps(own, mem', held', pinned, job')
    BY <2>1, TableEndKeeps
  <2> QED
    BY <2>1, <2>2
<1> QED
  BY <1>1, <1>2, <1>3, <1>4, <1>5, <1>6, <1>7 DEF PageNext

(* Every step of the allocator, or none.                                   *)
LEMMA StepKeeps ==
    ASSUME scratch \in Nat, NEW own, Owned(own, mem, held, pinned, job),
           [init \/ PageNext(OrdinaryPages)]_vars
    PROVE  /\ scratch' \in Nat
           /\ \/ Keeps(own, mem', held', pinned', job')
              \/ Opens(own, mem', held', pinned', job')
<1>1. CASE init
  <2>1. scratch' = scratch
    BY <1>1 DEF init
  <2> QED
    BY <1>1, <2>1, InitOpens
<1>2. CASE PageNext(OrdinaryPages)
  BY <1>2, NextKeeps
<1>3. CASE UNCHANGED vars
  <2>1. /\ mem' = mem /\ held' = held /\ pinned' = pinned /\ job' = job /\ scratch' = scratch
    BY <1>3 DEF vars
  <2>2. Moves(own, own)
    BY DEF Owned, Moves, Life!Move, Life!Owners, Owners
  <2> QED
    BY <2>1, <2>2 DEF Owned, Keeps, MovesTo
<1> QED
  BY <1>1, <1>2, <1>3

LEMMA Inductive == PageInv /\ [init \/ PageNext(OrdinaryPages)]_vars => PageInv'
<1> SUFFICES ASSUME PageInv, [init \/ PageNext(OrdinaryPages)]_vars PROVE PageInv'
  OBVIOUS
<1>1. PICK own : Owned(own, mem, held, pinned, job)
  BY DEF PageInv
<1>2. /\ scratch' \in Nat
      /\ \/ Keeps(own, mem', held', pinned', job')
         \/ Opens(own, mem', held', pinned', job')
  BY <1>1, StepKeeps DEF PageInv
<1>3. \E new : Owned(new, mem', held', pinned', job')
  BY <1>2 DEF Keeps, MovesTo, Opens, Owned
<1> QED
  BY <1>2, <1>3 DEF PageInv

LEMMA Invariant == PageSpec => []PageInv
<1>1. StartsWith(<<>>) => PageInv
  BY InitOwned DEF PageInv
<1> QED
  BY <1>1, Inductive, PTL DEF PageSpec

(* Two users never share a frame, whatever memory is reported, however     *)
(* large the ring of scratch pages and however many callers there are.     *)
THEOREM UsersApart == PageSpec => []SingleUser
  BY Invariant, InvImplies, PTL

(* A scratch page never maps a frame whose caller has finished.            *)
THEOREM ScratchUnmapped == PageSpec => []ScratchTransient
  BY Invariant, InvImplies, PTL

-----------------------------------------------------------------------------
(* The owner that PageAllocator's mapping gives a frame is the one of the  *)
(* invariant.                                                              *)

LEMMA OneElement ==
    ASSUME NEW o, NEW S, S = {o}
    PROVE  (IF \E x \in S : S = {x} THEN CHOOSE x \in S : TRUE ELSE "conflict") = o
  OBVIOUS

LEMMA OwnerFact ==
    ASSUME NEW own, Owned(own, mem, held, pinned, job)
    PROVE  [f \in Frames |-> Owner(f)] = own
<1>1. ASSUME NEW f \in Frames
      PROVE  Owner(f) = own[f]
  <2> DEFINE S == {o \in {"free", "mapped", "table", "held", "pinned", "lost", "reserved"} :
                      OwnedAs(f, o)}
  <2>1. own[f] \in {"free", "mapped", "table", "held", "pinned", "lost", "reserved"}
    BY DEF Owned, Owners
  <2>2. SevenOwners(own[f], f, mem, held, pinned, job)
    BY DEF Owned, Owning, SevenOwners
  <2>3. \A o \in {"free", "mapped", "table", "held", "pinned", "lost", "reserved"} :
          OwnedAs(f, o) <=> o = own[f]
    BY <2>1, <2>2 DEF OwnedAs, SevenOwners
  <2>4. S = {own[f]}
    BY <2>1, <2>3
  <2> HIDE DEF S
  <2>5. (IF \E x \in S : S = {x} THEN CHOOSE x \in S : TRUE ELSE "conflict") = own[f]
    BY <2>4, OneElement
  <2> QED
    BY <2>5 DEF Owner, S
<1> QED
  BY <1>1 DEF Owned

LEMMA OwnerFactNext ==
    ASSUME NEW own, Owned(own, mem', held', pinned', job')
    PROVE  [f \in Frames |-> Owner(f)]' = own
<1>1. ASSUME NEW f \in Frames
      PROVE  Owner(f)' = own[f]
  <2> DEFINE S == {o \in {"free", "mapped", "table", "held", "pinned", "lost", "reserved"} :
                      OwnedAs(f, o)'}
  <2>1. own[f] \in {"free", "mapped", "table", "held", "pinned", "lost", "reserved"}
    BY DEF Owned, Owners
  <2>2. SevenOwners(own[f], f, mem', held', pinned', job')
    BY DEF Owned, Owning, SevenOwners
  <2>3. \A o \in {"free", "mapped", "table", "held", "pinned", "lost", "reserved"} :
          OwnedAs(f, o)' <=> o = own[f]
    BY <2>1, <2>2 DEF OwnedAs, SevenOwners, FreeFrames, Managed
  <2>4. S = {own[f]}
    BY <2>1, <2>3
  <2> HIDE DEF S
  <2>5. (IF \E x \in S : S = {x} THEN CHOOSE x \in S : TRUE ELSE "conflict") = own[f]
    BY <2>4, OneElement
  <2> QED
    BY <2>5 DEF Owner, S
<1> QED
  BY <1>1 DEF Owned

(* The allocator implements FrameLife: every frame has one owner, and it   *)
(* changes hands only along FrameLife's edges.                             *)
THEOREM ImplementsLife == PageSpec => OneOwner
<1> DEFINE owner == [f \in Frames |-> Owner(f)]
<1>1. StartsWith(<<>>) => Life!Init
  BY InitOwned, OwnerFact DEF Life!Init
<1>2. PageInv /\ [init \/ PageNext(OrdinaryPages)]_vars => [Life!Next]_owner
  <2> SUFFICES ASSUME PageInv, [init \/ PageNext(OrdinaryPages)]_vars
               PROVE  Life!Next
    OBVIOUS
  <2>1. PICK own : Owned(own, mem, held, pinned, job)
    BY DEF PageInv
  <2>2. owner = own
    BY <2>1, OwnerFact
  <2>3. CASE Keeps(own, mem', held', pinned', job')
    <3>1. PICK new \in [Frames -> Owners] : Owned(new, mem', held', pinned', job') /\ Moves(own, new)
      BY <2>3 DEF Keeps, MovesTo, Owned
    <3>2. owner' = new
      BY <3>1, OwnerFactNext
    <3>3. new \in [Frames -> Life!Owners] /\ \A f \in Frames : Life!Move(own[f], new[f])
      BY <3>1 DEF Owners, Life!Owners, Moves
    <3> HIDE DEF owner
    <3>4. \E x \in {owner'}, y \in {owner} :
             x \in [Frames -> Life!Owners] /\ \A f \in Frames : Life!Move(y[f], x[f])
      BY <2>2, <3>2, <3>3
    <3> QED
      BY <3>4 DEF Life!Next, Life!Trade, owner
  <2>4. CASE Opens(own, mem', held', pinned', job')
    <3>1. PICK new \in [Frames -> {"free", "reserved"}] : Owned(new, mem', held', pinned', job')
      BY <2>4 DEF Opens
    <3>2. owner' = new
      BY <3>1, OwnerFactNext
    <3>3. \A f \in Frames : owner[f] = "reserved"
      BY <2>2, <2>4 DEF Opens
    <3> HIDE DEF owner
    <3>4. owner' \in [Frames -> {"free", "reserved"}]
      BY <3>1, <3>2
    <3> QED
      BY <3>3, <3>4 DEF Life!Next, Life!Open, owner
  <2> QED
    BY <2>1, <2>3, <2>4, StepKeeps DEF PageInv
<1> QED
  BY <1>1, <1>2, Invariant, PTL DEF PageSpec, OneOwner, Life!Spec
=============================================================================
