--------------------------- MODULE BitmapProofs ---------------------------
(***************************************************************************)
(* What the operations on the page allocator's bitmaps do to the sets of   *)
(* free and of managed frames, for any memory and any width of a word.     *)
(***************************************************************************)
EXTENDS PageAllocator, WellFoundedInduction, NaturalsInduction, TLAPS

-----------------------------------------------------------------------------
(* Numbers.                                                                *)

LEMMA Division ==
    ASSUME NEW w \in Nat \ {0}, NEW p \in Nat
    PROVE  /\ p \div w \in Nat /\ p % w \in 0 .. w - 1
           /\ p = w * (p \div w) + (p % w)
<1>1. p \div w \in Int /\ p % w \in 0 .. w - 1 /\ p = w * (p \div w) + (p % w)
  OBVIOUS
<1>2. p \div w < 0 => w * (p \div w) <= -w
  BY <1>1
<1> QED
  BY <1>1, <1>2

LEMMA Multiples ==
    ASSUME NEW w \in Nat \ {0}, NEW d \in Int, NEW e \in Int, d < e
    PROVE  w * d + w <= w * e /\ w * d \in Int /\ w * e \in Int
  OBVIOUS

LEMMA LeastExists ==
    ASSUME NEW S, S \subseteq Nat, S # {}
    PROVE  MinOf(S) \in S /\ \A y \in S : MinOf(S) <= y
<1>1. \A x, y \in Nat : x < y => <<x, y>> \in OpToRel(<, Nat)
  BY DEF OpToRel
<1>2. \E x \in S : \A y \in S : ~(<<y, x>> \in OpToRel(<, Nat))
  BY NatLessThanWellFounded, WFMin
<1>3. \E R : /\ \A x, y \in Nat : x < y => <<x, y>> \in R
             /\ \E x \in S : \A y \in S : ~(<<y, x>> \in R)
  BY <1>1, <1>2, Zenon
<1>4. PICK R : /\ \A x, y \in Nat : x < y => <<x, y>> \in R
               /\ \E x \in S : \A y \in S : ~(<<y, x>> \in R)
  BY <1>3
<1>5. PICK x \in S : \A y \in S : ~(<<y, x>> \in R)
  BY <1>4
<1>6. \A y \in S : x <= y
  <2> TAKE y \in S
  <2>1. x \in Nat /\ y \in Nat
    OBVIOUS
  <2>2. ~(y < x)
    BY <1>4, <1>5, <2>1
  <2> QED
    BY <2>1, <2>2
<1> QED
  BY <1>6 DEF MinOf

LEMMA GreatestExists ==
    ASSUME NEW n \in Nat, NEW S, S \subseteq 1 .. n, S # {}
    PROVE  MaxOf(S) \in S
<1> DEFINE T == {n - x : x \in S}
<1>1. \A x \in S : x \in 1 .. n /\ n - x \in Nat
  OBVIOUS
<1>2. T \subseteq Nat /\ T # {}
  BY <1>1
<1>3. MinOf(T) \in T /\ \A y \in T : MinOf(T) <= y
  BY <1>2, LeastExists
<1>4. PICK x \in S : MinOf(T) = n - x
  BY <1>3
<1>5. \A y \in S : y <= x
  <2> TAKE y \in S
  <2>1. n - x <= n - y
    BY <1>3, <1>4
  <2> QED
    BY <1>1, <2>1
<1> QED
  BY <1>5 DEF MaxOf

-----------------------------------------------------------------------------
(* Bitmaps: disjoint nodes whose pages are frames, whose words are sets of *)
(* bits, and in which no bit beyond the last page is set.                  *)

IsNode(n) ==
    /\ n = [base |-> n.base, pages |-> n.pages, map |-> n.map]
    /\ n.base \in Nat /\ n.pages \in Nat
    /\ n.map \in [Words(n.pages) -> SUBSET Bits]
    /\ \A w \in Words(n.pages) : \A b \in n.map[w] : WordBits * w + b < n.pages
    /\ \A p \in 0 .. n.pages - 1 : n.base + p \in Frames

Bitmaps(nodes) ==
    /\ \E k \in Nat : DOMAIN nodes = 1 .. k
    /\ \A i \in DOMAIN nodes : IsNode(nodes[i])
    /\ Disjoint(nodes)

(* The bit of a page lies in one of the node's words.                      *)
LEMMA WordOfPage ==
    ASSUME NEW pages \in Nat, NEW p \in 0 .. pages - 1
    PROVE  p \div WordBits \in Words(pages) /\ p % WordBits \in Bits
<1> DEFINE d == p \div WordBits
           q == pages + WordBits - 1
           e == q \div WordBits
<1>1. /\ p \in Nat /\ q \in Nat /\ WordBits \in Nat \ {0} /\ p <= pages - 1
  BY WordAssumption
<1>2. d \in Nat /\ p % WordBits \in 0 .. WordBits - 1 /\ p = WordBits * d + (p % WordBits)
  BY <1>1, Division
<1>3. e \in Nat /\ q % WordBits \in 0 .. WordBits - 1 /\ q = WordBits * e + (q % WordBits)
  BY <1>1, Division
<1>4. d < e
  <2> SUFFICES ASSUME e <= d PROVE FALSE
    BY <1>2, <1>3
  <2>1. WordBits * e <= WordBits * d
    <3>1. CASE e = d
      BY <1>2, <1>3, <3>1, <1>1
    <3>2. CASE e < d
      BY <1>1, <1>2, <1>3, <3>2, Multiples
    <3> QED
      BY <1>2, <1>3, <3>1, <3>2
  <2> HIDE DEF d, e
  <2>2. WordBits * e \in Int /\ WordBits * d \in Int
    BY <1>1, <1>2, <1>3
  <2> QED
    BY <1>1, <1>2, <1>3, <2>1, <2>2
<1>5. d \in 0 .. e - 1
  BY <1>2, <1>3, <1>4
<1> QED
  BY <1>2, <1>5 DEF Words, WordCount, Bits

(* Two pages with one word and one bit are one page.                       *)
LEMMA PageOfBit ==
    ASSUME NEW p \in Nat, NEW q \in Nat,
           p \div WordBits = q \div WordBits, p % WordBits = q % WordBits
    PROVE  p = q
<1>1. /\ p = WordBits * (p \div WordBits) + (p % WordBits)
      /\ q = WordBits * (q \div WordBits) + (q % WordBits)
  BY Division, WordAssumption
<1> QED
  BY <1>1

(* The node of a managed frame is the only one that holds it.              *)
LEMMA HomeFact ==
    ASSUME NEW nodes, Bitmaps(nodes), NEW f \in Managed(nodes)
    PROVE  /\ f \in Frames /\ f \in Nat
           /\ NodeOf(nodes, f) \in DOMAIN nodes
           /\ Holds(nodes[NodeOf(nodes, f)], f)
           /\ IsNode(nodes[NodeOf(nodes, f)])
           /\ \A j \in DOMAIN nodes : Holds(nodes[j], f) => j = NodeOf(nodes, f)
           /\ Offset(nodes, f) \in 0 .. nodes[NodeOf(nodes, f)].pages - 1
           /\ Offset(nodes, f) \in Nat
           /\ f = nodes[NodeOf(nodes, f)].base + Offset(nodes, f)
<1>1. f \in Frames /\ f \in Nat
  BY FramesAssumption DEF Managed
<1>2. PICK i \in DOMAIN nodes : Holds(nodes[i], f)
  BY DEF Managed
<1>3. \A j \in DOMAIN nodes : Holds(nodes[j], f) => j = i
  BY <1>1, <1>2 DEF Bitmaps, Disjoint
<1>4. i \in Nat
  BY DEF Bitmaps
<1>5. {j \in DOMAIN nodes : Holds(nodes[j], f)} = {i}
  BY <1>2, <1>3
<1>6. MaxOf({i}) = i
  BY <1>4 DEF MaxOf
<1>7. NodeOf(nodes, f) = i
  BY <1>5, <1>6 DEF NodeOf
<1>8. IsNode(nodes[i])
  BY DEF Bitmaps
<1>9. /\ f - nodes[i].base \in 0 .. nodes[i].pages - 1 /\ f - nodes[i].base \in Nat
      /\ f = nodes[i].base + (f - nodes[i].base)
  BY <1>1, <1>2, <1>8 DEF Holds, IsNode
<1> QED
  BY <1>1, <1>2, <1>3, <1>7, <1>8, <1>9 DEF Offset

(* Whether a managed frame is free is one bit of its node.                 *)
LEMMA FreeFact ==
    ASSUME NEW nodes, Bitmaps(nodes)
    PROVE  /\ FreeFrames(nodes) \subseteq Managed(nodes)
           /\ Managed(nodes) \subseteq Frames
           /\ \A f \in Managed(nodes) :
                f \in FreeFrames(nodes) <=> PageFree(nodes[NodeOf(nodes, f)], Offset(nodes, f))
<1>1. FreeFrames(nodes) \subseteq Managed(nodes) /\ Managed(nodes) \subseteq Frames
  BY DEF FreeFrames, Managed
<1>2. ASSUME NEW f \in Managed(nodes)
      PROVE  f \in FreeFrames(nodes) <=> PageFree(nodes[NodeOf(nodes, f)], Offset(nodes, f))
  BY HomeFact DEF FreeFrames, Offset
<1> QED
  BY <1>1, <1>2

(* Writing one word of the bitmaps changes the frames of that word only.   *)
SameWord(nodes, f, g) ==
    /\ g \in Managed(nodes)
    /\ NodeOf(nodes, g) = NodeOf(nodes, f)
    /\ Offset(nodes, g) \div WordBits = Offset(nodes, f) \div WordBits

LEMMA WordWritten ==
    ASSUME NEW nodes, Bitmaps(nodes), NEW f \in Managed(nodes), NEW word \in SUBSET Bits,
           \A b \in word :
               WordBits * (Offset(nodes, f) \div WordBits) + b < nodes[NodeOf(nodes, f)].pages,
           NEW after, after = WithWord(nodes, f, word)
    PROVE  /\ Bitmaps(after)
           /\ Managed(after) = Managed(nodes)
           /\ \A g \in Managed(nodes) :
                g \in FreeFrames(after) <=>
                    IF SameWord(nodes, f, g) THEN BitOf(nodes, g) \in word
                    ELSE g \in FreeFrames(nodes)
<1> DEFINE i == NodeOf(nodes, f)
           n == nodes[i]
           d == Offset(nodes, f) \div WordBits
           new == [n EXCEPT !.map[d] = word]
<1>1. /\ i \in DOMAIN nodes /\ IsNode(n) /\ Offset(nodes, f) \in 0 .. n.pages - 1
      /\ Offset(nodes, f) \in Nat
  BY HomeFact
<1>2. d \in Words(n.pages)
  BY <1>1, WordOfPage DEF IsNode
<1>3. after = [nodes EXCEPT ![i] = new]
  BY DEF WithWord
<1>4. new = [base |-> n.base, pages |-> n.pages, map |-> [n.map EXCEPT ![d] = word]]
  BY <1>1 DEF IsNode
<1>5. /\ new.base = n.base /\ new.pages = n.pages
      /\ new.map = [n.map EXCEPT ![d] = word]
      /\ new = [base |-> new.base, pages |-> new.pages, map |-> new.map]
  BY <1>4
<1> HIDE DEF new
<1>6. IsNode(new)
  <2>1. new.map \in [Words(n.pages) -> SUBSET Bits]
    BY <1>1, <1>2, <1>5 DEF IsNode
  <2>2. ASSUME NEW w \in Words(n.pages), NEW b \in new.map[w]
        PROVE  WordBits * w + b < n.pages
    <3>1. CASE w = d
      <4>1. new.map[w] = word
        BY <1>1, <1>2, <1>5, <3>1 DEF IsNode
      <4> QED
        BY <2>2, <3>1, <4>1
    <3>2. CASE w # d
      <4>1. new.map[w] = n.map[w]
        BY <1>1, <1>2, <1>5, <3>2 DEF IsNode
      <4> QED
        BY <1>1, <2>2, <4>1 DEF IsNode
    <3> QED
      BY <3>1, <3>2
  <2> QED
    BY <1>1, <1>5, <2>1, <2>2 DEF IsNode
<1>7. /\ DOMAIN after = DOMAIN nodes /\ after[i] = new
      /\ \A j \in DOMAIN nodes : j # i => after[j] = nodes[j]
  BY <1>1, <1>3
<1>8. \A j \in DOMAIN nodes : \A g \in Frames : Holds(after[j], g) <=> Holds(nodes[j], g)
  BY <1>5, <1>7 DEF Holds
<1>9. Managed(after) = Managed(nodes)
  BY <1>7, <1>8 DEF Managed
<1>10. Bitmaps(after)
  <2>1. Disjoint(after)
    BY <1>7, <1>8 DEF Bitmaps, Disjoint
  <2>2. \A j \in DOMAIN after : IsNode(after[j])
    BY <1>6, <1>7 DEF Bitmaps
  <2> QED
    BY <1>7, <2>1, <2>2 DEF Bitmaps
<1>11. ASSUME NEW g \in Managed(nodes)
       PROVE  g \in FreeFrames(after) <=>
                  IF SameWord(nodes, f, g) THEN BitOf(nodes, g) \in word
                  ELSE g \in FreeFrames(nodes)
  <2> DEFINE j == NodeOf(nodes, g)
             p == Offset(nodes, g)
  <2>1. /\ j \in DOMAIN nodes /\ Holds(nodes[j], g) /\ g \in Frames /\ IsNode(nodes[j])
        /\ p \in 0 .. nodes[j].pages - 1
    BY HomeFact
  <2>2. NodeOf(after, g) = j
    <3>1. Holds(after[j], g)
      BY <1>8, <2>1
    <3> QED
      BY <1>7, <1>9, <1>10, <2>1, <3>1, HomeFact
  <2>3. after[j].base = nodes[j].base
    BY <1>5, <1>7, <2>1
  <2>4. Offset(after, g) = p
    BY <2>2, <2>3 DEF Offset
  <2>5. g \in FreeFrames(after) <=> PageFree(after[j], p)
    BY <1>9, <1>10, <2>2, <2>4, FreeFact
  <2>6. g \in FreeFrames(nodes) <=> PageFree(nodes[j], p)
    BY FreeFact
  <2>7. p \div WordBits \in Words(nodes[j].pages)
    BY <2>1, WordOfPage DEF IsNode
  <2> HIDE DEF p, j, d
  <2>8. CASE j # i
    <3>1. ~SameWord(nodes, f, g)
      BY <2>8 DEF SameWord, i, j
    <3> QED
      BY <1>7, <2>1, <2>5, <2>6, <2>8, <3>1
  <2>9. CASE j = i /\ p \div WordBits # d
    <3>1. ~SameWord(nodes, f, g)
      BY <2>9 DEF SameWord, p, d
    <3>2. after[j].map[p \div WordBits] = nodes[j].map[p \div WordBits]
      BY <1>2, <1>5, <1>7, <2>1, <2>7, <2>9 DEF IsNode
    <3>3. PageFree(after[j], p) <=> PageFree(nodes[j], p)
      BY <3>2 DEF PageFree
    <3> QED
      BY <2>5, <2>6, <3>1, <3>3
  <2>10. CASE j = i /\ p \div WordBits = d
    <3>1. SameWord(nodes, f, g)
      BY <2>10 DEF SameWord, i, j, p, d
    <3>2. after[j].map[p \div WordBits] = word
      BY <1>2, <1>5, <1>7, <2>1, <2>7, <2>10 DEF IsNode
    <3>3. PageFree(after[j], p) <=> p % WordBits \in word
      BY <3>2 DEF PageFree
    <3> QED
      BY <2>5, <3>1, <3>3 DEF BitOf, p
  <2> QED
    BY <2>8, <2>9, <2>10
<1> QED
  BY <1>9, <1>10, <1>11

(* What writing a word leaves, put for the sets.                           *)
LEMMA WordBitsBelow ==
    ASSUME NEW nodes, Bitmaps(nodes), NEW f \in Managed(nodes)
    PROVE  /\ WordAt(nodes, f) \in SUBSET Bits /\ BitOf(nodes, f) \in Bits
           /\ \A b \in WordAt(nodes, f) \cup {BitOf(nodes, f)} :
               WordBits * (Offset(nodes, f) \div WordBits) + b < nodes[NodeOf(nodes, f)].pages
<1> DEFINE i == NodeOf(nodes, f)
           p == Offset(nodes, f)
<1>1. IsNode(nodes[i]) /\ p \in 0 .. nodes[i].pages - 1 /\ p \in Nat
  BY HomeFact
<1>2. p \div WordBits \in Words(nodes[i].pages) /\ p % WordBits \in Bits
  BY <1>1, WordOfPage DEF IsNode
<1>3. p = WordBits * (p \div WordBits) + (p % WordBits)
  BY <1>1, Division, WordAssumption
<1>4. WordBits * (p \div WordBits) + (p % WordBits) < nodes[i].pages
  BY <1>1, <1>3 DEF IsNode
<1> QED
  BY <1>1, <1>2, <1>4 DEF IsNode, WordAt, BitOf

LEMMA BitsDiffer ==
    ASSUME NEW nodes, Bitmaps(nodes), NEW f \in Managed(nodes), NEW g,
           SameWord(nodes, f, g), BitOf(nodes, g) = BitOf(nodes, f)
    PROVE  g = f
<1>1. /\ Offset(nodes, f) \in Nat /\ f = nodes[NodeOf(nodes, f)].base + Offset(nodes, f)
  BY HomeFact
<1>2. /\ Offset(nodes, g) \in Nat /\ g = nodes[NodeOf(nodes, g)].base + Offset(nodes, g)
  BY HomeFact DEF SameWord
<1>3. Offset(nodes, f) = Offset(nodes, g)
  BY <1>1, <1>2, PageOfBit DEF SameWord, BitOf
<1> QED
  BY <1>1, <1>2, <1>3 DEF SameWord

LEMMA SameWordBits ==
    ASSUME NEW nodes, Bitmaps(nodes), NEW f \in Managed(nodes), NEW g, SameWord(nodes, f, g)
    PROVE  g \in FreeFrames(nodes) <=> BitOf(nodes, g) \in WordAt(nodes, f)
  BY FreeFact DEF SameWord, PageFree, BitOf, WordAt

(* Claim takes one frame, Release gives one back.                          *)
LEMMA ClaimFact ==
    ASSUME NEW nodes, Bitmaps(nodes), NEW f \in Managed(nodes)
    PROVE  /\ Bitmaps(Claim(nodes, f)) /\ Managed(Claim(nodes, f)) = Managed(nodes)
           /\ FreeFrames(Claim(nodes, f)) = FreeFrames(nodes) \ {f}
<1> DEFINE word == WordAt(nodes, f) \ {BitOf(nodes, f)}
           after == Claim(nodes, f)
<1>1. /\ word \in SUBSET Bits
      /\ \A b \in word :
           WordBits * (Offset(nodes, f) \div WordBits) + b < nodes[NodeOf(nodes, f)].pages
  BY WordBitsBelow
<1>2. after = WithWord(nodes, f, word)
  BY DEF Claim
<1> HIDE DEF after, word
<1>3. /\ Bitmaps(after) /\ Managed(after) = Managed(nodes)
      /\ \A g \in Managed(nodes) :
            g \in FreeFrames(after) <=>
                IF SameWord(nodes, f, g) THEN BitOf(nodes, g) \in word
                ELSE g \in FreeFrames(nodes)
  BY <1>1, <1>2, WordWritten
<1>4. FreeFrames(after) \subseteq Managed(nodes) /\ FreeFrames(nodes) \subseteq Managed(nodes)
  BY <1>3, FreeFact
<1>5. ASSUME NEW g \in Managed(nodes)
      PROVE  g \in FreeFrames(after) <=> g \in FreeFrames(nodes) \ {f}
  <2>1. CASE SameWord(nodes, f, g)
    BY <1>3, <2>1, BitsDiffer, SameWordBits DEF word
  <2>2. CASE ~SameWord(nodes, f, g)
    BY <1>3, <2>2 DEF SameWord
  <2> QED
    BY <2>1, <2>2
<1>6. FreeFrames(after) = FreeFrames(nodes) \ {f}
  BY <1>4, <1>5
<1> QED
  BY <1>3, <1>6 DEF after

LEMMA DeallocFact ==
    ASSUME NEW nodes, Bitmaps(nodes), NEW f \in Managed(nodes)
    PROVE  /\ Bitmaps(dealloc(nodes, f)) /\ Managed(dealloc(nodes, f)) = Managed(nodes)
           /\ FreeFrames(dealloc(nodes, f)) = FreeFrames(nodes) \cup {f}
<1> DEFINE word == WordAt(nodes, f) \cup {BitOf(nodes, f)}
           after == dealloc(nodes, f)
<1>1. /\ word \in SUBSET Bits
      /\ \A b \in word :
           WordBits * (Offset(nodes, f) \div WordBits) + b < nodes[NodeOf(nodes, f)].pages
  BY WordBitsBelow
<1>2. after = WithWord(nodes, f, word)
  BY DEF dealloc, Release
<1> HIDE DEF after, word
<1>3. /\ Bitmaps(after) /\ Managed(after) = Managed(nodes)
      /\ \A g \in Managed(nodes) :
            g \in FreeFrames(after) <=>
                IF SameWord(nodes, f, g) THEN BitOf(nodes, g) \in word
                ELSE g \in FreeFrames(nodes)
  BY <1>1, <1>2, WordWritten
<1>4. FreeFrames(after) \subseteq Managed(nodes) /\ FreeFrames(nodes) \subseteq Managed(nodes)
  BY <1>3, FreeFact
<1>5. ASSUME NEW g \in Managed(nodes)
      PROVE  g \in FreeFrames(after) <=> g \in FreeFrames(nodes) \cup {f}
  <2>1. CASE SameWord(nodes, f, g)
    BY <1>3, <2>1, BitsDiffer, SameWordBits DEF word
  <2>2. CASE ~SameWord(nodes, f, g)
    BY <1>3, <2>2 DEF SameWord
  <2> QED
    BY <2>1, <2>2
<1>6. FreeFrames(after) = FreeFrames(nodes) \cup {f}
  BY <1>4, <1>5
<1> QED
  BY <1>3, <1>6 DEF after

(* The search returns a free frame, or None.                               *)
LEMMA AllocAnyFact ==
    ASSUME NEW nodes, Bitmaps(nodes), alloc_any(nodes) # None
    PROVE  alloc_any(nodes) \in FreeFrames(nodes)
<1> DEFINE open == {i \in DOMAIN nodes : FreePages(nodes[i]) # {}}
           m == MaxOf(open)
           p == MinOf(FreePages(nodes[m]))
<1>1. open # {} /\ alloc_any(nodes) = nodes[m].base + p
  BY DEF alloc_any
<1>2. PICK k \in Nat : DOMAIN nodes = 1 .. k
  BY DEF Bitmaps
<1>3. m \in open
  <2>1. open \subseteq 1 .. k
    BY <1>2
  <2> HIDE DEF open
  <2> QED
    BY <1>1, <2>1, GreatestExists
<1>4. m \in DOMAIN nodes /\ FreePages(nodes[m]) # {} /\ IsNode(nodes[m])
  BY <1>3 DEF Bitmaps
<1> HIDE DEF m
<1>5. FreePages(nodes[m]) \subseteq Nat
  BY <1>4 DEF FreePages, IsNode
<1>6. p \in FreePages(nodes[m])
  BY <1>4, <1>5, LeastExists
<1> HIDE DEF p
<1>7. p \in 0 .. nodes[m].pages - 1 /\ PageFree(nodes[m], p) /\ nodes[m].base \in Nat
      /\ nodes[m].pages \in Nat /\ nodes[m].base + p \in Frames
  BY <1>4, <1>6 DEF FreePages, IsNode
<1> DEFINE f == nodes[m].base + p
<1>8. Holds(nodes[m], f) /\ f - nodes[m].base = p
  BY <1>7 DEF Holds
<1> QED
  BY <1>1, <1>4, <1>7, <1>8 DEF FreeFrames

(* A 2 MiB page: its frames are free if its words are full.                *)
LEMMA HugeArithmetic ==
    ASSUME NEW w \in Nat \ {0}, NEW h \in Nat \ {0}, NEW s, s = h * w,
           NEW p \in Nat, p % s = 0, NEW x \in Nat
    PROVE  /\ x \in p .. p + s - 1 <=> x \div w \in p \div w .. p \div w + h - 1
           /\ (x \div w) * w \in p .. p + s - 1 <=> x \div w \in p \div w .. p \div w + h - 1
<1> DEFINE d == p \div w
           e == x \div w
           q == p \div s
<1>1. s \in Nat \ {0}
  OBVIOUS
<1>2. q \in Nat /\ p = s * q
  <2>1. q \in Nat /\ p = s * q + (p % s)
    BY <1>1, Division
  <2> HIDE DEF q
  <2>2. s * q \in Int
    BY <1>1, <2>1
  <2> QED
    BY <2>1, <2>2
<1> HIDE DEF q
<1>3. h * q \in Nat /\ p = w * (h * q)
  BY <1>2
<1>4. d = h * q
  BY <1>3
<1>5. d \in Nat /\ p = w * d
  BY <1>3, <1>4
<1>6. e \in Nat /\ x % w \in 0 .. w - 1 /\ x = w * e + (x % w)
  BY Division
<1> HIDE DEF d, e
<1>7. /\ w * (d + h) = p + s /\ w * d \in Nat /\ w * e \in Nat /\ e * w = w * e
      /\ s \in Nat
  BY <1>1, <1>5, <1>6
<1>8. CASE e < d
  <2>1. w * e + w <= w * d
    BY <1>5, <1>6, <1>8, Multiples
  <2> QED
    BY <1>5, <1>6, <1>7, <1>8, <2>1 DEF d, e
<1>9. CASE e \in d .. d + h - 1
  <2>1. w * d <= w * e
    <3>1. CASE d < e
      BY <1>5, <1>6, <3>1, Multiples
    <3>2. CASE d = e
      BY <1>7, <3>2
    <3> QED
      BY <1>5, <1>6, <1>9, <3>1, <3>2
  <2>2. w * e + w <= w * (d + h)
    BY <1>5, <1>6, <1>9, Multiples
  <2> QED
    BY <1>5, <1>6, <1>7, <1>9, <2>1, <2>2 DEF d, e
<1>10. CASE d + h <= e
  <2>1. w * (d + h) <= w * e
    <3>1. CASE d + h < e
      BY <1>5, <1>6, <3>1, Multiples
    <3>2. CASE d + h = e
      BY <1>5, <1>6, <1>7, <3>2
    <3> QED
      BY <1>5, <1>6, <1>10, <3>1, <3>2
  <2> QED
    BY <1>5, <1>6, <1>7, <1>10, <2>1 DEF d, e
<1> QED
  BY <1>5, <1>6, <1>8, <1>9, <1>10

LEMMA HugeFact ==
    ASSUME NEW nodes, Bitmaps(nodes), NEW f, huge_fits(nodes, f)
    PROVE  /\ HugeFrames(f) \subseteq FreeFrames(nodes)
           /\ Bitmaps(ClaimHuge(nodes, f)) /\ Managed(ClaimHuge(nodes, f)) = Managed(nodes)
           /\ FreeFrames(ClaimHuge(nodes, f)) = FreeFrames(nodes) \ HugeFrames(f)
<1> DEFINE i == NodeOf(nodes, f)
           n == nodes[i]
           p == Offset(nodes, f)
           step == HugeWords * WordBits
           d == p \div WordBits
           after == ClaimHuge(nodes, f)
           map == [w \in DOMAIN n.map |->
                      IF w * WordBits \in {g - n.base : g \in HugeFrames(f)} THEN {} ELSE n.map[w]]
           new == [n EXCEPT !.map = map]
<1>1. /\ f \in Managed(nodes) /\ p % step = 0 /\ d + HugeWords <= WordCount(n.pages)
      /\ \A k \in d .. d + HugeWords - 1 : n.map[k] = Bits
  BY DEF huge_fits
<1>2. /\ f \in Nat /\ i \in DOMAIN nodes /\ IsNode(n) /\ p \in 0 .. n.pages - 1
      /\ p \in Nat /\ f = n.base + p
  BY <1>1, HomeFact
<1>3. n.base \in Nat /\ n.pages \in Nat /\ WordBits \in Nat \ {0} /\ HugeWords \in Nat \ {0}
      /\ DOMAIN n.map = Words(n.pages)
  BY <1>2, WordAssumption DEF IsNode
<1>4. step \in Nat
  BY <1>3
<1>5. \A x \in Nat :
         /\ x \in p .. p + step - 1 <=> x \div WordBits \in d .. d + HugeWords - 1
         /\ (x \div WordBits) * WordBits \in p .. p + step - 1
              <=> x \div WordBits \in d .. d + HugeWords - 1
  BY <1>1, <1>2, <1>3, HugeArithmetic
<1>6. ASSUME NEW x \in Int
      PROVE  x \in {g - n.base : g \in HugeFrames(f)} <=> x \in p .. p + step - 1
  <2>1. HugeFrames(f) = n.base + p .. n.base + p + step - 1
    BY <1>2, <1>4 DEF HugeFrames
  <2> HIDE DEF p, step, n
  <2>2. ASSUME x \in p .. p + step - 1
        PROVE  x + n.base \in HugeFrames(f) /\ (x + n.base) - n.base = x
    BY <1>2, <1>3, <1>4, <2>1, <2>2
  <2>3. ASSUME NEW g \in HugeFrames(f), x = g - n.base
        PROVE  x \in p .. p + step - 1
    <3>1. g \in n.base + p .. n.base + p + step - 1 /\ g \in Int
      BY <1>2, <1>3, <1>4, <2>1
    <3> QED
      BY <1>2, <1>3, <1>4, <2>3, <3>1
  <2> QED
    BY <2>2, <2>3
<1>7. after = [nodes EXCEPT ![i] = new]
  BY DEF ClaimHuge
<1>8. new = [base |-> n.base, pages |-> n.pages, map |-> map]
  <2> HIDE DEF map, n
  <2> QED
    BY <1>2 DEF IsNode
<1>9. /\ new.base = n.base /\ new.pages = n.pages /\ new.map = map
      /\ new = [base |-> new.base, pages |-> new.pages, map |-> new.map]
  BY <1>8
<1> HIDE DEF new
<1>10. IsNode(new)
  <2>1. map \in [Words(n.pages) -> SUBSET Bits]
    BY <1>2, <1>3 DEF IsNode
  <2>2. \A w \in Words(n.pages) : map[w] \subseteq n.map[w]
    BY <1>3
  <2> HIDE DEF map
  <2> QED
    BY <1>2, <1>9, <2>1, <2>2 DEF IsNode
<1>11. /\ DOMAIN after = DOMAIN nodes /\ after[i] = new
       /\ \A j \in DOMAIN nodes : j # i => after[j] = nodes[j]
  BY <1>2, <1>7
<1> HIDE DEF after
<1>12. \A j \in DOMAIN nodes : \A g \in Frames : Holds(after[j], g) <=> Holds(nodes[j], g)
  BY <1>9, <1>11 DEF Holds
<1>13. Managed(after) = Managed(nodes)
  BY <1>11, <1>12 DEF Managed
<1>14. Bitmaps(after)
  <2>1. Disjoint(after)
    BY <1>11, <1>12 DEF Bitmaps, Disjoint
  <2>2. \A j \in DOMAIN after : IsNode(after[j])
    BY <1>10, <1>11 DEF Bitmaps
  <2> QED
    BY <1>11, <2>1, <2>2 DEF Bitmaps
<1>15. HugeFrames(f) \subseteq FreeFrames(nodes)
  <2> SUFFICES ASSUME NEW g \in HugeFrames(f) PROVE g \in FreeFrames(nodes)
    OBVIOUS
  <2> DEFINE x == g - n.base
             w == x \div WordBits
             b == x % WordBits
  <2>1. g \in Int
    BY <1>2, <1>4 DEF HugeFrames
  <2>2. x \in Int
    BY <2>1, <1>3
  <2>3. x \in p .. p + step - 1
    <3>1. x \in {h - n.base : h \in HugeFrames(f)}
      OBVIOUS
    <3> HIDE DEF x
    <3> QED
      BY <1>6, <2>2, <3>1
  <2>4. x \in Nat /\ g = n.base + x
    BY <1>2, <1>3, <1>4, <2>1, <2>3
  <2>5. w \in d .. d + HugeWords - 1
    <3> HIDE DEF x
    <3> QED
      BY <1>5, <2>3, <2>4
  <2>6. n.map[w] = Bits
    BY <1>1, <2>5
  <2>7. w \in Nat /\ b \in Bits /\ x = WordBits * w + b
    <3> HIDE DEF x
    <3> QED
      BY <1>3, <2>4, Division DEF Bits
  <2>8. w \in Words(n.pages)
    <3>1. d \in Nat /\ WordCount(n.pages) \in Nat
      <4>1. n.pages + WordBits - 1 \in Nat
        BY <1>3
      <4> HIDE DEF p
      <4> QED
        BY <1>2, <1>3, <4>1, Division DEF WordCount
    <3> HIDE DEF w, d
    <3> QED
      BY <1>1, <1>3, <2>5, <2>7, <3>1 DEF Words
  <2>9. x < n.pages
    <3> HIDE DEF w, b, x
    <3> QED
      BY <1>2, <2>6, <2>7, <2>8 DEF IsNode
  <2>10. Holds(n, g)
    BY <1>3, <2>4, <2>9 DEF Holds
  <2>11. g \in Frames
    <3>1. x \in 0 .. n.pages - 1
      BY <1>3, <2>4, <2>9
    <3> QED
      BY <1>2, <2>4, <3>1 DEF IsNode
  <2>12. PageFree(n, x)
    BY <2>6, <2>7 DEF PageFree
  <2> QED
    BY <1>2, <2>10, <2>11, <2>12 DEF FreeFrames
<1>16. ASSUME NEW g \in Managed(nodes)
       PROVE  g \in FreeFrames(after) <=> g \in FreeFrames(nodes) /\ g \notin HugeFrames(f)
  <2> DEFINE j == NodeOf(nodes, g)
             x == Offset(nodes, g)
             w == x \div WordBits
  <2>1. /\ j \in DOMAIN nodes /\ Holds(nodes[j], g) /\ g \in Frames /\ IsNode(nodes[j])
        /\ x \in 0 .. nodes[j].pages - 1 /\ x \in Nat /\ g = nodes[j].base + x /\ g \in Nat
    BY HomeFact
  <2>2. NodeOf(after, g) = j
    <3>1. Holds(after[j], g)
      BY <1>12, <2>1
    <3> QED
      BY <1>11, <1>13, <1>14, <2>1, <3>1, HomeFact
  <2>3. after[j].base = nodes[j].base
    BY <1>9, <1>11, <2>1
  <2>4. Offset(after, g) = x
    BY <2>2, <2>3 DEF Offset
  <2>5. g \in FreeFrames(after) <=> PageFree(after[j], x)
    BY <1>13, <1>14, <2>2, <2>4, FreeFact
  <2>6. g \in FreeFrames(nodes) <=> PageFree(nodes[j], x)
    BY FreeFact
  <2>7. w \in Words(nodes[j].pages)
    BY <2>1, WordOfPage DEF IsNode
  <2> HIDE DEF x, j
  <2>8. CASE j # i
    <3>1. g \notin HugeFrames(f)
      <4> SUFFICES ASSUME g \in HugeFrames(f) PROVE FALSE
        OBVIOUS
      <4>1. g - n.base \in p .. p + step - 1
        <5>1. g - n.base \in Int /\ g - n.base \in {h - n.base : h \in HugeFrames(f)}
          BY <1>3, <2>1
        <5> QED
          BY <1>6, <5>1
      <4>2. g - n.base \in Nat
        BY <1>2, <1>3, <1>4, <2>1, <4>1
      <4>3. (g - n.base) \div WordBits \in d .. d + HugeWords - 1
        BY <1>5, <4>1, <4>2
      <4> DEFINE y == g - n.base
                 u == y \div WordBits
                 c == y % WordBits
      <4>4. u \in Nat /\ c \in Bits /\ y = WordBits * u + c
        <5> HIDE DEF y
        <5> QED
          BY <1>3, <4>2, Division DEF Bits, y
      <4>5. u \in Words(n.pages) /\ n.map[u] = Bits
        <5>1. d \in Nat /\ WordCount(n.pages) \in Nat
          <6>1. n.pages + WordBits - 1 \in Nat
            BY <1>3
          <6> HIDE DEF p
          <6> QED
            BY <1>2, <1>3, <6>1, Division DEF WordCount
        <5>2. u \in d .. d + HugeWords - 1
          BY <4>3
        <5> HIDE DEF u, d
        <5> QED
          BY <1>1, <1>3, <4>4, <5>1, <5>2 DEF Words
      <4>6. y < n.pages
        <5> HIDE DEF u, c, y
        <5> QED
          BY <1>2, <4>4, <4>5 DEF IsNode
      <4>7. Holds(n, g)
        BY <1>3, <2>1, <4>2, <4>6 DEF Holds
      <4> QED
        BY <1>2, <2>1, <2>8, <4>7, HomeFact DEF j
    <3> QED
      BY <1>11, <2>1, <2>5, <2>6, <2>8, <3>1
  <2>9. CASE j = i
    <3>1. after[j].map[w] = IF w * WordBits \in {h - n.base : h \in HugeFrames(f)}
                            THEN {} ELSE nodes[j].map[w]
      BY <1>3, <1>9, <1>11, <2>7, <2>9
    <3>2. w \in Nat
      BY <1>3, <2>1, Division
    <3>3. w * WordBits \in Int
      BY <1>3, <3>2
    <3>4. w * WordBits \in {h - n.base : h \in HugeFrames(f)} <=> x \in p .. p + step - 1
      BY <1>5, <1>6, <2>1, <3>3
    <3>5. g \in HugeFrames(f) <=> x \in p .. p + step - 1
      <4>1. HugeFrames(f) = n.base + p .. n.base + p + step - 1
        BY <1>2, <1>4 DEF HugeFrames
      <4> HIDE DEF p, step
      <4> QED
        BY <1>2, <1>3, <1>4, <2>1, <2>9, <4>1
    <3>6. CASE g \in HugeFrames(f)
      <4>1. after[j].map[w] = {}
        BY <3>1, <3>4, <3>5, <3>6
      <4> QED
        BY <2>5, <3>6, <4>1 DEF PageFree
    <3>7. CASE g \notin HugeFrames(f)
      <4>1. after[j].map[w] = nodes[j].map[w]
        BY <3>1, <3>4, <3>5, <3>7
      <4> QED
        BY <2>5, <2>6, <3>7, <4>1 DEF PageFree
    <3> QED
      BY <3>6, <3>7
  <2> QED
    BY <2>8, <2>9
<1>17. FreeFrames(after) = FreeFrames(nodes) \ HugeFrames(f)
  BY <1>13, <1>14, <1>16, FreeFact
<1> QED
  BY <1>13, <1>14, <1>15, <1>17 DEF after
=============================================================================
