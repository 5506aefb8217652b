---------------------------- MODULE Heap4rProofs ----------------------------
(***************************************************************************)
(* Proofs about Heap4r, for a heap of any size, any width of size_t, any   *)
(* tasks and requests: the blocks tile the heap and are merged, no block   *)
(* is smaller than what was asked for, and nobody's data is touched.       *)
(***************************************************************************)
EXTENDS Heap4r, FiniteSetTheorems, WellFoundedInduction, TLAPS

-----------------------------------------------------------------------------
(* Lists of addresses and tiles, apart from the memory they are kept in *)

\* The links lead from xStart through the addresses of F, in order, to pxEnd.
Chain(F, link) ==
  \A a \in F \union {Start} :
    /\ link[a] \in F \union {End}
    /\ link[a] > a
    /\ \A c \in F : c <= a \/ link[a] <= c

\* Every unit lies in one of the blocks B, and they do not overlap.
Tiles(B, size) ==
  /\ \A b \in B : size[b] \in 1..Units /\ b + size[b] <= End
  /\ \A b, c \in B : b < c => b + size[b] <= c
  /\ \A u \in 0..End-1 : \E b \in B : b <= u /\ u < b + size[b]

LEMMA UnitsLemma == Units \in Nat /\ Units > 1 /\ End = Units /\ End \in Nat
BY UnitsAssumption DEF End

LEMMA ChainInsert ==
  ASSUME NEW F \in SUBSET (0..End-1), NEW link, Chain(F, link),
         NEW i \in F \union {Start}, NEW b \in 0..End-1, i < b, b < link[i],
         NEW link2, link2[i] = b, link2[b] = link[i],
         \A a \in (F \union {Start}) \ {i} : link2[a] = link[a]
  PROVE  Chain(F \union {b}, link2)
<1>1. \A a \in F \union {Start} : a \in Int /\ a < End
  BY UnitsLemma DEF Start
<1>2. \A a \in F \union {Start} : link[a] \in Int
  <2>1. F \union {End} \subseteq Int
    BY <1>1, UnitsLemma
  <2>2. \A a \in F \union {Start} : link[a] \in F \union {End}
    BY DEF Chain
  <2> QED
    BY <2>1, <2>2
<1> SUFFICES ASSUME NEW a \in F \union {b} \union {Start}
             PROVE  /\ link2[a] \in F \union {b} \union {End}
                    /\ link2[a] > a
                    /\ \A c \in F \union {b} : c <= a \/ link2[a] <= c
  BY DEF Chain
<1>3. CASE a = i
  BY <1>1, <1>2, <1>3, UnitsLemma DEF Chain
<1>4. CASE a = b /\ a # i
  BY <1>1, <1>2, <1>4, UnitsLemma DEF Chain
<1>5. CASE a # b /\ a # i
  <2>1. a \in F \union {Start} /\ link2[a] = link[a]
    BY <1>5
  <2>2. link[a] \in F \union {End} /\ link[a] > a /\ \A c \in F : c <= a \/ link[a] <= c
    BY <2>1 DEF Chain
  <2>3. b <= a \/ link[a] <= b
    <3>1. CASE a < i
      <4>1. i \in F
        BY <1>1, <3>1, <2>1 DEF Start
      <4>2. link[a] <= i
        BY <1>1, <2>1, <2>2, <3>1, <4>1
      <4> QED
        BY <1>1, <1>2, <2>1, <4>2
    <3>2. CASE i < a
      <4>1. a \in F
        BY <1>1, <3>2, <2>1 DEF Start
      <4>2. link[i] <= a
        BY <1>1, <3>2, <4>1 DEF Chain
      <4> QED
        BY <1>1, <1>2, <2>1, <4>2
    <3> QED
      BY <1>1, <1>5, <2>1, <3>1, <3>2
  <2> QED
    BY <2>1, <2>2, <2>3
<1> QED
  BY <1>3, <1>4, <1>5

LEMMA ChainRemove ==
  ASSUME NEW F \in SUBSET (0..End-1), NEW link, Chain(F, link),
         NEW i \in F \union {Start}, link[i] \in F,
         NEW link2, link2[i] = link[link[i]],
         \A a \in (F \union {Start}) \ {i, link[i]} : link2[a] = link[a]
  PROVE  Chain(F \ {link[i]}, link2)
<1> DEFINE x == link[i]
<1>1. \A a \in F \union {Start} : a \in Int /\ a < End
  BY UnitsLemma DEF Start
<1>2. \A a \in F \union {Start} : link[a] \in Int
  <2>1. F \union {End} \subseteq Int
    BY <1>1, UnitsLemma
  <2>2. \A a \in F \union {Start} : link[a] \in F \union {End}
    BY DEF Chain
  <2> QED
    BY <2>1, <2>2
<1>3. x \in F /\ x > i /\ link[x] \in F \union {End} /\ link[x] > x
  BY DEF Chain
<1> SUFFICES ASSUME NEW a \in (F \ {x}) \union {Start}
             PROVE  /\ link2[a] \in (F \ {x}) \union {End}
                    /\ link2[a] > a
                    /\ \A c \in F \ {x} : c <= a \/ link2[a] <= c
  BY DEF Chain
<1> HIDE DEF x
<1>4. CASE a = i
  <2>1. link2[a] = link[x]
    BY <1>4 DEF x
  <2>2. \A c \in F : (c <= i \/ x <= c) /\ (c <= x \/ link[x] <= c)
    BY <1>3 DEF Chain, x
  <2> QED
    BY <1>1, <1>2, <1>3, <1>4, <2>1, <2>2
<1>5. CASE a # i
  <2>1. a \in F \union {Start} /\ link2[a] = link[a] /\ a # x
    <3>1. a # x
      BY <1>1, <1>3 DEF Start
    <3> QED
      BY <1>5, <3>1 DEF x
  <2>2. link[a] \in F \union {End} /\ link[a] > a /\ \A c \in F : c <= a \/ link[a] <= c
    BY <2>1 DEF Chain
  <2>3. link[a] # x
    <3>1. CASE a < i
      <4>1. i \in F
        BY <1>1, <3>1, <2>1 DEF Start
      <4> QED
        BY <1>1, <1>2, <1>3, <2>1, <2>2, <3>1, <4>1
    <3>2. CASE i < a
      <4>1. a \in F
        BY <1>1, <3>2, <2>1 DEF Start
      <4>2. x <= a
        BY <1>1, <3>2, <4>1 DEF Chain, x
      <4> QED
        BY <1>1, <1>2, <1>3, <2>1, <2>2, <4>2
    <3> QED
      BY <1>1, <1>5, <2>1, <3>1, <3>2
  <2> QED
    BY <2>1, <2>2, <2>3
<1> QED
  BY <1>4, <1>5

LEMMA TilesJoin ==
  ASSUME NEW B \in SUBSET (0..End-1), NEW size, Tiles(B, size),
         NEW a \in B, NEW c \in B, a + size[a] = c,
         NEW size2, size2[a] = size[a] + size[c],
         \A b \in B \ {a, c} : size2[b] = size[b]
  PROVE  Tiles(B \ {c}, size2)
<1>1. /\ \A b \in B : size[b] \in 1..Units /\ b + size[b] <= End /\ b \in Int
      /\ \A b, d \in B : b < d => b + size[b] <= d
  BY UnitsLemma DEF Tiles
<1>2. a < c /\ size[a] \in Int /\ size[c] \in Int /\ a \in Int /\ c \in Int
  BY <1>1, UnitsLemma
<1>3. \A b \in B \ {c} : size2[b] \in 1..Units /\ b + size2[b] <= End
  <2> TAKE b \in B \ {c}
  <2>1. CASE b = a
    BY <1>1, <1>2, <2>1, UnitsLemma
  <2>2. CASE b # a
    BY <1>1, <2>2
  <2> QED
    BY <2>1, <2>2
<1>4. \A b, d \in B \ {c} : b < d => b + size2[b] <= d
  <2> SUFFICES ASSUME NEW b \in B \ {c}, NEW d \in B \ {c}, b < d
               PROVE  b + size2[b] <= d
    OBVIOUS
  <2>1. CASE b = a
    <3>1. c < d
      BY <1>1, <1>2, <2>1
    <3> QED
      BY <1>1, <1>2, <2>1, <3>1
  <2>2. CASE b # a
    BY <1>1, <2>2
  <2> QED
    BY <2>1, <2>2
<1>5. \A u \in 0..End-1 : \E b \in B \ {c} : b <= u /\ u < b + size2[b]
  <2> TAKE u \in 0..End-1
  <2>1. PICK b \in B : b <= u /\ u < b + size[b]
    BY DEF Tiles
  <2>2. CASE b \in {a, c}
    BY <1>1, <1>2, <2>1, <2>2
  <2>3. CASE b \notin {a, c}
    BY <2>1, <2>3
  <2> QED
    BY <2>2, <2>3
<1> QED
  BY <1>3, <1>4, <1>5 DEF Tiles

LEMMA TilesSplit ==
  ASSUME NEW B \in SUBSET (0..End-1), NEW size, Tiles(B, size),
         NEW b \in B, NEW w \in 1 .. size[b]-1,
         NEW size2, size2[b] = w, size2[b + w] = size[b] - w,
         \A c \in B \ {b} : size2[c] = size[c]
  PROVE  b + w \in (0..End-1) \ B /\ Tiles(B \union {b + w}, size2)
<1>1. /\ \A c \in B : size[c] \in 1..Units /\ c + size[c] <= End /\ c \in Int /\ size[c] \in Int
      /\ \A c, d \in B : c < d => c + size[c] <= d
  BY UnitsLemma DEF Tiles
<1>2. b \in Int /\ size[b] \in Int /\ w \in Int /\ 1 <= w /\ w < size[b] /\ b >= 0 /\ End \in Int
  BY <1>1, UnitsLemma
<1>3. b + w \in (0..End-1) \ B
  <2>1. b + w \in 0..End-1
    BY <1>1, <1>2
  <2>2. b + w \notin B
    <3> SUFFICES ASSUME b + w \in B PROVE FALSE
      OBVIOUS
    <3>1. b + size[b] <= b + w
      BY <1>1, <1>2
    <3> QED
      BY <1>2, <3>1
  <2> QED
    BY <2>1, <2>2
<1>4. \A c \in B \union {b + w} : size2[c] \in 1..Units /\ c + size2[c] <= End
  <2> TAKE c \in B \union {b + w}
  <2>1. CASE c = b
    BY <1>1, <1>2, <2>1, UnitsLemma
  <2>2. CASE c = b + w
    BY <1>1, <1>2, <2>2, UnitsLemma
  <2>3. CASE c \in B \ {b}
    BY <1>1, <2>3
  <2> QED
    BY <2>1, <2>2, <2>3
<1>5. \A c, d \in B \union {b + w} : c < d => c + size2[c] <= d
  <2> SUFFICES ASSUME NEW c \in B \union {b + w}, NEW d \in B \union {b + w}, c < d
               PROVE  c + size2[c] <= d
    OBVIOUS
  <2>1. CASE c = b
    <3>1. d # b + w => b + size[b] <= d
      BY <1>1, <2>1
    <3> QED
      BY <1>1, <1>2, <2>1, <3>1
  <2>2. CASE c = b + w
    <3>1. d \in B /\ b < d
      BY <1>1, <1>2, <2>2
    <3>2. b + size[b] <= d
      BY <1>1, <3>1
    <3> QED
      BY <1>1, <1>2, <2>2, <3>1, <3>2
  <2>3. CASE c \in B \ {b}
    <3>1. CASE d \in B
      BY <1>1, <2>3, <3>1
    <3>2. CASE d = b + w
      <4>1. c < b
        <5> SUFFICES ASSUME b < c PROVE FALSE
          BY <1>1, <1>2, <2>3
        <5>1. b + size[b] <= c
          BY <1>1, <2>3
        <5> QED
          BY <1>1, <1>2, <2>3, <3>2, <5>1
      <4>2. c + size[c] <= b
        BY <1>1, <2>3, <4>1
      <4> QED
        BY <1>1, <1>2, <2>3, <3>2, <4>2
    <3> QED
      BY <3>1, <3>2
  <2> QED
    BY <2>1, <2>2, <2>3
<1>6. \A u \in 0..End-1 : \E c \in B \union {b + w} : c <= u /\ u < c + size2[c]
  <2> TAKE u \in 0..End-1
  <2>1. PICK c \in B : c <= u /\ u < c + size[c]
    BY DEF Tiles
  <2>2. CASE c = b
    BY <1>1, <1>2, <2>1, <2>2
  <2>3. CASE c # b
    BY <2>1, <2>3
  <2> QED
    BY <2>2, <2>3
<1> QED
  BY <1>3, <1>4, <1>5, <1>6 DEF Tiles

-----------------------------------------------------------------------------
(* The heap: blocks in use U, and the free ones *)

Unit == [data : Tasks \union {"header", "raw", "zero"},
         next : (0..End) \union {NULL}, size : 0..Units, alloc : BOOLEAN]

Links(m, s) == [a \in Start..End |-> NextOf(m, s, a)]
Sizes(m) == [a \in 0..End |-> m[a].size]

HeapOK(m, s, U) ==
  /\ m \in [0..End -> Unit] /\ s \in 0..End
  /\ U \in SUBSET (0..End-1) /\ FreeIn(m) \intersect U = {}
  /\ \A b \in FreeIn(m) \union U : IsHeader(m[b])
  /\ \A b \in FreeIn(m) : ~m[b].alloc
  /\ Chain(FreeIn(m), Links(m, s))
  /\ Tiles(FreeIn(m) \union U, Sizes(m))

Separate(m) == \A b \in FreeIn(m) : b + m[b].size \notin FreeIn(m)

\* What holds of blocks and links, without the notation of the lists above.
LEMMA HeapFacts ==
  ASSUME NEW m, NEW s, NEW U, HeapOK(m, s, U)
  PROVE  /\ FreeIn(m) \in SUBSET (0..End-1) /\ FreeIn(m) \union U \in SUBSET (0..End-1)
         /\ \A b \in FreeIn(m) \union U :
              m[b].size \in 1..Units /\ b + m[b].size <= End /\ b \in Int /\ m[b].size \in Int
         /\ \A b, c \in FreeIn(m) \union U : b < c => b + m[b].size <= c
         /\ \A a \in FreeIn(m) \union {Start} :
              /\ NextOf(m, s, a) \in FreeIn(m) \union {End} /\ NextOf(m, s, a) \in Int
              /\ NextOf(m, s, a) > a /\ a \in Int /\ a < End
              /\ \A c \in FreeIn(m) : c <= a \/ NextOf(m, s, a) <= c
<1>1. FreeIn(m) \in SUBSET (0..End-1) /\ FreeIn(m) \union U \in SUBSET (0..End-1)
  BY DEF FreeIn, HeapOK
<1>2. \A b \in FreeIn(m) \union U : b \in 0..End /\ Sizes(m)[b] = m[b].size /\ b \in Int
  BY <1>1, UnitsLemma DEF Sizes
<1>3. \A a \in FreeIn(m) \union {Start} :
        a \in Start..End /\ Links(m, s)[a] = NextOf(m, s, a) /\ a \in Int /\ a < End
  BY <1>1, UnitsLemma DEF Links, Start
<1>4. \A b \in FreeIn(m) \union U :
        m[b].size \in 1..Units /\ b + m[b].size <= End /\ m[b].size \in Int
  BY <1>2, UnitsLemma DEF HeapOK, Tiles
<1>5. \A b, c \in FreeIn(m) \union U : b < c => b + m[b].size <= c
  BY <1>2 DEF HeapOK, Tiles
<1>6. \A a \in FreeIn(m) \union {Start} :
        /\ NextOf(m, s, a) \in FreeIn(m) \union {End}
        /\ NextOf(m, s, a) > a
        /\ \A c \in FreeIn(m) : c <= a \/ NextOf(m, s, a) <= c
  BY <1>3 DEF HeapOK, Chain
<1>7. FreeIn(m) \union {End} \subseteq Int
  BY <1>1, UnitsLemma
<1> QED
  BY <1>1, <1>2, <1>3, <1>4, <1>5, <1>6, <1>7

LEMMA LessLemma ==
  ASSUME NEW x \in Nat, NEW y \in Nat, y < x
  PROVE  <<y, x>> \in OpToRel(<, Nat)
BY SMT DEF OpToRel

LEMMA LeastLemma ==
  ASSUME NEW W \in SUBSET Nat, W # {}
  PROVE  \E x \in W : \A y \in W : x <= y
<1>1. PICK x \in W : \A y \in W : ~(<<y, x>> \in OpToRel(<, Nat))
  BY NatLessThanWellFounded, WFMin
<1>2. ASSUME NEW y \in W PROVE x <= y
  <2>1. ~(y < x)
    BY <1>1, LessLemma, Zenon
  <2> QED
    BY <2>1
<1> QED
  BY <1>2

\* The loop of prvInsertBlockIntoFreeList ends at the block before b.
LEMMA BeforeLemma ==
  ASSUME NEW m, NEW s, NEW U, HeapOK(m, s, U), NEW b \in 0..End-1
  PROVE  /\ Before(m, s, b) \in FreeIn(m) \union {Start}
         /\ Before(m, s, b) < b /\ b <= NextOf(m, s, Before(m, s, b))
<1> DEFINE F == FreeIn(m)
           W == {b - 1 - a : a \in {x \in F \union {Start} : x < b}}
<1>1. \A a \in F \union {Start} : a \in Int
  BY HeapFacts
<1>2. b \in Int /\ 0 <= b /\ b < End
  BY UnitsLemma
<1>3. W \in SUBSET Nat /\ W # {}
  <2>1. Start < b /\ Start \in F \union {Start}
    BY <1>2 DEF Start
  <2>2. b - 1 - Start \in W
    BY <2>1
  <2>3. \A a \in F \union {Start} : a < b => b - 1 - a \in Nat
    BY <1>1, <1>2
  <2> QED
    BY <2>2, <2>3
<1>4. PICK x \in W : \A y \in W : x <= y
  BY <1>3, LeastLemma
<1>5. PICK a \in F \union {Start} : a < b /\ x = b - 1 - a
  BY <1>4
<1>6. NextOf(m, s, a) >= b
  <2> SUFFICES ASSUME NextOf(m, s, a) < b PROVE FALSE
    BY <1>2, HeapFacts
  <2>1. NextOf(m, s, a) \in F /\ NextOf(m, s, a) > a /\ NextOf(m, s, a) \in Int
    BY <1>2, HeapFacts
  <2>2. b - 1 - NextOf(m, s, a) \in W
    BY <2>1
  <2>3. x <= b - 1 - NextOf(m, s, a)
    BY <1>4, <2>2
  <2>4. a \in Int /\ x = b - 1 - a
    BY <1>1, <1>5
  <2> QED
    BY <1>2, <2>1, <2>3, <2>4
<1>7. a \in Start..b-1
  BY <1>1, <1>2, <1>5, HeapFacts DEF Start
<1> DEFINE p == Before(m, s, b)
<1>8. p \in Start..b-1 /\ NextOf(m, s, p) >= b
  BY <1>6, <1>7 DEF Before
<1> HIDE DEF p
<1>9. p < b /\ p \in Int /\ -1 <= p
  BY <1>2, <1>8 DEF Start
<1>10. p \in F \union {Start}
  <2>1. CASE p = Start
    BY <2>1
  <2>2. CASE p # Start
    <3>1. p \in 0..End-1
      BY <1>2, <1>9, <2>2, UnitsLemma DEF Start
    <3>2. m[p].next >= b
      BY <1>8, <2>2 DEF NextOf
    <3>3. m[p].next # NULL
      BY <1>2, <3>2 DEF NULL
    <3> QED
      BY <3>1, <3>3 DEF FreeIn
  <2> QED
    BY <2>1, <2>2
<1> QED
  BY <1>8, <1>9, <1>10 DEF p

-----------------------------------------------------------------------------
(* prvInsertBlockIntoFreeList *)

Behind(m, s, b) == NextOf(m, s, Before(m, s, b))
Joins(m, s, b) == Before(m, s, b) # Start /\ Before(m, s, b) + m[Before(m, s, b)].size = b
Touches(m, s, b) == b + m[b].size = Behind(m, s, b) /\ Behind(m, s, b) # End

\* Where the block comes to lie between the free blocks.
LEMMA PlaceLemma ==
  ASSUME NEW m, NEW s, NEW U, HeapOK(m, s, U), NEW b \in U
  PROVE  /\ b \in (0..End-1) \ FreeIn(m) /\ b \in Int
         /\ Before(m, s, b) \in FreeIn(m) \union {Start} /\ Before(m, s, b) < b
         /\ Before(m, s, b) \in Int
         /\ Before(m, s, b) \in FreeIn(m) => Before(m, s, b) + m[Before(m, s, b)].size <= b
         /\ Behind(m, s, b) \in FreeIn(m) \union {End} /\ b < Behind(m, s, b)
         /\ Behind(m, s, b) \in Int
         /\ m[b].size \in 1..Units /\ b + m[b].size <= Behind(m, s, b)
         /\ \A c \in FreeIn(m) : c <= Before(m, s, b) \/ Behind(m, s, b) <= c
<1>1. b \in (0..End-1) \ FreeIn(m) /\ b \in Int /\ b < End
  BY UnitsLemma DEF HeapOK
<1> DEFINE i == Before(m, s, b)
           next == Behind(m, s, b)
<1>2. i \in FreeIn(m) \union {Start} /\ i < b /\ b <= next
  BY <1>1, BeforeLemma DEF Behind
<1>3. i \in Int /\ next \in FreeIn(m) \union {End} /\ next \in Int
      /\ \A c \in FreeIn(m) : c <= i \/ next <= c
  BY <1>2, HeapFacts DEF Behind
<1>4. b < next
  BY <1>1, <1>2, <1>3
<1>5. i \in FreeIn(m) => i + m[i].size <= b
  BY <1>2, HeapFacts
<1>6. m[b].size \in 1..Units /\ b + m[b].size <= End
  BY HeapFacts
<1>7. b + m[b].size <= next
  <2>1. CASE next = End
    BY <1>6, <2>1
  <2>2. CASE next # End
    BY <1>3, <1>4, <2>2, HeapFacts
  <2> QED
    BY <2>1, <2>2
<1> QED
  BY <1>1, <1>2, <1>3, <1>4, <1>5, <1>6, <1>7

\* The heap after the insertion, unit by unit.
Inserted(m, s, b) ==
  LET i == Before(m, s, b)
      next == Behind(m, s, b)
  IN  [u \in 0..End |->
         IF Joins(m, s, b)
           THEN IF u = i
                  THEN IF Touches(m, s, b)
                         THEN Header(m[next].next, m[i].size + m[b].size + m[next].size, FALSE)
                         ELSE Header(next, m[i].size + m[b].size, FALSE)
                ELSE IF u = b \/ (u = next /\ Touches(m, s, b)) THEN Raw
                ELSE m[u]
           ELSE IF u = b
                  THEN IF Touches(m, s, b)
                         THEN Header(m[next].next, m[b].size + m[next].size, FALSE)
                         ELSE Header(next, m[b].size, FALSE)
                ELSE IF u = next /\ Touches(m, s, b) THEN Raw
                ELSE IF u = i THEN [m[u] EXCEPT !.next = b]
                ELSE m[u]]

LEMMA InsertForm ==
  ASSUME NEW m, NEW s, NEW U, HeapOK(m, s, U), NEW b \in U,
         NEW h, h = InsertBlockIntoFreeList(m, s, b)
  PROVE  /\ h.start = IF Before(m, s, b) = Start THEN b ELSE s
         /\ h.mem = Inserted(m, s, b)
<1> DEFINE i == Before(m, s, b)
           next == Behind(m, s, b)
           joins == i # Start /\ i + m[i].size = b
           at == IF joins THEN i ELSE b
           size == IF joins THEN m[i].size + m[b].size ELSE m[b].size
           touches == at + size = next /\ next # End
           mm == [u \in 0..End |->
                   IF u = at
                     THEN IF touches THEN Header(m[next].next, size + m[next].size, FALSE)
                                     ELSE Header(next, size, FALSE)
                   ELSE IF u = b \/ (u = next /\ touches) THEN Raw
                   ELSE m[u]]
<1>1. /\ next = NextOf(m, s, i) /\ joins = Joins(m, s, b)
      /\ i \in FreeIn(m) \union {Start} /\ i \in Int /\ b \in Int /\ i < b /\ b < next
      /\ m[b].size \in Int /\ (i # Start => m[i].size \in Int /\ i \in 0..End)
      /\ b \in 0..End
  <2>1. i \in FreeIn(m) => m[i].size \in Int /\ i \in 0..End
    BY HeapFacts, UnitsLemma DEF FreeIn
  <2>2. b \in 0..End
    BY PlaceLemma, UnitsLemma
  <2> QED
    BY <2>1, <2>2, PlaceLemma, UnitsLemma DEF Behind, Joins
<1>2. touches = Touches(m, s, b)
  BY <1>1 DEF Touches
<1>3. h = IF joins THEN [mem |-> mm, start |-> s] ELSE SetNext(mm, s, i, at)
  BY <1>1, Zenon DEF InsertBlockIntoFreeList
<1> HIDE DEF mm
<1>4. CASE joins
  <2>1. h.mem = mm /\ h.start = s
    BY <1>3, <1>4
  <2>2. mm = [u \in 0..End |->
               IF u = i
                 THEN IF touches
                        THEN Header(m[next].next, m[i].size + m[b].size + m[next].size, FALSE)
                        ELSE Header(next, m[i].size + m[b].size, FALSE)
               ELSE IF u = b \/ (u = next /\ touches) THEN Raw
               ELSE m[u]]
    BY <1>4 DEF mm
  <2> QED
    BY <1>1, <1>2, <1>4, <2>1, <2>2 DEF Inserted
<1>5. CASE ~joins
  <2>1. mm = [u \in 0..End |->
               IF u = b
                 THEN IF touches
                        THEN Header(m[next].next, m[b].size + m[next].size, FALSE)
                        ELSE Header(next, m[b].size, FALSE)
               ELSE IF u = next /\ touches THEN Raw
               ELSE m[u]]
    BY <1>5 DEF mm
  <2>2. CASE i = Start
    <3>1. h.mem = mm /\ h.start = b
      BY <1>3, <1>5, <2>2 DEF SetNext
    <3>2. \A u \in 0..End : u # i
      BY <2>2, UnitsLemma DEF Start
    <3> QED
      BY <1>1, <1>2, <1>5, <2>1, <2>2, <3>1, <3>2 DEF Inserted
  <2>3. CASE i # Start
    <3>1. h.mem = [mm EXCEPT ![i].next = b] /\ h.start = s
      BY <1>3, <1>5, <2>3 DEF SetNext
    <3>2. i # b /\ i # next /\ i \in 0..End
      BY <1>1, <2>3, PlaceLemma
    <3>3. mm[i] = m[i]
      BY <2>1, <3>2
    <3>4. h.mem = [u \in 0..End |-> IF u = i THEN [m[u] EXCEPT !.next = b] ELSE mm[u]]
      <4>1. mm = [u \in 0..End |-> mm[u]]
        BY <2>1
      <4>2. [mm EXCEPT ![i].next = b]
              = [u \in 0..End |-> IF u = i THEN [mm[u] EXCEPT !.next = b] ELSE mm[u]]
        BY <3>2, <4>1
      <4> QED
        BY <3>1, <3>3, <4>2
    <3>5. \A u \in 0..End : h.mem[u] = Inserted(m, s, b)[u]
      <4> TAKE u \in 0..End
      <4>1. CASE u = i
        BY <1>1, <1>5, <3>2, <3>4, <4>1 DEF Inserted
      <4>2. CASE u # i
        BY <1>1, <1>2, <1>5, <2>1, <3>4, <4>2 DEF Inserted
      <4> QED
        BY <4>1, <4>2
    <3> QED
      BY <2>3, <3>1, <3>4, <3>5 DEF Inserted
  <2> QED
    BY <2>2, <2>3
<1> QED
  BY <1>4, <1>5

LEMMA NotJoined ==
  ASSUME NEW m, NEW s, NEW U, HeapOK(m, s, U), NEW b \in U, ~Joins(m, s, b), NEW c \in FreeIn(m)
  PROVE  c + m[c].size # b
<1> DEFINE i == Before(m, s, b)
<1>1. /\ i \in FreeIn(m) \union {Start} /\ i \in Int /\ b \in Int /\ i < b /\ c # Start
      /\ c \in Int /\ m[c].size \in Int /\ m[c].size > 0 /\ 0 <= c /\ (c <= i \/ b < c)
  <2>1. c \in 0..End-1 /\ m[c].size \in 1..Units
    BY HeapFacts DEF FreeIn
  <2>2. c <= i \/ b < c
    BY <2>1, PlaceLemma, HeapFacts
  <2> QED
    BY <2>1, <2>2, PlaceLemma, UnitsLemma DEF Start
<1>2. CASE c = i
  BY <1>1, <1>2 DEF Joins
<1>3. CASE c < i
  <2>1. i \in FreeIn(m)
    BY <1>1, <1>3 DEF Start
  <2>2. c + m[c].size <= i
    BY <1>3, <2>1, HeapFacts
  <2> QED
    BY <1>1, <2>2
<1>4. CASE b < c
  BY <1>1, <1>4
<1> QED
  BY <1>1, <1>2, <1>3, <1>4

\* The heap h is in order without b, and differs from m in headers only.
InOrder(m, s, U, b, h) ==
  /\ HeapOK(h.mem, h.start, U \ {b}) /\ Separate(h.mem)
  /\ \A u \in 0..End : u \notin FreeIn(m) \union {b} => h.mem[u] = m[u]

\* The four outcomes: the block touches no free block, or the one behind it, or the
\* one before it, or both.
LEMMA InsertApart ==
  ASSUME NEW m, NEW s, NEW U, HeapOK(m, s, U), Separate(m), NEW b \in U,
         NEW h, h = InsertBlockIntoFreeList(m, s, b),
         ~Joins(m, s, b), ~Touches(m, s, b)
  PROVE  InOrder(m, s, U, b, h)
<1> DEFINE F == FreeIn(m)
           i == Before(m, s, b)
           next == Behind(m, s, b)
           m2 == h.mem
           s2 == h.start
<1>1. /\ b \in (0..End-1) \ F /\ b \in Int /\ i \in F \union {Start} /\ i < b /\ i \in Int
      /\ next \in F \union {End} /\ b < next /\ next \in Int
      /\ m[b].size \in 1..Units /\ m[b].size \in Int /\ b + m[b].size <= next
      /\ b + m[b].size <= End
      /\ \A c \in F : c <= i \/ next <= c
  BY PlaceLemma, HeapFacts, UnitsLemma
<1>2. /\ F \in SUBSET (0..End-1) /\ F \union U \in SUBSET (0..End-1) /\ U \in SUBSET (0..End-1)
      /\ F \intersect U = {} /\ m \in [0..End -> Unit] /\ s \in 0..End
      /\ \A a \in F : /\ a \in Int /\ m[a].size \in 1..Units /\ m[a].size \in Int /\ m[a].next \in 0..End
                     /\ NextOf(m, s, a) = m[a].next /\ a # Start /\ a # End
  <2>1. \A a \in F : m[a].next \in 0..End
    BY UnitsLemma DEF HeapOK, Unit, FreeIn
  <2>2. \A a \in F : NextOf(m, s, a) = m[a].next /\ a # Start /\ a # End
    BY UnitsLemma DEF FreeIn, NextOf, Start
  <2> QED
    BY <2>1, <2>2, HeapFacts DEF HeapOK
<1> HIDE DEF i, next, F
<1>3. /\ s2 = (IF i = Start THEN b ELSE s)
      /\ m2 = [u \in 0..End |-> IF u = b THEN Header(next, m[b].size, FALSE)
                                ELSE IF u = i THEN [m[u] EXCEPT !.next = b]
                                ELSE m[u]]
  <2>1. m2 = Inserted(m, s, b) /\ s2 = IF i = Start THEN b ELSE s
    BY InsertForm DEF i
  <2> QED
    BY <2>1 DEF Inserted, i, next
<1>4. m2 \in [0..End -> Unit] /\ s2 \in 0..End
  <2>1. Header(next, m[b].size, FALSE) \in Unit
    BY <1>1, <1>2, UnitsLemma DEF Header, Unit
  <2>2. \A u \in 0..End : [m[u] EXCEPT !.next = b] \in Unit
    BY <1>1, <1>2, UnitsLemma DEF Unit
  <2>3. b \in 0..End
    BY <1>1, UnitsLemma
  <2>4. m \in [0..End -> Unit] /\ s \in 0..End
    BY <1>2
  <2>5. m2 \in [0..End -> Unit]
    BY <1>3, <2>1, <2>2, <2>4
  <2>6. s2 \in 0..End
    BY <1>3, <2>3, <2>4
  <2> QED
    BY <2>5, <2>6
<1>5. \A u \in 0..End :
        /\ m2[u].next = IF u = b THEN next ELSE IF u = i THEN b ELSE m[u].next
        /\ m2[u].size = m[u].size
        /\ u \notin {b, i} => m2[u] = m[u]
        /\ m2[u].data = IF u = b THEN "header" ELSE m[u].data
        /\ m2[u].alloc = IF u = b THEN FALSE ELSE m[u].alloc
  <2> TAKE u \in 0..End
  <2>1. CASE u = b
    <3>1. m2[u] = Header(next, m[b].size, FALSE)
      BY <1>3, <2>1
    <3> QED
      BY <1>1, <2>1, <3>1 DEF Header
  <2>2. CASE u # b /\ u = i
    <3>1. m2[u] = [m[u] EXCEPT !.next = b] /\ m[u] \in Unit
      BY <1>2, <1>3, <2>2
    <3> QED
      BY <2>2, <3>1 DEF Unit
  <2>3. CASE u # b /\ u # i
    BY <1>3, <2>3
  <2> QED
    BY <2>1, <2>2, <2>3
<1>6. FreeIn(m2) = F \union {b}
  <2>1. next # NULL /\ b # NULL /\ End - 1 < End
    BY <1>1, UnitsLemma DEF NULL
  <2>2. \A a \in 0..End-1 : a \in 0..End
    BY UnitsLemma
  <2>3. \A a \in 0..End-1 : m2[a].next # NULL <=> a = b \/ a = i \/ m[a].next # NULL
    BY <1>5, <2>1, <2>2
  <2>4. i \in 0..End-1 => i \in F
    BY <1>1, <1>2, UnitsLemma DEF Start
  <2> QED
    BY <1>1, <2>3, <2>4 DEF FreeIn, F
<1>7. \A a \in F \union {b} \union {Start} :
        NextOf(m2, s2, a) = IF a = i THEN b ELSE IF a = b THEN next ELSE NextOf(m, s, a)
  <2>1. b # Start /\ \A a \in F \union {b} : a # Start /\ a \in 0..End
    BY <1>1, <1>2, UnitsLemma DEF Start
  <2> QED
    BY <1>1, <1>3, <1>5, <2>1 DEF NextOf
<1>8. Chain(F \union {b}, Links(m2, s2))
  <2>1. \A a \in F \union {b} \union {Start} : a \in Start..End
    BY <1>1, <1>2, UnitsLemma DEF Start
  <2>2. \A a \in F \union {b} \union {Start} : Links(m2, s2)[a] = NextOf(m2, s2, a)
    BY <2>1 DEF Links
  <2>3. \A a \in F \union {Start} : Links(m, s)[a] = NextOf(m, s, a)
    BY <2>1 DEF Links
  <2>4. Chain(F, Links(m, s))
    BY DEF HeapOK, F
  <2>5. b # i /\ NextOf(m, s, i) = next
    BY <1>1 DEF i, next, Behind
  <2>6. Links(m2, s2)[i] = b /\ Links(m2, s2)[b] = next /\ Links(m, s)[i] = next
    BY <1>1, <1>7, <2>2, <2>3, <2>5
  <2>7. \A a \in (F \union {Start}) \ {i} : Links(m2, s2)[a] = Links(m, s)[a]
    <3>1. b \notin F \union {Start}
      BY <1>1, UnitsLemma DEF Start
    <3> QED
      BY <1>7, <2>2, <2>3, <3>1
  <2> DEFINE L1 == Links(m, s)
             L2 == Links(m2, s2)
  <2>8. /\ F \in SUBSET (0..End-1) /\ i \in F \union {Start} /\ b \in 0..End-1
        /\ i < b /\ b < L1[i] /\ L2[i] = b /\ L2[b] = L1[i]
    BY <1>1, <1>2, <2>6
  <2>9. Chain(F, L1) /\ \A a \in (F \union {Start}) \ {i} : L2[a] = L1[a]
    BY <2>4, <2>7
  <2> HIDE DEF L1, L2
  <2>10. Chain(F \union {b}, L2)
    BY <2>8, <2>9, ChainInsert
  <2> QED
    BY <2>10 DEF L2
<1>9. Tiles((F \union {b}) \union (U \ {b}), Sizes(m2))
  <2>1. (F \union {b}) \union (U \ {b}) = F \union U
    OBVIOUS
  <2>2. \A c \in F \union U : c \in 0..End
    BY <1>2, UnitsLemma
  <2>3. Sizes(m2) = Sizes(m)
    BY <1>5 DEF Sizes
  <2> QED
    BY <2>1, <2>3 DEF HeapOK, F
<1>10. \A c \in (F \union {b}) \union (U \ {b}) : IsHeader(m2[c])
  <2>1. \A c \in F \union U : c \in 0..End /\ IsHeader(m[c])
    BY <1>2, UnitsLemma DEF HeapOK, F
  <2> QED
    BY <1>1, <1>5, <2>1 DEF IsHeader
<1>11. \A c \in F \union {b} : ~m2[c].alloc
  <2>1. \A c \in F \union {b} : c \in 0..End
    BY <1>1, <1>2, UnitsLemma
  <2>2. \A c \in F : ~m[c].alloc
    BY DEF HeapOK, F
  <2> QED
    BY <1>5, <2>1, <2>2
<1>12. HeapOK(m2, s2, U \ {b})
  BY <1>1, <1>2, <1>4, <1>6, <1>8, <1>9, <1>10, <1>11 DEF HeapOK
<1>13. Separate(m2)
  <2> SUFFICES ASSUME NEW c \in F \union {b}
               PROVE  c + m[c].size \notin F \union {b}
    <3>1. F \union {b} \subseteq 0..End
      BY <1>1, <1>2, UnitsLemma
    <3>2. \A x \in F \union {b} : m2[x].size = m[x].size
      BY <1>5, <3>1
    <3> QED
      BY <1>6, <3>2 DEF Separate
  <2>1. CASE c = b
    <3>1. b + m[b].size # next \/ next = End
      BY DEF Touches, next
    <3>2. b + m[b].size \notin F
      <4> SUFFICES ASSUME b + m[b].size \in F PROVE FALSE
        OBVIOUS
      <4>1. b + m[b].size > b
        BY <1>1, UnitsLemma
      <4>2. next <= b + m[b].size
        BY <1>1, <4>1
      <4>3. b + m[b].size = next
        BY <1>1, <4>2
      <4> QED
        BY <1>2, <3>1, <4>3
    <3> QED
      BY <1>1, <2>1, <3>2
  <2>2. CASE c \in F
    <3>1. c + m[c].size \notin F
      BY <2>2 DEF Separate, F
    <3>2. c + m[c].size # b
      BY <2>2, NotJoined DEF F
    <3> QED
      BY <3>1, <3>2
  <2> QED
    BY <2>1, <2>2
<1>14. \A u \in 0..End : u \notin F \union {b} => m2[u] = m[u]
  <2>1. i \in 0..End => i \in F
    BY <1>1, <1>2, UnitsLemma DEF Start
  <2> QED
    BY <1>5, <2>1
<1> QED
  BY <1>12, <1>13, <1>14 DEF F, InOrder

LEMMA InsertBefore ==
  ASSUME NEW m, NEW s, NEW U, HeapOK(m, s, U), Separate(m), NEW b \in U,
         NEW h, h = InsertBlockIntoFreeList(m, s, b),
         ~Joins(m, s, b), Touches(m, s, b)
  PROVE  InOrder(m, s, U, b, h)
<1> DEFINE F == FreeIn(m)
           i == Before(m, s, b)
           next == Behind(m, s, b)
           m2 == h.mem
           s2 == h.start
<1>1. /\ b \in (0..End-1) \ F /\ b \in Int /\ i \in F \union {Start} /\ i < b /\ i \in Int
      /\ next \in F \union {End} /\ b < next /\ next \in Int
      /\ m[b].size \in 1..Units /\ m[b].size \in Int /\ b + m[b].size <= next
      /\ b + m[b].size <= End
      /\ \A c \in F : c <= i \/ next <= c
  BY PlaceLemma, HeapFacts, UnitsLemma
<1>2. /\ F \in SUBSET (0..End-1) /\ F \union U \in SUBSET (0..End-1) /\ U \in SUBSET (0..End-1)
      /\ F \intersect U = {} /\ m \in [0..End -> Unit] /\ s \in 0..End
      /\ \A a \in F : /\ a \in Int /\ m[a].size \in 1..Units /\ m[a].size \in Int /\ m[a].next \in 0..End
                     /\ NextOf(m, s, a) = m[a].next /\ a # Start /\ a # End
  <2>1. \A a \in F : m[a].next \in 0..End
    BY UnitsLemma DEF HeapOK, Unit, FreeIn
  <2>2. \A a \in F : NextOf(m, s, a) = m[a].next /\ a # Start /\ a # End
    BY UnitsLemma DEF FreeIn, NextOf, Start
  <2> QED
    BY <2>1, <2>2, HeapFacts DEF HeapOK
<1> HIDE DEF i, next, F
<1>3. /\ s2 = (IF i = Start THEN b ELSE s)
      /\ m2 = [u \in 0..End |-> IF u = b THEN Header(m[next].next, m[b].size + m[next].size, FALSE)
                                ELSE IF u = next THEN Raw
                                ELSE IF u = i THEN [m[u] EXCEPT !.next = b]
                                ELSE m[u]]
  <2>1. m2 = Inserted(m, s, b) /\ s2 = IF i = Start THEN b ELSE s
    BY InsertForm DEF i
  <2> QED
    BY <2>1 DEF Inserted, i, next
<1> DEFINE F2 == (F \union {b}) \ {next}
<1>4. /\ next \in F /\ b + m[b].size = next /\ next # b /\ next # i
      /\ next + m[next].size <= End /\ m[next].size \in 1..Units /\ m[next].size \in Int
  <2>1. b + m[b].size = next /\ next # End
    BY DEF Touches, next
  <2>2. next \in F
    BY <1>1, <2>1
  <2>3. next + m[next].size <= End
    BY <2>2, HeapFacts DEF F
  <2> QED
    BY <1>1, <1>2, <2>1, <2>2, <2>3
<1>5. m2 \in [0..End -> Unit] /\ s2 \in 0..End
  <2>1. Header(m[next].next, m[b].size + m[next].size, FALSE) \in Unit
    <3>1. m[b].size + m[next].size \in 0..Units /\ m[next].next \in 0..End
      BY <1>1, <1>2, <1>4, UnitsLemma
    <3> QED
      BY <3>1 DEF Header, Unit
  <2>2. \A u \in 0..End : [m[u] EXCEPT !.next = b] \in Unit
    BY <1>1, <1>2, UnitsLemma DEF Unit
  <2>3. b \in 0..End /\ Raw \in Unit
    BY <1>1, UnitsLemma DEF Raw, Data, Unit
  <2>4. m \in [0..End -> Unit] /\ s \in 0..End
    BY <1>2
  <2>5. m2 \in [0..End -> Unit]
    BY <1>3, <2>1, <2>2, <2>3, <2>4
  <2>6. s2 \in 0..End
    BY <1>3, <2>3, <2>4
  <2> QED
    BY <2>5, <2>6
<1>6. \A u \in 0..End :
        /\ m2[u].next = IF u = b THEN m[next].next ELSE IF u = next THEN NULL
                        ELSE IF u = i THEN b ELSE m[u].next
        /\ m2[u].size = IF u = b THEN m[b].size + m[next].size ELSE IF u = next THEN 0 ELSE m[u].size
        /\ u \notin {b, i, next} => m2[u] = m[u]
        /\ u # next => m2[u].data = IF u = b THEN "header" ELSE m[u].data
        /\ u # next => m2[u].alloc = IF u = b THEN FALSE ELSE m[u].alloc
  <2> TAKE u \in 0..End
  <2>1. CASE u = b
    <3>1. m2[u] = Header(m[next].next, m[b].size + m[next].size, FALSE)
      BY <1>3, <2>1
    <3> QED
      BY <1>1, <1>4, <2>1, <3>1 DEF Header
  <2>2. CASE u = next
    <3>1. m2[u] = Raw
      BY <1>3, <1>4, <2>2
    <3> QED
      BY <1>4, <2>2, <3>1 DEF Raw, Data
  <2>3. CASE u # b /\ u # next /\ u = i
    <3>1. m2[u] = [m[u] EXCEPT !.next = b] /\ m[u] \in Unit
      BY <1>2, <1>3, <2>3
    <3> QED
      BY <2>3, <3>1 DEF Unit
  <2>4. CASE u # b /\ u # next /\ u # i
    BY <1>3, <2>4
  <2> QED
    BY <2>1, <2>2, <2>3, <2>4
<1>7. FreeIn(m2) = F2
  <2>1. m[next].next # NULL /\ b # NULL
    BY <1>1, <1>2, <1>4, UnitsLemma DEF NULL
  <2>2. \A a \in 0..End-1 : a \in 0..End
    BY UnitsLemma
  <2>3. \A a \in 0..End-1 : m2[a].next # NULL <=> a # next /\ (a = b \/ a = i \/ m[a].next # NULL)
    BY <1>4, <1>6, <2>1, <2>2
  <2>4. i \in 0..End-1 => i \in F
    BY <1>1, <1>2, UnitsLemma DEF Start
  <2>5. F = {a \in 0..End-1 : m[a].next # NULL}
    BY DEF F, FreeIn
  <2> QED
    BY <1>1, <2>3, <2>4, <2>5 DEF FreeIn
<1>8. \A a \in F2 \union {Start} :
        NextOf(m2, s2, a) = IF a = i THEN b ELSE IF a = b THEN NextOf(m, s, next) ELSE NextOf(m, s, a)
  <2>1. b # Start /\ \A a \in F2 : a # Start /\ a \in 0..End /\ a # next
    BY <1>1, <1>2, UnitsLemma DEF Start
  <2>2. NextOf(m, s, next) = m[next].next
    BY <1>2, <1>4
  <2> QED
    BY <1>1, <1>3, <1>6, <2>1, <2>2 DEF NextOf
<1>9. Chain(F2, Links(m2, s2))
  <2>1. \A a \in F \union {b} \union {Start} : a \in Start..End
    BY <1>1, <1>2, UnitsLemma DEF Start
  <2>2. \A a \in F2 \union {Start} : Links(m2, s2)[a] = NextOf(m2, s2, a)
    BY <2>1 DEF Links
  <2>3. \A a \in F \union {Start} : Links(m, s)[a] = NextOf(m, s, a)
    BY <2>1 DEF Links
  <2>4. Chain(F, Links(m, s))
    BY DEF HeapOK, F
  <2>5. b # i /\ NextOf(m, s, i) = next /\ b \notin F \union {Start} /\ next # Start
    BY <1>1, <1>2, <1>4, UnitsLemma DEF i, next, Behind, Start
  <2> DEFINE L == Links(m, s)
             L1 == [a \in Start..End |-> IF a = i THEN b ELSE IF a = b THEN next ELSE L[a]]
             L2 == Links(m2, s2)
  <2>6. /\ F \in SUBSET (0..End-1) /\ i \in F \union {Start} /\ b \in 0..End-1
        /\ i < b /\ b < L[i] /\ L1[i] = b /\ L1[b] = L[i]
        /\ \A a \in (F \union {Start}) \ {i} : L1[a] = L[a]
    BY <1>1, <1>2, <2>1, <2>3, <2>5
  <2>7. /\ F \union {b} \in SUBSET (0..End-1) /\ b \in (F \union {b}) \union {Start}
        /\ L1[b] = next /\ next \in F \union {b}
    BY <1>1, <1>2, <1>4, <2>1, <2>5, <2>6
  <2>8. L2[b] = L1[next]
    <3>1. L1[next] = NextOf(m, s, next)
      BY <1>4, <2>1, <2>3
    <3>2. b \in F2
      BY <1>4
    <3> QED
      BY <1>8, <2>2, <2>5, <3>1, <3>2
  <2>9. \A a \in ((F \union {b}) \union {Start}) \ {b, next} : L2[a] = L1[a]
    <3> TAKE a \in ((F \union {b}) \union {Start}) \ {b, next}
    <3>1. a \in F2 \union {Start} /\ a \in F \union {Start} /\ a # b
      OBVIOUS
    <3> QED
      BY <1>8, <2>1, <2>2, <2>3, <3>1
  <2> HIDE DEF L, L1, L2, F2
  <2>10. Chain(F \union {b}, L1)
    BY <2>4, <2>6, ChainInsert DEF L
  <2>11. Chain((F \union {b}) \ {next}, L2)
    <3> HIDE DEF m2, s2
    <3> QED
      BY <2>7, <2>8, <2>9, <2>10, ChainRemove
  <2> QED
    BY <2>11 DEF L2, F2
<1>10. Tiles(F2 \union (U \ {b}), Sizes(m2))
  <2>1. next \notin U /\ next # b
    BY <1>1, <1>2, <1>4
  <2>2. F2 \union (U \ {b}) = (F \union U) \ {next}
    BY <2>1
  <2>3. \A c \in F \union U : c \in 0..End
    BY <1>2, UnitsLemma
  <2> DEFINE S == Sizes(m)
             S2 == Sizes(m2)
  <2>4. /\ b + S[b] = next /\ S2[b] = S[b] + S[next]
        /\ \A c \in (F \union U) \ {b, next} : S2[c] = S[c]
    BY <1>4, <1>6, <2>1, <2>3 DEF Sizes
  <2>5. Tiles(F \union U, S) /\ F \union U \in SUBSET (0..End-1)
    BY <1>2 DEF HeapOK, F
  <2> HIDE DEF S, S2
  <2>6. Tiles((F \union U) \ {next}, S2)
    BY <1>4, <2>4, <2>5, TilesJoin
  <2> QED
    BY <2>2, <2>6 DEF S2
<1>11. \A c \in F2 \union (U \ {b}) : IsHeader(m2[c])
  <2>1. \A c \in F \union U : c \in 0..End /\ IsHeader(m[c])
    BY <1>2, UnitsLemma DEF HeapOK, F
  <2>2. next \notin U
    BY <1>2, <1>4
  <2> QED
    BY <1>1, <1>6, <2>1, <2>2 DEF IsHeader
<1>12. \A c \in F2 : ~m2[c].alloc
  <2>1. \A c \in F \union {b} : c \in 0..End
    BY <1>1, <1>2, UnitsLemma
  <2>2. \A c \in F : ~m[c].alloc
    BY DEF HeapOK, F
  <2> QED
    BY <1>6, <2>1, <2>2
<1>13. HeapOK(m2, s2, U \ {b})
  BY <1>1, <1>2, <1>5, <1>7, <1>9, <1>10, <1>11, <1>12 DEF HeapOK
<1>14. Separate(m2)
  <2>1. F \union {b} \subseteq 0..End
    BY <1>1, <1>2, UnitsLemma
  <2> SUFFICES ASSUME NEW c \in F2
               PROVE  c + m2[c].size \notin F2
    BY <1>7 DEF Separate
  <2>2. CASE c = b
    <3>1. c + m2[c].size = next + m[next].size
      <4>1. m2[b].size = m[b].size + m[next].size
        BY <1>6, <2>1
      <4> QED
        BY <1>1, <1>4, <2>2, <4>1
    <3>2. next + m[next].size \notin F
      BY <1>4 DEF Separate, F
    <3>3. next + m[next].size # b
      BY <1>1, <1>4
    <3> QED
      BY <3>1, <3>2, <3>3
  <2>3. CASE c \in F
    <3>1. m2[c].size = m[c].size /\ c # b
      BY <1>1, <1>6, <2>1, <2>3
    <3>2. c + m[c].size \notin F
      BY <2>3 DEF Separate, F
    <3>3. c + m[c].size # b
      BY <2>3, NotJoined DEF F
    <3> QED
      BY <3>1, <3>2, <3>3
  <2> QED
    BY <2>2, <2>3
<1>15. \A u \in 0..End : u \notin F \union {b} => m2[u] = m[u]
  <2>1. i \in 0..End => i \in F
    BY <1>1, <1>2, UnitsLemma DEF Start
  <2> QED
    BY <1>4, <1>6, <2>1
<1> QED
  BY <1>13, <1>14, <1>15 DEF F, InOrder

LEMMA InsertBehind ==
  ASSUME NEW m, NEW s, NEW U, HeapOK(m, s, U), Separate(m), NEW b \in U,
         NEW h, h = InsertBlockIntoFreeList(m, s, b),
         Joins(m, s, b), ~Touches(m, s, b)
  PROVE  InOrder(m, s, U, b, h)
<1> DEFINE F == FreeIn(m)
           i == Before(m, s, b)
           next == Behind(m, s, b)
           m2 == h.mem
           s2 == h.start
<1>1. /\ b \in (0..End-1) \ F /\ b \in Int /\ i \in F \union {Start} /\ i < b /\ i \in Int
      /\ next \in F \union {End} /\ b < next /\ next \in Int
      /\ m[b].size \in 1..Units /\ m[b].size \in Int /\ b + m[b].size <= next
      /\ b + m[b].size <= End
      /\ \A c \in F : c <= i \/ next <= c
  BY PlaceLemma, HeapFacts, UnitsLemma
<1>2. /\ F \in SUBSET (0..End-1) /\ F \union U \in SUBSET (0..End-1) /\ U \in SUBSET (0..End-1)
      /\ F \intersect U = {} /\ m \in [0..End -> Unit] /\ s \in 0..End
      /\ \A a \in F : /\ a \in Int /\ m[a].size \in 1..Units /\ m[a].size \in Int /\ m[a].next \in 0..End
                     /\ NextOf(m, s, a) = m[a].next /\ a # Start /\ a # End
  <2>1. \A a \in F : m[a].next \in 0..End
    BY UnitsLemma DEF HeapOK, Unit, FreeIn
  <2>2. \A a \in F : NextOf(m, s, a) = m[a].next /\ a # Start /\ a # End
    BY UnitsLemma DEF FreeIn, NextOf, Start
  <2> QED
    BY <2>1, <2>2, HeapFacts DEF HeapOK
<1> HIDE DEF i, next, F
<1>3. /\ i \in F /\ i + m[i].size = b /\ m[i].size \in 1..Units /\ m[i].size \in Int
      /\ i # b /\ i # Start /\ i \in 0..End /\ m[i].next = next
  <2>1. i # Start /\ i + m[i].size = b
    BY DEF Joins, i
  <2>2. i \in F
    BY <1>1, <2>1
  <2>3. NextOf(m, s, i) = next
    BY DEF i, next, Behind
  <2> QED
    BY <1>1, <1>2, <2>1, <2>2, <2>3, UnitsLemma
<1>4. /\ s2 = s
      /\ m2 = [u \in 0..End |-> IF u = i THEN Header(next, m[i].size + m[b].size, FALSE)
                                ELSE IF u = b THEN Raw
                                ELSE m[u]]
  <2>1. m2 = Inserted(m, s, b) /\ s2 = IF i = Start THEN b ELSE s
    BY InsertForm DEF i
  <2> QED
    BY <1>3, <2>1 DEF Inserted, i, next
<1>5. m2 \in [0..End -> Unit] /\ s2 \in 0..End
  <2>1. Header(next, m[i].size + m[b].size, FALSE) \in Unit
    <3>1. m[i].size + m[b].size \in 0..Units /\ next \in 0..End
      BY <1>1, <1>2, <1>3, UnitsLemma
    <3> QED
      BY <3>1 DEF Header, Unit
  <2>2. Raw \in Unit
    BY UnitsLemma DEF Raw, Data, Unit
  <2> QED
    BY <1>2, <1>4, <2>1, <2>2
<1>6. \A u \in 0..End :
        /\ m2[u].next = IF u = b THEN NULL ELSE m[u].next
        /\ m2[u].size = IF u = i THEN m[i].size + m[b].size ELSE IF u = b THEN 0 ELSE m[u].size
        /\ u \notin {b, i} => m2[u] = m[u]
        /\ u # b => m2[u].data = IF u = i THEN "header" ELSE m[u].data
        /\ u # b => m2[u].alloc = IF u = i THEN FALSE ELSE m[u].alloc
  <2> TAKE u \in 0..End
  <2>1. CASE u = i
    <3>1. m2[u] = Header(next, m[i].size + m[b].size, FALSE)
      BY <1>4, <2>1
    <3> QED
      BY <1>3, <2>1, <3>1 DEF Header
  <2>2. CASE u = b
    <3>1. m2[u] = Raw
      BY <1>3, <1>4, <2>2
    <3> QED
      BY <1>3, <2>2, <3>1 DEF Raw, Data
  <2>3. CASE u # b /\ u # i
    BY <1>4, <2>3
  <2> QED
    BY <2>1, <2>2, <2>3
<1>7. FreeIn(m2) = F
  <2>1. \A a \in 0..End-1 : a \in 0..End
    BY UnitsLemma
  <2>2. F = {a \in 0..End-1 : m[a].next # NULL}
    BY DEF F, FreeIn
  <2>3. \A a \in 0..End-1 : m2[a].next # NULL <=> a # b /\ m[a].next # NULL
    BY <1>6, <2>1
  <2> QED
    BY <1>1, <2>2, <2>3 DEF FreeIn
<1>8. Chain(F, Links(m2, s2))
  <2>1. \A a \in F \union {Start} : a \in Start..End
    BY <1>2, UnitsLemma DEF Start
  <2>2. \A a \in F : a \in 0..End /\ a # b /\ a # Start
    BY <1>1, <1>2, UnitsLemma
  <2>3. \A a \in F \union {Start} : NextOf(m2, s2, a) = NextOf(m, s, a)
    BY <1>4, <1>6, <2>2 DEF NextOf
  <2>4. \A a \in F \union {Start} : Links(m2, s2)[a] = Links(m, s)[a]
    BY <2>1, <2>3 DEF Links
  <2>5. Chain(F, Links(m, s))
    BY DEF HeapOK, F
  <2> QED
    BY <2>4, <2>5 DEF Chain
<1>9. Tiles(F \union (U \ {b}), Sizes(m2))
  <2>1. F \union (U \ {b}) = (F \union U) \ {b}
    BY <1>1
  <2>2. \A c \in F \union U : c \in 0..End
    BY <1>2, UnitsLemma
  <2> DEFINE S == Sizes(m)
             S2 == Sizes(m2)
  <2>3. /\ i + S[i] = b /\ S2[i] = S[i] + S[b]
        /\ \A c \in (F \union U) \ {i, b} : S2[c] = S[c]
    BY <1>3, <1>6, <2>2 DEF Sizes
  <2>4. Tiles(F \union U, S) /\ F \union U \in SUBSET (0..End-1)
    BY <1>2 DEF HeapOK, F
  <2> HIDE DEF S, S2
  <2>5. i \in F \union U /\ b \in F \union U
    BY <1>3
  <2> DEFINE B == F \union U
  <2>6. /\ B \in SUBSET (0..End-1) /\ Tiles(B, S) /\ i \in B /\ b \in B
        /\ \A c \in B \ {i, b} : S2[c] = S[c]
    BY <2>3, <2>4, <2>5
  <2> HIDE DEF B
  <2>7. Tiles(B \ {b}, S2)
    BY <2>3, <2>6, TilesJoin
  <2> QED
    BY <2>1, <2>7 DEF S2, B
<1>10. \A c \in F \union (U \ {b}) : IsHeader(m2[c])
  <2>1. \A c \in F \union U : c \in 0..End /\ IsHeader(m[c])
    BY <1>2, UnitsLemma DEF HeapOK, F
  <2> QED
    BY <1>1, <1>6, <2>1 DEF IsHeader
<1>11. \A c \in F : ~m2[c].alloc
  <2>1. \A c \in F : c \in 0..End /\ c # b
    BY <1>1, <1>2, UnitsLemma
  <2>2. \A c \in F : ~m[c].alloc
    BY DEF HeapOK, F
  <2> QED
    BY <1>6, <2>1, <2>2
<1>12. HeapOK(m2, s2, U \ {b})
  BY <1>1, <1>2, <1>5, <1>7, <1>8, <1>9, <1>10, <1>11 DEF HeapOK
<1>13. Separate(m2)
  <2> SUFFICES ASSUME NEW c \in F
               PROVE  c + m2[c].size \notin F
    BY <1>7 DEF Separate
  <2>1. c \in 0..End /\ c # b
    BY <1>1, <1>2, UnitsLemma
  <2>2. CASE c = i
    <3>1. c + m2[c].size = b + m[b].size
      <4>1. m2[i].size = m[i].size + m[b].size
        BY <1>3, <1>6
      <4> QED
        BY <1>1, <1>3, <2>2, <4>1
    <3>2. b + m[b].size # next \/ next = End
      BY DEF Touches, next
    <3> SUFFICES ASSUME b + m[b].size \in F PROVE FALSE
      BY <3>1
    <3>3. b + m[b].size > b
      BY <1>1, UnitsLemma
    <3>4. next <= b + m[b].size
      BY <1>1, <3>3
    <3>5. b + m[b].size = next
      BY <1>1, <3>4
    <3> QED
      BY <1>2, <3>2, <3>5
  <2>3. CASE c # i
    BY <1>6, <2>1, <2>3 DEF Separate, F
  <2> QED
    BY <2>2, <2>3
<1>14. \A u \in 0..End : u \notin F \union {b} => m2[u] = m[u]
  BY <1>3, <1>6
<1> QED
  BY <1>12, <1>13, <1>14 DEF F, InOrder

LEMMA InsertBetween ==
  ASSUME NEW m, NEW s, NEW U, HeapOK(m, s, U), Separate(m), NEW b \in U,
         NEW h, h = InsertBlockIntoFreeList(m, s, b),
         Joins(m, s, b), Touches(m, s, b)
  PROVE  InOrder(m, s, U, b, h)
<1> DEFINE F == FreeIn(m)
           i == Before(m, s, b)
           next == Behind(m, s, b)
           m2 == h.mem
           s2 == h.start
<1>1. /\ b \in (0..End-1) \ F /\ b \in Int /\ i \in F \union {Start} /\ i < b /\ i \in Int
      /\ next \in F \union {End} /\ b < next /\ next \in Int
      /\ m[b].size \in 1..Units /\ m[b].size \in Int /\ b + m[b].size <= next
      /\ b + m[b].size <= End
      /\ \A c \in F : c <= i \/ next <= c
  BY PlaceLemma, HeapFacts, UnitsLemma
<1>2. /\ F \in SUBSET (0..End-1) /\ F \union U \in SUBSET (0..End-1) /\ U \in SUBSET (0..End-1)
      /\ F \intersect U = {} /\ m \in [0..End -> Unit] /\ s \in 0..End
      /\ \A a \in F : /\ a \in Int /\ m[a].size \in 1..Units /\ m[a].size \in Int /\ m[a].next \in 0..End
                     /\ NextOf(m, s, a) = m[a].next /\ a # Start /\ a # End
  <2>1. \A a \in F : m[a].next \in 0..End
    BY UnitsLemma DEF HeapOK, Unit, FreeIn
  <2>2. \A a \in F : NextOf(m, s, a) = m[a].next /\ a # Start /\ a # End
    BY UnitsLemma DEF FreeIn, NextOf, Start
  <2> QED
    BY <2>1, <2>2, HeapFacts DEF HeapOK
<1> HIDE DEF i, next, F
<1>3. /\ i \in F /\ i + m[i].size = b /\ m[i].size \in 1..Units /\ m[i].size \in Int
      /\ i # b /\ i # Start /\ i \in 0..End /\ m[i].next = next
  <2>1. i # Start /\ i + m[i].size = b
    BY DEF Joins, i
  <2>2. i \in F
    BY <1>1, <2>1
  <2>3. NextOf(m, s, i) = next
    BY DEF i, next, Behind
  <2> QED
    BY <1>1, <1>2, <2>1, <2>2, <2>3, UnitsLemma
<1>4. /\ next \in F /\ b + m[b].size = next /\ next # b /\ next # i /\ next \in 0..End
      /\ next + m[next].size <= End /\ m[next].size \in 1..Units /\ m[next].size \in Int
  <2>1. b + m[b].size = next /\ next # End
    BY DEF Touches, next
  <2>2. next \in F
    BY <1>1, <2>1
  <2>3. next + m[next].size <= End
    BY <2>2, HeapFacts DEF F
  <2> QED
    BY <1>1, <1>2, <2>1, <2>2, <2>3, UnitsLemma
<1> DEFINE F2 == F \ {next}
           total == m[i].size + m[b].size + m[next].size
<1>5. /\ s2 = s
      /\ m2 = [u \in 0..End |-> IF u = i THEN Header(m[next].next, total, FALSE)
                                ELSE IF u = b \/ u = next THEN Raw
                                ELSE m[u]]
  <2>1. m2 = Inserted(m, s, b) /\ s2 = IF i = Start THEN b ELSE s
    BY InsertForm DEF i
  <2> QED
    BY <1>3, <2>1 DEF Inserted, i, next
<1>6. m2 \in [0..End -> Unit] /\ s2 \in 0..End
  <2>1. Header(m[next].next, total, FALSE) \in Unit
    <3>1. total \in 0..Units
      <4>1. /\ i \in Int /\ 0 <= i /\ i + m[i].size = b /\ b + m[b].size = next
            /\ next + m[next].size <= End /\ End = Units /\ Units \in Int
            /\ m[i].size \in Int /\ m[b].size \in Int /\ m[next].size \in Int
            /\ m[i].size >= 0 /\ m[b].size >= 0 /\ m[next].size >= 0
        BY <1>1, <1>3, <1>4, UnitsLemma
      <4> QED
        BY <4>1
    <3>2. m[next].next \in 0..End
      BY <1>2, <1>4
    <3> HIDE DEF total
    <3> QED
      BY <3>1, <3>2 DEF Header, Unit
  <2>2. Raw \in Unit
    BY UnitsLemma DEF Raw, Data, Unit
  <2> QED
    BY <1>2, <1>5, <2>1, <2>2
<1>7. \A u \in 0..End :
        /\ m2[u].next = IF u = i THEN m[next].next ELSE IF u = b \/ u = next THEN NULL ELSE m[u].next
        /\ m2[u].size = IF u = i THEN total ELSE IF u = b \/ u = next THEN 0 ELSE m[u].size
        /\ u \notin {b, i, next} => m2[u] = m[u]
        /\ u \notin {b, next} => m2[u].data = IF u = i THEN "header" ELSE m[u].data
        /\ u \notin {b, next} => m2[u].alloc = IF u = i THEN FALSE ELSE m[u].alloc
  <2> HIDE DEF total
  <2> TAKE u \in 0..End
  <2>1. CASE u = i
    <3>1. m2[u] = Header(m[next].next, total, FALSE)
      BY <1>5, <2>1
    <3> QED
      BY <1>3, <1>4, <2>1, <3>1 DEF Header
  <2>2. CASE u = b \/ u = next
    <3>1. m2[u] = Raw /\ u # i
      BY <1>3, <1>4, <1>5, <2>2
    <3>2. m2[u].next = NULL /\ m2[u].size = 0
      BY <3>1 DEF Raw, Data
    <3> QED
      BY <2>2, <3>1, <3>2
  <2>3. CASE u # b /\ u # i /\ u # next
    BY <1>5, <2>3
  <2> QED
    BY <2>1, <2>2, <2>3
<1>8. FreeIn(m2) = F2
  <2>1. \A a \in 0..End-1 : a \in 0..End
    BY UnitsLemma
  <2>2. F = {a \in 0..End-1 : m[a].next # NULL}
    BY DEF F, FreeIn
  <2>3. m[next].next # NULL
    BY <1>2, <1>4, UnitsLemma DEF NULL
  <2>4. \A a \in 0..End-1 : m2[a].next # NULL <=> a # b /\ a # next /\ m[a].next # NULL
    BY <1>3, <1>4, <1>7, <2>1, <2>2, <2>3
  <2> QED
    BY <1>1, <2>2, <2>4 DEF FreeIn
<1>9. Chain(F2, Links(m2, s2))
  <2>1. \A a \in F \union {Start} : a \in Start..End
    BY <1>2, UnitsLemma DEF Start
  <2>2. \A a \in F : a \in 0..End /\ a # b /\ a # Start
    BY <1>1, <1>2, UnitsLemma
  <2>3. \A a \in F2 \union {Start} :
          NextOf(m2, s2, a) = IF a = i THEN m[next].next ELSE NextOf(m, s, a)
    BY <1>3, <1>5, <1>7, <2>2 DEF NextOf
  <2>4. /\ \A a \in F2 \union {Start} : Links(m2, s2)[a] = NextOf(m2, s2, a)
        /\ \A a \in F \union {Start} : Links(m, s)[a] = NextOf(m, s, a)
    BY <2>1 DEF Links
  <2> DEFINE L == Links(m, s)
             L2 == Links(m2, s2)
  <2>5. L[i] = next /\ i \in F \union {Start} /\ L[i] \in F /\ F \in SUBSET (0..End-1)
    BY <1>2, <1>3, <1>4, <2>4
  <2>6. L2[i] = L[next]
    BY <1>2, <1>3, <1>4, <2>3, <2>4
  <2>7. \A a \in (F \union {Start}) \ {i, next} : L2[a] = L[a]
    BY <2>3, <2>4
  <2>8. Chain(F, L)
    BY DEF HeapOK, F
  <2> HIDE DEF L, L2, F2
  <2>9. Chain(F \ {next}, L2)
    <3> HIDE DEF m2, s2
    <3> QED
      BY <2>5, <2>6, <2>7, <2>8, ChainRemove
  <2> QED
    BY <2>9 DEF L2, F2
<1>10. Tiles(F2 \union (U \ {b}), Sizes(m2))
  <2>1. F2 \union (U \ {b}) = ((F \union U) \ {b}) \ {next}
    BY <1>1, <1>2, <1>4
  <2>2. \A c \in F \union U : c \in 0..End
    BY <1>2, UnitsLemma
  <2> DEFINE B == F \union U
             S == Sizes(m)
             S1 == [Sizes(m) EXCEPT ![i] = m[i].size + m[b].size]
             S2 == Sizes(m2)
  <2>3. /\ B \in SUBSET (0..End-1) /\ i \in B /\ b \in B /\ i + S[i] = b /\ S1[i] = S[i] + S[b]
        /\ \A c \in B \ {i, b} : S1[c] = S[c]
    BY <1>2, <1>3, <2>2 DEF Sizes
  <2>4. Tiles(B, S)
    BY DEF HeapOK, F
  <2>5. /\ B \ {b} \in SUBSET (0..End-1) /\ i \in B \ {b} /\ next \in B \ {b}
    BY <1>3, <1>4, <2>3
  <2>6. i + S1[i] = next
    BY <1>1, <1>3, <1>4 DEF Sizes
  <2>7. S1[next] = m[next].size /\ S1[i] = m[i].size + m[b].size
    BY <1>3, <1>4 DEF Sizes
  <2>8. S2[i] = S1[i] + S1[next]
    BY <1>1, <1>3, <1>4, <1>7, <2>7 DEF Sizes
  <2>9. \A c \in (B \ {b}) \ {i, next} : S2[c] = S1[c]
    BY <1>7, <2>2 DEF Sizes
  <2> HIDE DEF B, S, S1, S2
  <2>10. Tiles(B \ {b}, S1)
    BY <2>3, <2>4, TilesJoin
  <2> DEFINE B1 == B \ {b}
  <2>11. /\ B1 \in SUBSET (0..End-1) /\ Tiles(B1, S1) /\ i \in B1 /\ next \in B1
         /\ \A c \in B1 \ {i, next} : S2[c] = S1[c]
    BY <2>5, <2>9, <2>10
  <2> HIDE DEF B1
  <2>12. Tiles(B1 \ {next}, S2)
    BY <2>6, <2>8, <2>11, TilesJoin
  <2> QED
    BY <2>1, <2>12 DEF S2, B, B1
<1>11. \A c \in F2 \union (U \ {b}) : IsHeader(m2[c])
  <2>1. \A c \in F \union U : c \in 0..End /\ IsHeader(m[c])
    BY <1>2, UnitsLemma DEF HeapOK, F
  <2>2. \A c \in F2 \union (U \ {b}) : c \notin {b, next}
    BY <1>1, <1>2, <1>4
  <2> QED
    BY <1>7, <2>1, <2>2 DEF IsHeader
<1>12. \A c \in F2 : ~m2[c].alloc
  <2>1. \A c \in F : c \in 0..End /\ c # b
    BY <1>1, <1>2, UnitsLemma
  <2>2. \A c \in F : ~m[c].alloc
    BY DEF HeapOK, F
  <2> QED
    BY <1>7, <2>1, <2>2
<1>13. HeapOK(m2, s2, U \ {b})
  BY <1>1, <1>2, <1>6, <1>8, <1>9, <1>10, <1>11, <1>12 DEF HeapOK
<1>14. Separate(m2)
  <2> SUFFICES ASSUME NEW c \in F2
               PROVE  c + m2[c].size \notin F2
    BY <1>8 DEF Separate
  <2>1. c \in F /\ c \in 0..End /\ c # b /\ c # next
    BY <1>1, <1>2, UnitsLemma
  <2>2. CASE c = i
    <3>1. c + m2[c].size = next + m[next].size
      <4>1. m2[i].size = m[i].size + m[b].size + m[next].size
        BY <1>3, <1>7
      <4> QED
        BY <1>1, <1>3, <1>4, <2>2, <4>1
    <3> QED
      BY <1>4, <3>1 DEF Separate, F
  <2>3. CASE c # i
    BY <1>7, <2>1, <2>3 DEF Separate, F
  <2> QED
    BY <2>2, <2>3
<1>15. \A u \in 0..End : u \notin F \union {b} => m2[u] = m[u]
  BY <1>3, <1>4, <1>7
<1> QED
  BY <1>13, <1>14, <1>15 DEF F, InOrder

\* prvInsertBlockIntoFreeList keeps the heap in order and the free memory merged, and
\* touches nothing but the headers of free blocks and of the one it inserts.
LEMMA InsertLemma ==
  ASSUME NEW m, NEW s, NEW U, HeapOK(m, s, U), Separate(m), NEW b \in U,
         NEW h, h = InsertBlockIntoFreeList(m, s, b)
  PROVE  InOrder(m, s, U, b, h)
<1>1. CASE Joins(m, s, b) /\ Touches(m, s, b)
  BY <1>1, InsertBetween, Zenon
<1>2. CASE Joins(m, s, b) /\ ~Touches(m, s, b)
  BY <1>2, InsertBehind, Zenon
<1>3. CASE ~Joins(m, s, b) /\ Touches(m, s, b)
  BY <1>3, InsertBefore, Zenon
<1>4. CASE ~Joins(m, s, b) /\ ~Touches(m, s, b)
  BY <1>4, InsertApart, Zenon
<1> QED
  BY <1>1, <1>2, <1>3, <1>4, Zenon

-----------------------------------------------------------------------------
(* Taking blocks off the list, splitting them and writing into them *)

\* The units of one block are in no other, and have no headers but the first.
LEMMA InsideLemma ==
  ASSUME NEW m, NEW s, NEW U, HeapOK(m, s, U), NEW b \in FreeIn(m) \union U,
         NEW u \in b .. b + m[b].size - 1
  PROVE  /\ u \in 0..End-1 /\ u \in Int
         /\ u # b => u \notin FreeIn(m) \union U
         /\ \A c \in FreeIn(m) \union U : c # b => u \notin c .. c + m[c].size - 1
<1>1. /\ b \in Int /\ 0 <= b /\ m[b].size \in Int /\ b + m[b].size <= End /\ u \in Int /\ b <= u
      /\ u < b + m[b].size /\ End \in Int
  BY HeapFacts, UnitsLemma
<1>2. ASSUME NEW c \in FreeIn(m) \union U, c # b
      PROVE  u \notin c .. c + m[c].size - 1
  <2>1. c \in Int /\ m[c].size \in Int
    BY HeapFacts
  <2>2. CASE b < c
    <3>1. b + m[b].size <= c
      BY <2>2, HeapFacts
    <3> QED
      BY <1>1, <2>1, <3>1
  <2>3. CASE c < b
    <3>1. c + m[c].size <= b
      BY <2>3, HeapFacts
    <3> QED
      BY <1>1, <2>1, <3>1
  <2> QED
    BY <1>1, <1>2, <2>1, <2>2, <2>3
<1>3. ASSUME u # b, u \in FreeIn(m) \union U PROVE FALSE
  <2>1. u \notin u .. u + m[u].size - 1
    BY <1>2, <1>3
  <2>2. m[u].size \in Int /\ m[u].size >= 1
    BY <1>3, HeapFacts, UnitsLemma
  <2> QED
    BY <1>1, <2>1, <2>2
<1>4. u \in 0..End-1
  BY <1>1
<1> QED
  BY <1>1, <1>2, <1>3, <1>4, Zenon

\* Writes that leave the links, the sizes and the free blocks alone.
LEMMA WriteLemma ==
  ASSUME NEW m, NEW s, NEW U, HeapOK(m, s, U), NEW m2 \in [0..End -> Unit],
         \A u \in 0..End : m2[u].next = m[u].next,
         \A b \in FreeIn(m) \union U : m2[b].size = m[b].size /\ IsHeader(m2[b]),
         \A b \in FreeIn(m) : m2[b] = m[b]
  PROVE  /\ HeapOK(m2, s, U) /\ FreeIn(m2) = FreeIn(m)
         /\ Separate(m) => Separate(m2)
<1>1. FreeIn(m2) = FreeIn(m)
  BY UnitsLemma DEF FreeIn
<1>2. Links(m2, s) = Links(m, s)
  <2>1. \A a \in Start..End : NextOf(m2, s, a) = NextOf(m, s, a)
    BY UnitsLemma DEF NextOf, Start
  <2> QED
    BY <2>1 DEF Links
<1>3. Tiles(FreeIn(m) \union U, Sizes(m2))
  <2>1. \A b \in FreeIn(m) \union U : b \in 0..End /\ Sizes(m2)[b] = Sizes(m)[b]
    BY HeapFacts, UnitsLemma DEF Sizes
  <2>2. Tiles(FreeIn(m) \union U, Sizes(m))
    BY DEF HeapOK
  <2> QED
    BY <2>1, <2>2 DEF Tiles
<1>4. HeapOK(m2, s, U)
  BY <1>1, <1>2, <1>3 DEF HeapOK
<1>5. Separate(m) => Separate(m2)
  BY <1>1 DEF Separate
<1> QED
  BY <1>1, <1>4, <1>5

FilledIn(m, s, U, b, v, m2) ==
  /\ HeapOK(m2, s, U) /\ FreeIn(m2) = FreeIn(m)
  /\ Separate(m) => Separate(m2)
  /\ \A u \in b + 1 .. b + m[b].size - 1 : m2[u] = Data(v)
  /\ \A u \in 0..End : u \notin b + 1 .. b + m[b].size - 1 => m2[u] = m[u]

LEMMA FilledLemma ==
  ASSUME NEW m, NEW s, NEW U, HeapOK(m, s, U), NEW b \in U,
         NEW v \in Tasks \union {"raw", "zero"}, NEW m2, m2 = Filled(m, b + 1, b + m[b].size - 1, v)
  PROVE  FilledIn(m, s, U, b, v, m2)
<1> DEFINE I == b + 1 .. b + m[b].size - 1
<1>1. m2 = [u \in 0..End |-> IF u \in I THEN Data(v) ELSE m[u]]
  BY DEF Filled
<1>2. m \in [0..End -> Unit]
  BY DEF HeapOK
<1>3. \A u \in I : u \in 0..End /\ u \notin FreeIn(m) \union U /\ m[u].next = NULL
  <2> TAKE u \in I
  <2>1. u \in b .. b + m[b].size - 1 /\ u # b
    BY HeapFacts
  <2>2. u \in 0..End-1 /\ u \notin FreeIn(m) \union U
    BY <2>1, InsideLemma
  <2> QED
    BY <2>2, UnitsLemma DEF FreeIn
<1> HIDE DEF I
<1>4. Data(v) \in Unit /\ Data(v).next = NULL
  BY UnitsLemma DEF Data, Unit
<1>5. m2 \in [0..End -> Unit]
  BY <1>1, <1>2, <1>4
<1>6. \A u \in 0..End : m2[u].next = m[u].next
  BY <1>1, <1>3, <1>4
<1>7. \A u \in 0..End : u \notin I => m2[u] = m[u]
  BY <1>1
<1>8. \A c \in FreeIn(m) \union U : m2[c] = m[c] /\ IsHeader(m[c])
  <2>1. FreeIn(m) \union U \subseteq 0..End
    BY HeapFacts, UnitsLemma
  <2> QED
    BY <1>3, <1>7, <2>1 DEF HeapOK
<1>9. HeapOK(m2, s, U) /\ FreeIn(m2) = FreeIn(m) /\ (Separate(m) => Separate(m2))
  BY <1>5, <1>6, <1>8, WriteLemma
<1>10. \A u \in I : m2[u] = Data(v)
  BY <1>1, <1>3
<1> QED
  BY <1>7, <1>9, <1>10 DEF I, FilledIn

\* The block b is taken off the list, for now with its whole size.
Unlinked(m, U, b, h, m2) ==
  /\ HeapOK(m2, h.start, U \union {b}) /\ Separate(m2) /\ FreeIn(m2) = FreeIn(m) \ {b}
  /\ h.mem \in [0..End -> Unit]
  /\ \A u \in 0..End : u \notin FreeIn(m) => m2[u] = m[u]
  /\ m2[b] = Header(NULL, m[b].size, TRUE)

LEMMA UnlinkLemma ==
  ASSUME NEW m, NEW s, NEW U, HeapOK(m, s, U), Separate(m), NEW b \in FreeIn(m),
         NEW h, h = SetNext(m, s, Before(m, s, b), m[b].next),
         NEW m2, m2 = [h.mem EXCEPT ![b] = Header(NULL, m[b].size, TRUE)]
  PROVE  Unlinked(m, U, b, h, m2)
<1> DEFINE F == FreeIn(m)
           i == Before(m, s, b)
           n == m[b].next
<1>1. /\ F \in SUBSET (0..End-1) /\ F \union U \in SUBSET (0..End-1) /\ U \in SUBSET (0..End-1)
      /\ F \intersect U = {} /\ m \in [0..End -> Unit] /\ s \in 0..End
      /\ \A a \in F : a \in 0..End /\ a # Start /\ m[a].next \in 0..End /\ NextOf(m, s, a) = m[a].next
  <2>1. \A a \in F : a \in 0..End /\ a # Start /\ m[a].next \in 0..End /\ NextOf(m, s, a) = m[a].next
    BY UnitsLemma DEF HeapOK, Unit, FreeIn, NextOf, Start
  <2> QED
    BY <2>1, HeapFacts DEF HeapOK
<1>2. /\ i \in F \union {Start} /\ i < b /\ i # b /\ NextOf(m, s, i) = b /\ b \in F /\ b \in 0..End
      /\ n \in 0..End /\ n # NULL
  <2>1. b \in 0..End-1 /\ b \in Int
    BY HeapFacts
  <2>2. i \in F \union {Start} /\ i < b /\ b <= NextOf(m, s, i)
    BY <2>1, BeforeLemma
  <2>3. NextOf(m, s, i) \in Int /\ i \in Int /\ (b <= i \/ NextOf(m, s, i) <= b)
    BY <2>2, HeapFacts
  <2>4. n \in 0..End /\ n # NULL
    BY <1>1, UnitsLemma DEF NULL
  <2> QED
    BY <1>1, <2>1, <2>2, <2>3, <2>4
<1> HIDE DEF i, n, F
<1>3. /\ h.start = IF i = Start THEN n ELSE s
      /\ h.mem = [u \in 0..End |-> IF u = i THEN [m[u] EXCEPT !.next = n] ELSE m[u]]
  <2>1. m = [u \in 0..End |-> m[u]]
    BY <1>1
  <2>2. h = SetNext(m, s, i, n)
    BY DEF i, n
  <2>3. CASE i = Start
    <3>1. h.mem = m /\ h.start = n
      BY <2>2, <2>3 DEF SetNext
    <3>2. \A u \in 0..End : u # i
      BY <2>3, UnitsLemma DEF Start
    <3> QED
      BY <2>1, <2>3, <3>1, <3>2
  <2>4. CASE i # Start
    <3> DEFINE w == [m EXCEPT ![i].next = n]
    <3>1. h = [mem |-> w, start |-> s]
      BY <2>2, <2>4, Zenon DEF SetNext
    <3>2. i \in 0..End
      BY <1>1, <1>2, <2>4
    <3>3. w = [u \in 0..End |-> IF u = i THEN [m[u] EXCEPT !.next = n] ELSE m[u]]
      BY <2>1, <3>2
    <3> HIDE DEF w
    <3>4. h.mem = w /\ h.start = s
      BY <3>1
    <3> QED
      BY <2>4, <3>3, <3>4
  <2> QED
    BY <2>3, <2>4
<1>4. h.mem \in [0..End -> Unit] /\ h.start \in 0..End
  <2>1. \A u \in 0..End : [m[u] EXCEPT !.next = n] \in Unit
    BY <1>1, <1>2 DEF Unit
  <2> QED
    BY <1>1, <1>2, <1>3, <2>1
<1>5. m2 = [u \in 0..End |-> IF u = b THEN Header(NULL, m[b].size, TRUE) ELSE h.mem[u]]
  BY <1>2, <1>4
<1>6. m2 \in [0..End -> Unit]
  <2>1. Header(NULL, m[b].size, TRUE) \in Unit
    BY <1>1, <1>2 DEF Header, Unit
  <2> QED
    BY <1>4, <1>5, <2>1
<1>7. \A u \in 0..End :
        /\ m2[u].next = IF u = b THEN NULL ELSE IF u = i THEN n ELSE m[u].next
        /\ m2[u].size = m[u].size
        /\ u \notin {b, i} => m2[u] = m[u]
        /\ u # b => m2[u].data = m[u].data /\ m2[u].alloc = m[u].alloc
        /\ u = b => m2[u] = Header(NULL, m[b].size, TRUE)
  <2> TAKE u \in 0..End
  <2>1. CASE u = b
    <3>1. m2[u] = Header(NULL, m[b].size, TRUE)
      BY <1>5, <2>1
    <3>2. m2[u].next = NULL /\ m2[u].size = m[u].size
      BY <2>1, <3>1 DEF Header
    <3>3. u \in {b, i}
      BY <2>1
    <3> QED
      BY <2>1, <3>1, <3>2, <3>3, Zenon
  <2>2. CASE u # b /\ u = i
    <3>1. m2[u] = [m[u] EXCEPT !.next = n] /\ m[u] \in Unit
      BY <1>1, <1>3, <1>5, <2>2
    <3>2. m2[u].next = n /\ m2[u].size = m[u].size
      BY <3>1 DEF Unit
    <3>3. m2[u].data = m[u].data /\ m2[u].alloc = m[u].alloc
      <4>1. m2[u].data = m[u].data
        BY <3>1 DEF Unit
      <4>2. m2[u].alloc = m[u].alloc
        BY <3>1 DEF Unit
      <4> QED
        BY <4>1, <4>2
    <3>4. n = IF u = b THEN NULL ELSE IF u = i THEN n ELSE m[u].next
      BY <2>2
    <3>5. u # b /\ u \in {b, i}
      BY <2>2
    <3> HIDE DEF n
    <3> QED
      BY <3>2, <3>3, <3>4, <3>5, Zenon
  <2>3. CASE u # b /\ u # i
    BY <1>3, <1>5, <2>3
  <2> QED
    BY <2>1, <2>2, <2>3
<1>8. FreeIn(m2) = F \ {b}
  <2>1. \A a \in 0..End-1 : a \in 0..End
    BY UnitsLemma
  <2>2. F = {a \in 0..End-1 : m[a].next # NULL}
    BY DEF F, FreeIn
  <2>3. i \in 0..End-1 => m[i].next # NULL
    BY <1>2, <2>2, UnitsLemma DEF Start
  <2>4. \A a \in 0..End-1 : m2[a].next # NULL <=> a # b /\ m[a].next # NULL
    BY <1>2, <1>7, <2>1, <2>3
  <2> QED
    BY <2>2, <2>4 DEF FreeIn
<1>9. Chain(F \ {b}, Links(m2, h.start))
  <2>1. \A a \in F \union {Start} : a \in Start..End
    BY <1>1, UnitsLemma DEF Start
  <2>2. \A a \in (F \ {b}) \union {Start} :
          NextOf(m2, h.start, a) = IF a = i THEN n ELSE NextOf(m, s, a)
    BY <1>1, <1>2, <1>3, <1>7 DEF NextOf
  <2>3. /\ \A a \in F \union {Start} : Links(m2, h.start)[a] = NextOf(m2, h.start, a)
        /\ \A a \in F \union {Start} : Links(m, s)[a] = NextOf(m, s, a)
    BY <2>1 DEF Links
  <2> DEFINE L == Links(m, s)
             L2 == Links(m2, h.start)
  <2>4. /\ L[i] = b /\ i \in F \union {Start} /\ L[i] \in F /\ F \in SUBSET (0..End-1)
        /\ L2[i] = L[b]
    <3>1. L[i] = b /\ L[b] = n
      BY <1>1, <1>2, <2>3 DEF n
    <3>2. L2[i] = n
      BY <1>2, <2>2, <2>3
    <3> QED
      BY <1>1, <1>2, <3>1, <3>2
  <2>5. \A a \in (F \union {Start}) \ {i, b} : L2[a] = L[a]
    BY <2>2, <2>3
  <2>6. Chain(F, L)
    BY DEF HeapOK, F
  <2> HIDE DEF L, L2
  <2>7. Chain(F \ {b}, L2)
    BY <2>4, <2>5, <2>6, ChainRemove
  <2> QED
    BY <2>7 DEF L2
<1>10. Tiles((F \ {b}) \union (U \union {b}), Sizes(m2))
  <2>1. (F \ {b}) \union (U \union {b}) = F \union U
    BY <1>2
  <2>2. Sizes(m2) = Sizes(m)
    BY <1>7 DEF Sizes
  <2> QED
    BY <2>1, <2>2 DEF HeapOK, F
<1>11. \A c \in (F \ {b}) \union (U \union {b}) : IsHeader(m2[c])
  <2>1. \A c \in F \union U : c \in 0..End /\ IsHeader(m[c])
    BY <1>1, UnitsLemma DEF HeapOK, F
  <2>2. m2[b].data = "header"
    <3>1. m2[b] = Header(NULL, m[b].size, TRUE)
      BY <1>2, <1>7
    <3> QED
      BY <3>1 DEF Header
  <2>3. \A c \in F \union U : c # b => IsHeader(m2[c])
    BY <1>7, <2>1 DEF IsHeader
  <2> QED
    BY <1>2, <2>2, <2>3 DEF IsHeader
<1>12. \A c \in F \ {b} : ~m2[c].alloc
  BY <1>1, <1>7 DEF HeapOK, F
<1>13. U \union {b} \in SUBSET (0..End-1) /\ (F \ {b}) \intersect (U \union {b}) = {}
  BY <1>1, <1>2
<1>14. HeapOK(m2, h.start, U \union {b})
  BY <1>4, <1>6, <1>8, <1>9, <1>10, <1>11, <1>12, <1>13 DEF HeapOK
<1>15. Separate(m2)
  BY <1>1, <1>7, <1>8 DEF Separate, F
<1>16. \A u \in 0..End : u \notin F => m2[u] = m[u]
  <2>1. i \in 0..End => i \in F
    BY <1>2, UnitsLemma DEF Start
  <2> QED
    BY <1>2, <1>7, <2>1
<1> QED
  BY <1>2, <1>4, <1>7, <1>8, <1>14, <1>15, <1>16 DEF F, Unlinked

\* A block in use is split into two of them.
SplitAt(m, s, U, c, m2) ==
  /\ HeapOK(m2, s, U \union {c}) /\ FreeIn(m2) = FreeIn(m)
  /\ Separate(m) => Separate(m2)
  /\ c \in (0..End-1) \ U

LEMMA SplitLemma ==
  ASSUME NEW m, NEW s, NEW U, HeapOK(m, s, U), NEW b \in U, m[b].alloc,
         NEW w \in 1 .. m[b].size - 1, NEW m2,
         m2 = [u \in 0..End |-> IF u = b THEN Header(NULL, w, TRUE)
                               ELSE IF u = b + w THEN Header(NULL, m[b].size - w, FALSE)
                               ELSE m[u]]
  PROVE  SplitAt(m, s, U, b + w, m2)
<1> DEFINE F == FreeIn(m)
<1>1. /\ F \union U \in SUBSET (0..End-1) /\ b \in F \union U /\ U \in SUBSET (0..End-1)
      /\ F \intersect U = {} /\ m \in [0..End -> Unit] /\ s \in 0..End
      /\ b \in 0..End /\ b \in Int /\ m[b].size \in 1..Units /\ m[b].size \in Int /\ b + m[b].size <= End
      /\ w \in Int /\ 1 <= w /\ w < m[b].size
  <2>1. U \in SUBSET (0..End-1) /\ F \intersect U = {} /\ m \in [0..End -> Unit] /\ s \in 0..End
    BY DEF HeapOK
  <2>2. b \in F \union U /\ F \in SUBSET (0..End-1)
    BY DEF FreeIn
  <2>3. m[b].size \in 1..Units /\ b + m[b].size <= End
    BY <2>2, HeapFacts
  <2>4. b \in 0..End /\ b \in Int /\ m[b].size \in Int
    BY <2>1, <2>3, UnitsLemma
  <2>5. w \in Int /\ 1 <= w /\ w < m[b].size
    BY <2>4
  <2>6. F \union U \in SUBSET (0..End-1)
    BY <2>1, <2>2
  <2> HIDE DEF F
  <2> QED
    BY <2>1, <2>2, <2>3, <2>4, <2>5, <2>6
<1>2. b + w \in (0..End-1) \ (F \union U) /\ b + w # b /\ b + w \in 0..End
  <2>1. b + w \in b .. b + m[b].size - 1 /\ b + w # b
    BY <1>1
  <2>2. b + w \in 0..End-1 /\ b + w \notin F \union U
    BY <1>1, <2>1, InsideLemma
  <2> QED
    BY <2>1, <2>2, UnitsLemma
<1>3. Header(NULL, w, TRUE) \in Unit /\ Header(NULL, m[b].size - w, FALSE) \in Unit
  <2>1. w \in 0..Units /\ m[b].size - w \in 0..Units
    BY <1>1, UnitsLemma
  <2> QED
    BY <2>1 DEF Header, Unit
<1>4. m2 \in [0..End -> Unit]
  BY <1>1, <1>3
<1>5. \A u \in 0..End :
        /\ u \notin {b, b + w} => m2[u] = m[u]
        /\ m2[u].size = IF u = b THEN w ELSE IF u = b + w THEN m[b].size - w ELSE m[u].size
        /\ u \in {b, b + w} => m2[u].next = NULL /\ IsHeader(m2[u])
  BY <1>2 DEF Header, IsHeader
<1>6. FreeIn(m2) = F
  <2>1. \A a \in 0..End-1 : a \in 0..End
    BY UnitsLemma
  <2>2. F = {a \in 0..End-1 : m[a].next # NULL}
    BY DEF FreeIn
  <2>3. b \notin F /\ b + w \notin F
    BY <1>1, <1>2
  <2> HIDE DEF F
  <2>4. \A a \in 0..End-1 : m2[a].next # NULL <=> m[a].next # NULL
    BY <1>5, <2>1, <2>2, <2>3
  <2> QED
    BY <2>2, <2>4 DEF FreeIn
<1>7. Chain(F, Links(m2, s))
  <2>1. \A a \in F \union {Start} : a \in Start..End
    BY <1>1, UnitsLemma DEF Start
  <2>2. \A a \in F : a \in 0..End /\ a \notin {b, b + w}
    BY <1>1, <1>2, UnitsLemma
  <2>3. \A a \in F \union {Start} : NextOf(m2, s, a) = NextOf(m, s, a)
    BY <1>5, <2>2 DEF NextOf
  <2>4. \A a \in F \union {Start} : Links(m2, s)[a] = Links(m, s)[a]
    BY <2>1, <2>3 DEF Links
  <2>5. Chain(F, Links(m, s))
    BY DEF HeapOK
  <2> QED
    BY <2>4, <2>5 DEF Chain
<1>8. Tiles(F \union (U \union {b + w}), Sizes(m2))
  <2> DEFINE B == F \union U
             S == Sizes(m)
             S2 == Sizes(m2)
  <2>1. B \in SUBSET (0..End-1) /\ Tiles(B, S) /\ b \in B
    BY <1>1 DEF HeapOK
  <2>2. S[b] = m[b].size /\ S2[b] = w /\ S2[b + w] = S[b] - w
    BY <1>1, <1>2, <1>5 DEF Sizes
  <2>3. \A c \in B \ {b} : S2[c] = S[c]
    <3>1. \A c \in B : c \in 0..End /\ c # b + w
      BY <1>1, <1>2, UnitsLemma
    <3> QED
      BY <1>5, <3>1 DEF Sizes
  <2>4. w \in 1 .. S[b] - 1
    BY <2>2
  <2>5. F \union (U \union {b + w}) = B \union {b + w}
    OBVIOUS
  <2>7. S2[b] = w /\ S2[b + w] = S[b] - w
    BY <2>2
  <2> HIDE DEF B, S, S2
  <2>6. Tiles(B \union {b + w}, S2)
    BY <2>1, <2>3, <2>4, <2>7, TilesSplit, Zenon
  <2> QED
    BY <2>5, <2>6 DEF S2
<1>9. \A c \in F \union (U \union {b + w}) : IsHeader(m2[c])
  <2>1. \A c \in F \union U : c \in 0..End /\ IsHeader(m[c])
    BY <1>1, UnitsLemma DEF HeapOK
  <2> QED
    BY <1>2, <1>5, <2>1
<1>10. \A c \in F : ~m2[c].alloc /\ m2[c] = m[c]
  <2>1. \A c \in F : c \in 0..End /\ c \notin {b, b + w} /\ ~m[c].alloc
    BY <1>1, <1>2, UnitsLemma DEF HeapOK
  <2> QED
    BY <1>5, <2>1
<1>11. HeapOK(m2, s, U \union {b + w})
  BY <1>1, <1>2, <1>4, <1>6, <1>7, <1>8, <1>9, <1>10 DEF HeapOK
<1>12. Separate(m) => Separate(m2)
  BY <1>6, <1>10 DEF Separate
<1> QED
  BY <1>2, <1>6, <1>11, <1>12 DEF SplitAt

\* The search of pvPortMalloc ends at a free block with room, or at the end marker.
LEMMA FirstFitLemma ==
  ASSUME NEW U, HeapOK(mem, start, U), NEW w \in Int, FirstFit(w) # End
  PROVE  FirstFit(w) \in FreeIn(mem) /\ mem[FirstFit(w)].size >= w
<1> DEFINE S == {b \in FreeIn(mem) : mem[b].size >= w} \union {End}
<1>1. S \in SUBSET Nat /\ S # {}
  BY HeapFacts, UnitsLemma
<1>2. PICK x \in S : \A y \in S : x <= y
  BY <1>1, LeastLemma
<1>3. Min(S) \in S
  BY <1>2 DEF Min
<1>4. FirstFit(w) = Min(S)
  BY DEF FirstFit
<1> QED
  BY <1>3, <1>4

\* What pvPortMalloc does to a heap in order when it takes a block for w units: the
\* block was free, has room, and is marked; the blocks in use are not touched.
TakenFrom(m, U, w, got) ==
  /\ got.at \in FreeIn(m)
  /\ got.size \in w..Units
  /\ HeapOK(got.heap.mem, got.heap.start, U \union {got.at}) /\ Separate(got.heap.mem)
  /\ got.heap.mem[got.at] = Header(NULL, got.size, TRUE)
  /\ \A c \in U : \A u \in c .. c + m[c].size - 1 : got.heap.mem[u] = m[u]

LEMMA TakeLemma ==
  ASSUME NEW U, HeapOK(mem, start, U), Separate(mem), NEW w \in Int, w > 0, FirstFit(w) # End
  PROVE  TakenFrom(mem, U, w, Take(w))
<1> DEFINE b == FirstFit(w)
           size == mem[b].size
           h == SetNext(mem, start, Before(mem, start, b), mem[b].next)
           m1 == [h.mem EXCEPT ![b] = Header(NULL, size, TRUE)]
           taken == [h.mem EXCEPT ![b] = Header(NULL, w, TRUE)]
           m2 == [taken EXCEPT ![b + w] = Header(NULL, size - w, FALSE)]
           g == InsertBlockIntoFreeList(m2, h.start, b + w)
           splits == size - w > MINIMUM_BLOCK
<1>1. /\ b \in FreeIn(mem) /\ size >= w /\ b \in FreeIn(mem) \union U
      /\ b \in 0..End /\ b \in Int /\ size \in 1..Units /\ size \in Int /\ b + size <= End
  <2>1. b \in FreeIn(mem) /\ size >= w
    BY FirstFitLemma
  <2>2. size \in 1..Units /\ size \in Int /\ b + size <= End
    BY <2>1, HeapFacts
  <2>3. b \in 0..End /\ b \in Int
    BY <2>1, HeapFacts, UnitsLemma
  <2> QED
    BY <2>1, <2>2, <2>3
<1>2. /\ splits => Take(w) = [at |-> b, size |-> w, heap |-> g]
      /\ ~splits => Take(w) = [at |-> b, size |-> size, heap |-> [mem |-> m1, start |-> h.start]]
  BY Zenon DEF Take
<1> HIDE DEF b
<1>3. /\ HeapOK(m1, h.start, U \union {b}) /\ Separate(m1) /\ FreeIn(m1) = FreeIn(mem) \ {b}
      /\ h.mem \in [0..End -> Unit]
      /\ \A u \in 0..End : u \notin FreeIn(mem) => m1[u] = mem[u]
      /\ m1[b] = Header(NULL, size, TRUE)
  <2> HIDE DEF h, m1
  <2>1. h = SetNext(mem, start, Before(mem, start, b), mem[b].next)
    BY DEF h
  <2>2. m1 = [h.mem EXCEPT ![b] = Header(NULL, mem[b].size, TRUE)]
    BY DEF m1
  <2>3. b \in FreeIn(mem)
    BY <1>1
  <2>4. Unlinked(mem, U, b, h, m1)
    BY <2>1, <2>2, <2>3, UnlinkLemma, Zenon
  <2> QED
    BY <2>4 DEF Unlinked
\* The units of a block in use are neither free nor in the block that is taken.
<1>4. ASSUME NEW c \in U, NEW u \in c .. c + mem[c].size - 1
      PROVE  u \in 0..End /\ u \notin FreeIn(mem) /\ u \notin b .. b + size - 1
  <2>1. c \in FreeIn(mem) \union U /\ c \notin FreeIn(mem)
    BY DEF HeapOK
  <2>2. /\ u \in 0..End-1
        /\ u # c => u \notin FreeIn(mem) \union U
        /\ \A d \in FreeIn(mem) \union U : d # c => u \notin d .. d + mem[d].size - 1
    BY <2>1, InsideLemma
  <2>3. b # c
    BY <1>1, <2>1
  <2> QED
    BY <1>1, <2>1, <2>2, <2>3, UnitsLemma
<1>5. CASE ~splits
  <2>1. Take(w) = [at |-> b, size |-> size, heap |-> [mem |-> m1, start |-> h.start]]
    BY <1>2, <1>5, Zenon
  <2> HIDE DEF h, m1, size
  <2>2. /\ Take(w).at = b /\ Take(w).size = size
        /\ Take(w).heap.mem = m1 /\ Take(w).heap.start = h.start
    BY <2>1
  <2>3. size \in w..Units
    BY <1>1
  <2>4. \A c \in U : \A u \in c .. c + mem[c].size - 1 : m1[u] = mem[u]
    BY <1>3, <1>4
  <2> QED
    BY <1>1, <1>3, <2>2, <2>3, <2>4 DEF TakenFrom
<1>6. CASE splits
  <2>1. Take(w) = [at |-> b, size |-> w, heap |-> g]
    BY <1>2, <1>6, Zenon
  <2>2. w \in 1 .. size - 1 /\ b + w \in 0..End /\ b + w # b /\ b + w \in b .. b + size - 1
    BY <1>1, <1>6, UnitsLemma DEF MINIMUM_BLOCK
  <2>3. m2 = [u \in 0..End |-> IF u = b THEN Header(NULL, w, TRUE)
                              ELSE IF u = b + w THEN Header(NULL, size - w, FALSE)
                              ELSE m1[u]]
    <3> HIDE DEF h, size
    <3> QED
      BY <1>1, <1>3, <2>2
  <2>4. m1[b].size = size /\ m1[b].alloc
    <3> HIDE DEF m1, size
    <3> QED
      BY <1>3 DEF Header
  <2> HIDE DEF size, m1, m2, h
  <2> DEFINE V == U \union {b}
  <2>5. /\ HeapOK(m1, h.start, V) /\ b \in V /\ w \in 1 .. m1[b].size - 1
        /\ m2 = [u \in 0..End |-> IF u = b THEN Header(NULL, w, TRUE)
                                 ELSE IF u = b + w THEN Header(NULL, m1[b].size - w, FALSE)
                                 ELSE m1[u]]
    BY <1>3, <2>2, <2>3, <2>4
  <2> HIDE DEF V
  <2>6. /\ HeapOK(m2, h.start, V \union {b + w}) /\ FreeIn(m2) = FreeIn(m1)
        /\ Separate(m1) => Separate(m2)
        /\ b + w \in (0..End-1) \ V
    <3> DEFINE s2 == h.start
    <3>1. HeapOK(m1, s2, V) /\ b \in V /\ m1[b].alloc /\ w \in 1 .. m1[b].size - 1
      BY <2>4, <2>5
    <3> HIDE DEF s2
    <3>2. SplitAt(m1, s2, V, b + w, m2)
      BY <2>5, <3>1, SplitLemma, Zenon
    <3> QED
      BY <3>2 DEF s2, SplitAt
  <2>7. g = InsertBlockIntoFreeList(m2, h.start, b + w)
    BY DEF g
  <2> HIDE DEF g
  <2>8. InOrder(m2, h.start, V \union {b + w}, b + w, g)
    <3> DEFINE W == V \union {b + w}
               s2 == h.start
               c == b + w
    <3>1. HeapOK(m2, s2, W) /\ Separate(m2) /\ c \in W
      BY <1>3, <2>6
    <3>2. g = InsertBlockIntoFreeList(m2, s2, c)
      BY <2>7
    <3> HIDE DEF W, s2, c
    <3>3. InOrder(m2, s2, W, c, g)
      BY <3>1, <3>2, InsertLemma, Zenon
    <3> QED
      BY <3>3 DEF W, s2, c
  <2>9. /\ HeapOK(g.mem, g.start, V) /\ Separate(g.mem)
        /\ \A u \in 0..End : u \notin FreeIn(m2) \union {b + w} => g.mem[u] = m2[u]
    <3>1. (V \union {b + w}) \ {b + w} = V
      BY <2>6
    <3> QED
      BY <2>8, <3>1 DEF InOrder
  <2>10. g.mem[b] = Header(NULL, w, TRUE)
    <3>1. b \notin FreeIn(m2)
      BY <1>3, <2>6
    <3>2. m2[b] = Header(NULL, w, TRUE)
      BY <1>1, <2>3
    <3> QED
      BY <1>1, <2>2, <2>9, <3>1, <3>2
  <2>11. \A c \in U : \A u \in c .. c + mem[c].size - 1 : g.mem[u] = mem[u]
    <3> TAKE c \in U
    <3> TAKE u \in c .. c + mem[c].size - 1
    <3>1. u \in 0..End /\ u \notin FreeIn(mem) /\ u # b /\ u # b + w
      <4>1. u \in 0..End /\ u \notin FreeIn(mem) /\ u \notin b .. b + size - 1
        BY <1>4
      <4>2. b \in b .. b + size - 1
        BY <1>1
      <4> QED
        BY <2>2, <4>1, <4>2
    <3>2. m1[u] = mem[u] /\ m2[u] = m1[u]
      BY <1>3, <2>3, <3>1
    <3>3. u \notin FreeIn(m2)
      BY <1>3, <2>6, <3>1
    <3> QED
      BY <2>9, <3>1, <3>2, <3>3
  <2>12. Take(w).at = b /\ Take(w).size = w /\ Take(w).heap = g
    BY <2>1
  <2>13. w \in w..Units
    BY <1>1, <2>2, UnitsLemma
  <2> QED
    BY <1>1, <2>9, <2>10, <2>11, <2>12, <2>13 DEF TakenFrom, V
<1> QED
  BY <1>5, <1>6

\* The size that is searched for has room for the bytes wanted behind the header.
LEMMA WantedLemma ==
  ASSUME NEW n \in Nat, WantedSize(n) > 0
  PROVE  /\ WantedSize(n) \div ALIGN \in Int /\ WantedSize(n) \div ALIGN > 1
         /\ ALIGN * ((WantedSize(n) \div ALIGN) - 1) >= n
<1> DEFINE extra == 8 + (IF n % 8 # 0 THEN 8 - (n % 8) ELSE 0)
<1>1. n > 0 /\ WantedSize(n) = n + extra
  <2>1. ~(n = 0 \/ n > heapSIZE_MAX - extra)
    BY DEF WantedSize, ALIGN
  <2> QED
    BY <2>1 DEF WantedSize, ALIGN
<1>2. n % 8 \in 0..7 /\ n = 8 * (n \div 8) + (n % 8) /\ n \div 8 \in Int
  OBVIOUS
<1>3. \E q \in Int : n + extra = 8 * q /\ 8 * (q - 1) >= n
  <2>1. CASE n % 8 = 0
    <3>1. (n \div 8) + 1 \in Int
      BY <1>2
    <3>2. n + extra = 8 * ((n \div 8) + 1)
      BY <1>2, <2>1
    <3>3. 8 * (((n \div 8) + 1) - 1) >= n
      BY <1>2, <2>1
    <3> HIDE DEF extra
    <3> WITNESS (n \div 8) + 1 \in Int
    <3> QED
      BY <3>2, <3>3
  <2>2. CASE n % 8 # 0
    <3>1. (n \div 8) + 2 \in Int
      BY <1>2
    <3>2. n + extra = 8 * ((n \div 8) + 2)
      BY <1>2, <2>2
    <3>3. 8 * (((n \div 8) + 2) - 1) >= n
      BY <1>2, <2>2
    <3> HIDE DEF extra
    <3> WITNESS (n \div 8) + 2 \in Int
    <3> QED
      BY <3>2, <3>3
  <2> QED
    BY <2>1, <2>2
<1>4. PICK q \in Int : n + extra = 8 * q /\ 8 * (q - 1) >= n
  BY <1>3
<1>5. WantedSize(n) \div ALIGN = q /\ q > 1
  BY <1>1, <1>4 DEF ALIGN
<1> QED
  BY <1>4, <1>5 DEF ALIGN

\* pvPortMalloc: a block that was free is now in use, large enough and filled with v,
\* the heap is in order, and the blocks in use are as they were.
Allocated(U, n, v, got) ==
  /\ got.at \in (0..End-1) \ U /\ got.at \in FreeIn(mem)
  /\ got.size \in 1..Units /\ ALIGN * (got.size - 1) >= n
  /\ HeapOK(mem', start', U \union {got.at}) /\ Separate(mem')
  /\ mem'[got.at] = Header(NULL, got.size, TRUE)
  /\ \A x \in got.at + 1 .. got.at + got.size - 1 : mem'[x] = Data(v)
  /\ \A c \in U : \A x \in c .. c + mem[c].size - 1 : mem'[x] = mem[x]

LEMMA MallocLemma ==
  ASSUME NEW U, HeapOK(mem, start, U), Separate(mem), NEW n \in Nat,
         NEW v \in Tasks \union {"raw", "zero"}, MallocSucceeds(n, v)
  PROVE  Allocated(U, n, v, Take(WantedSize(n) \div ALIGN))
<1> DEFINE w == WantedSize(n) \div ALIGN
           got == Take(w)
           b == got.at
           m == got.heap.mem
           s == got.heap.start
           V == U \union {b}
           I == b + 1 .. b + m[b].size - 1
<1>1. WantedSize(n) > 0 /\ FirstFit(w) # End
  BY DEF MallocSucceeds, Fits
<1>2. w \in Int /\ w > 1 /\ ALIGN * (w - 1) >= n
  BY <1>1, WantedLemma
<1>3. mem' = Filled(m, b + 1, b + got.size - 1, v) /\ start' = s
  BY Zenon DEF MallocSucceeds
<1> HIDE DEF w
<1>4. TakenFrom(mem, U, w, got)
  <2>1. w > 0
    BY <1>2
  <2> QED
    BY <1>1, <1>2, <2>1, TakeLemma, Zenon
<1> HIDE DEF got
<1>5. /\ b \in FreeIn(mem) /\ got.size \in w..Units
      /\ HeapOK(m, s, V) /\ Separate(m)
      /\ m[b] = Header(NULL, got.size, TRUE)
      /\ \A c \in U : \A u \in c .. c + mem[c].size - 1 : m[u] = mem[u]
  BY <1>4 DEF TakenFrom
<1>6. b \in (0..End-1) \ U
  <2>1. FreeIn(mem) \intersect U = {} /\ FreeIn(mem) \in SUBSET (0..End-1)
    BY HeapFacts DEF HeapOK
  <2> QED
    BY <1>5, <2>1
<1>7. m[b].size = got.size
  BY <1>5 DEF Header
<1>8. got.size \in 1..Units /\ ALIGN * (got.size - 1) >= n
  BY <1>2, <1>5, UnitsLemma DEF ALIGN
<1> HIDE DEF m, s, V, b
<1>9. mem' = Filled(m, b + 1, b + m[b].size - 1, v)
  BY <1>3, <1>7
<1>10. b \in V
  BY DEF V
<1>11. /\ HeapOK(mem', s, V) /\ FreeIn(mem') = FreeIn(m)
       /\ Separate(m) => Separate(mem')
       /\ \A u \in I : mem'[u] = Data(v)
       /\ \A u \in 0..End : u \notin I => mem'[u] = m[u]
  <2>1. HeapOK(m, s, V)
    BY <1>5
  <2>2. FilledIn(m, s, V, b, v, mem')
    BY <1>9, <1>10, <2>1, FilledLemma, Zenon
  <2> QED
    BY <2>2 DEF FilledIn
<1>12. b \notin I /\ b \in 0..End
  BY <1>6, UnitsLemma
<1>13. mem'[b] = Header(NULL, got.size, TRUE)
  BY <1>5, <1>11, <1>12
<1>14. ASSUME NEW c \in U, NEW x \in c .. c + mem[c].size - 1
       PROVE  mem'[x] = mem[x]
  <2>1. c \in FreeIn(mem) \union U /\ mem[c].size \in Int /\ mem[c].size >= 1 /\ c \in Int
    BY HeapFacts, UnitsLemma
  <2>2. m[c] = mem[c] /\ m[x] = mem[x]
    BY <1>5, <2>1
  <2>3. c \in FreeIn(m) \union V /\ b \in FreeIn(m) \union V /\ b # c
    BY <1>6 DEF V
  <2>4. x \in c .. c + m[c].size - 1
    BY <2>2
  <2>5. x \in 0..End-1 /\ x \notin b .. b + m[b].size - 1
    BY <1>5, <2>3, <2>4, InsideLemma
  <2>6. x \in 0..End /\ x \notin I
    BY <1>12, <2>5, UnitsLemma
  <2> QED
    BY <1>11, <2>2, <2>6
<1>15. \A x \in b + 1 .. b + got.size - 1 : mem'[x] = Data(v)
  BY <1>7, <1>11
<1>16. HeapOK(mem', start', V) /\ Separate(mem')
  BY <1>3, <1>5, <1>11
<1>17. Allocated(U, n, v, got)
  <2>1. /\ b \in (0..End-1) \ U /\ b \in FreeIn(mem)
        /\ got.size \in 1..Units /\ ALIGN * (got.size - 1) >= n
    BY <1>5, <1>6, <1>8
  <2> QED
    BY <1>13, <1>14, <1>15, <1>16, <2>1 DEF Allocated, V, b
<1> QED
  BY <1>17 DEF got, w

-----------------------------------------------------------------------------
(* The inductive invariant *)

\* The blocks a task has a pointer to, and those of the other tasks.
Uses(t) == {k.at : k \in owned[t]}
             \union (IF pc[t] = "copy" THEN {new[t].at} ELSE {})
             \union (IF pc[t] = "free" THEN {old[t].at} ELSE {})
Others(t) == UNION {Uses(u) : u \in Tasks \ {t}}
InUse == UNION {Uses(t) : t \in Tasks}

Types ==
  /\ owned \in [Tasks -> SUBSET Held]
  /\ pc \in [Tasks -> {"out", "free", "copy", "halted"}]
  /\ old \in [Tasks -> Held] /\ new \in [Tasks -> Held]

\* What task t relies on: its blocks are different, marked, and hold what it wrote; a
\* block that it reallocates is in its place, and the new one is larger; and a block
\* that it releases is not marked.
TaskOK(t) ==
  /\ \A k, l \in owned[t] : k.at = l.at => k = l
  /\ \A k \in owned[t] : mem[k.at].alloc /\ k.filled <= mem[k.at].size - 1
  /\ \A k \in owned[t] : \A x \in k.at + 1 .. k.at + k.filled : mem[x] = Data(t)
  /\ pc[t] = "copy" =>
       /\ old[t] \in owned[t] /\ \A k \in owned[t] : k.at # new[t].at
       /\ mem[new[t].at].alloc /\ mem[old[t].at].size <= mem[new[t].at].size
  /\ pc[t] = "free" => ~mem[old[t].at].alloc /\ \A k \in owned[t] : k.at # old[t].at

Apart == \A t, u \in Tasks : t # u => Uses(t) \intersect Uses(u) = {}

Inv ==
  /\ Types
  /\ HeapOK(mem, start, InUse) /\ Separate(mem)
  /\ Apart
  /\ \A t \in Tasks : TaskOK(t)

\* Nothing of the other tasks is changed by a step of t.
Kept(t) ==
  \A u \in Tasks \ {t} :
    /\ owned'[u] = owned[u] /\ pc'[u] = pc[u] /\ old'[u] = old[u] /\ new'[u] = new[u]
    /\ \A c \in Uses(u) : \A x \in c .. c + mem[c].size - 1 : mem'[x] = mem[x]

LEMMA SplitUse ==
  ASSUME Inv, NEW t \in Tasks
  PROVE  /\ InUse = Uses(t) \union Others(t) /\ Uses(t) \intersect Others(t) = {}
         /\ HeapOK(mem, start, Uses(t) \union Others(t)) /\ Separate(mem)
         /\ \A c \in Uses(t) \union Others(t) :
              /\ c \in 0..End-1 /\ c \in 0..End /\ c \in Int /\ c \notin FreeIn(mem)
              /\ mem[c].size \in 1..Units /\ mem[c].size \in Int /\ c + mem[c].size <= End
              /\ IsHeader(mem[c]) /\ mem[c].next = NULL
<1>1. InUse = Uses(t) \union Others(t)
  BY DEF InUse, Others
<1>2. Uses(t) \intersect Others(t) = {}
  BY DEF Others, Inv, Apart
<1>3. HeapOK(mem, start, Uses(t) \union Others(t)) /\ Separate(mem)
  BY <1>1 DEF Inv
<1> DEFINE U == Uses(t) \union Others(t)
<1>4. HeapOK(mem, start, U)
  BY <1>3
<1> HIDE DEF U
<1>5. \A c \in U : /\ c \in 0..End-1 /\ c \notin FreeIn(mem) /\ IsHeader(mem[c])
                   /\ mem[c].size \in 1..Units /\ mem[c].size \in Int /\ c + mem[c].size <= End
  BY <1>4, HeapFacts DEF HeapOK
<1>6. \A c \in U : c \in 0..End /\ c \in Int /\ mem[c].next = NULL
  BY <1>5, UnitsLemma DEF FreeIn
<1> QED
  BY <1>1, <1>2, <1>3, <1>5, <1>6 DEF U

\* What a step of t leaves alone stays as the invariant has it.
LEMMA FrameLemma ==
  ASSUME Inv, NEW t \in Tasks, Kept(t), NEW u \in Tasks \ {t}
  PROVE  Uses(u)' = Uses(u) /\ TaskOK(u)'
<1>1. owned'[u] = owned[u] /\ pc'[u] = pc[u] /\ old'[u] = old[u] /\ new'[u] = new[u]
  BY DEF Kept
<1>2. Uses(u)' = Uses(u)
  BY <1>1 DEF Uses
<1>3. \A c \in Uses(u) : c \in Int /\ mem[c].size \in Int /\ mem[c].size >= 1
  <2>1. u \in Tasks
    OBVIOUS
  <2>2. \A c \in Uses(u) : c \in Int /\ mem[c].size \in 1..Units /\ mem[c].size \in Int
    BY <2>1, SplitUse
  <2> QED
    BY <2>2, UnitsLemma
<1>4. \A c \in Uses(u) : \A x \in c .. c + mem[c].size - 1 : mem'[x] = mem[x]
  BY DEF Kept
<1>5. \A c \in Uses(u) : mem'[c] = mem[c]
  BY <1>3, <1>4
<1>6. TaskOK(u)
  BY DEF Inv
<1>7. \A k \in owned[u] : k.at \in Uses(u) /\ k \in Held
  BY DEF Uses, Inv, Types
<1>8. ASSUME NEW k \in owned[u], NEW x \in k.at + 1 .. k.at + k.filled
      PROVE  mem'[x] = Data(u)
  <2>1. mem[x] = Data(u) /\ k.filled <= mem[k.at].size - 1 /\ k.filled \in Int
    BY <1>6, <1>7, UnitsLemma DEF TaskOK, Held
  <2>2. x \in k.at .. k.at + mem[k.at].size - 1
    BY <1>3, <1>7, <2>1
  <2> QED
    BY <1>4, <1>7, <2>1, <2>2
<1>9. \A k \in owned[u] : mem'[k.at] = mem[k.at]
  BY <1>5, <1>7
<1>10. pc[u] = "copy" => mem'[new[u].at] = mem[new[u].at] /\ mem'[old[u].at] = mem[old[u].at]
  BY <1>5, <1>6, <1>9 DEF Uses, TaskOK
<1>11. pc[u] = "free" => mem'[old[u].at] = mem[old[u].at]
  BY <1>5 DEF Uses
<1>12. TaskOK(u)'
  BY <1>1, <1>6, <1>8, <1>9, <1>10, <1>11 DEF TaskOK
<1> QED
  BY <1>2, <1>12

\* A step of t keeps the invariant if it keeps the heap in order, takes no block of
\* another task, and leaves t with what it relies on.
LEMMA StepLemma ==
  ASSUME Inv, NEW t \in Tasks, Types', Kept(t),
         HeapOK(mem', start', Uses(t)' \union Others(t)), Separate(mem'),
         Uses(t)' \intersect Others(t) = {}, TaskOK(t)'
  PROVE  Inv' /\ InUse' = Uses(t)' \union Others(t)
<1>1. \A u \in Tasks \ {t} : Uses(u)' = Uses(u) /\ TaskOK(u)'
  BY FrameLemma
<1>2. InUse' = Uses(t)' \union Others(t)
  BY <1>1 DEF InUse, Others
<1>3. Apart'
  BY <1>1 DEF Inv, Apart, Others
<1> QED
  BY <1>1, <1>2, <1>3 DEF Inv


\* What a step makes of the blocks in use.
KeepsBlocks == InUse' = InUse /\ \A c \in InUse : mem'[c].size = mem[c].size
TakesBlock(b, size) ==
  /\ b \notin InUse /\ InUse' = InUse \union {b} /\ mem'[b].size = size
  /\ \A c \in InUse : mem'[c].size = mem[c].size
GivesBack(b) ==
  /\ b \in InUse /\ InUse' = InUse \ {b}
  /\ \A c \in InUse \ {b} : mem'[c].size = mem[c].size

-----------------------------------------------------------------------------
(* The steps *)

LEMMA AllocStep ==
  ASSUME Inv, NEW t \in Tasks, NEW n \in Nat, pc[t] = "out", MallocSucceeds(n, t),
         owned' = [owned EXCEPT ![t] = @ \union {[at |-> Take(WantedSize(n) \div ALIGN).at,
                                                 filled |-> Take(WantedSize(n) \div ALIGN).size - 1]}],
         UNCHANGED <<pc, old, new>>
  PROVE  /\ Inv'
         /\ TakesBlock(Take(WantedSize(n) \div ALIGN).at, Take(WantedSize(n) \div ALIGN).size)
<1> DEFINE got == Take(WantedSize(n) \div ALIGN)
           k == [at |-> got.at, filled |-> got.size - 1]
           U == Uses(t) \union Others(t)
<1>1. HeapOK(mem, start, U) /\ Separate(mem) /\ Uses(t) \intersect Others(t) = {}
  BY SplitUse
<1>2. owned' = [owned EXCEPT ![t] = @ \union {k}] /\ UNCHANGED <<pc, old, new>>
  OBVIOUS
<1> HIDE DEF U
<1>3. Allocated(U, n, t, got)
  BY <1>1, MallocLemma
<1> HIDE DEF got
<1>4. /\ got.at \in (0..End-1) \ U
      /\ got.size \in 1..Units
      /\ HeapOK(mem', start', U \union {got.at}) /\ Separate(mem')
      /\ mem'[got.at] = Header(NULL, got.size, TRUE)
      /\ \A x \in got.at + 1 .. got.at + got.size - 1 : mem'[x] = Data(t)
      /\ \A c \in U : \A x \in c .. c + mem[c].size - 1 : mem'[x] = mem[x]
  BY <1>3 DEF Allocated
<1>5. k \in Held /\ k.at = got.at /\ k.filled = got.size - 1
  BY <1>4, UnitsLemma DEF Held
<1> HIDE DEF k
<1>6. Types /\ owned'[t] = owned[t] \union {k}
  BY <1>2 DEF Inv, Types
<1>7. Types'
  BY <1>2, <1>5, <1>6 DEF Types
<1>8. Uses(t)' = Uses(t) \union {got.at}
  BY <1>2, <1>5, <1>6 DEF Uses
<1>9. Kept(t)
  <2>1. ASSUME NEW u \in Tasks \ {t}
        PROVE  owned'[u] = owned[u] /\ \A c \in Uses(u) : c \in U
    BY <1>2, <1>6 DEF Types, Others, U
  <2> QED
    BY <1>2, <1>4, <2>1 DEF Kept
<1>10. Uses(t)' \union Others(t) = U \union {got.at} /\ Uses(t)' \intersect Others(t) = {}
  BY <1>1, <1>4, <1>8 DEF U
<1>11. TaskOK(t)'
  <2>1. TaskOK(t) /\ pc'[t] = "out"
    BY <1>2 DEF Inv
  <2>2. \A l \in owned[t] : l.at \in U /\ l \in Held
    BY <1>6 DEF U, Uses, Types
  <2>3. \A c \in U : c \in Int /\ mem[c].size \in Int /\ mem[c].size >= 1
    <3>1. \A c \in Uses(t) \union Others(t) : c \in Int /\ mem[c].size \in 1..Units /\ mem[c].size \in Int
      BY SplitUse
    <3> QED
      BY <3>1, UnitsLemma DEF U
  <2>4. \A c \in U : mem'[c] = mem[c]
    BY <1>4, <2>3
  <2>5. ASSUME NEW l \in owned[t], NEW x \in l.at + 1 .. l.at + l.filled
        PROVE  mem'[x] = Data(t)
    <3>1. mem[x] = Data(t) /\ l.filled <= mem[l.at].size - 1 /\ l.filled \in Int
      BY <2>1, <2>2, UnitsLemma DEF TaskOK, Held
    <3>2. x \in l.at .. l.at + mem[l.at].size - 1
      BY <2>2, <2>3, <3>1
    <3> QED
      BY <1>4, <2>2, <3>1, <3>2
  <2>6. mem'[k.at].alloc /\ k.filled <= mem'[k.at].size - 1
    BY <1>4, <1>5, UnitsLemma DEF Header
  <2>7. \A x \in k.at + 1 .. k.at + k.filled : mem'[x] = Data(t)
    <3>1. k.at + k.filled = got.at + got.size - 1
      BY <1>4, <1>5, UnitsLemma
    <3> QED
      BY <1>4, <1>5, <3>1
  <2>8. \A l \in owned[t] : l.at # k.at /\ mem'[l.at] = mem[l.at]
    BY <1>4, <1>5, <2>2, <2>4
  <2>9. \A i, j \in owned'[t] : i.at = j.at => i = j
    BY <1>6, <2>1, <2>8 DEF TaskOK
  <2>10. \A l \in owned'[t] : mem'[l.at].alloc /\ l.filled <= mem'[l.at].size - 1
    BY <1>6, <2>1, <2>6, <2>8 DEF TaskOK
  <2>11. \A l \in owned'[t] : \A x \in l.at + 1 .. l.at + l.filled : mem'[x] = Data(t)
    BY <1>6, <2>5, <2>7
  <2> QED
    BY <2>1, <2>9, <2>10, <2>11 DEF TaskOK
<1>12. Inv' /\ InUse' = U \union {got.at}
  BY <1>4, <1>7, <1>9, <1>10, <1>11, StepLemma
<1>13. TakesBlock(got.at, got.size)
  <2>1. InUse = U /\ \A c \in U : c \in Int /\ mem[c].size \in Int /\ mem[c].size \in 1..Units
    BY SplitUse DEF U
  <2>2. mem'[got.at].size = got.size
    BY <1>4 DEF Header
  <2>3. \A c \in U : mem'[c].size = mem[c].size
    <3> TAKE c \in U
    <3>1. c \in c .. c + mem[c].size - 1
      BY <2>1, UnitsLemma
    <3> QED
      BY <1>4, <3>1
  <2> QED
    BY <1>4, <1>12, <2>1, <2>2, <2>3 DEF TakesBlock
<1> QED
  BY <1>12, <1>13 DEF got

LEMMA HaltStep ==
  ASSUME Inv, NEW t \in Tasks, pc[t] = "out", Halt(t)
  PROVE  Inv' /\ KeepsBlocks
<1>1. Types /\ Types'
  BY DEF Inv, Types, Halt
<1>2. pc'[t] = "halted" /\ UNCHANGED <<heapVars, owned, old, new>>
  BY <1>1 DEF Halt, Types
<1>3. mem' = mem /\ start' = start /\ owned' = owned /\ old' = old /\ new' = new
  BY <1>2 DEF heapVars
<1>4. Uses(t)' = Uses(t)
  BY <1>2, <1>3 DEF Uses
<1>5. Kept(t)
  BY <1>1, <1>3 DEF Kept, Halt, Types
<1>6. TaskOK(t)'
  BY <1>2, <1>3 DEF Inv, TaskOK
<1>7. Inv' /\ InUse' = InUse
  BY <1>1, <1>3, <1>4, <1>5, <1>6, SplitUse, StepLemma
<1> QED
  BY <1>3, <1>7 DEF KeepsBlocks


LEMMA FreeBeginStep ==
  ASSUME Inv, NEW t \in Tasks, NEW k \in owned[t], FreeBegin(t, k)
  PROVE  Inv' /\ KeepsBlocks
<1> DEFINE U == Uses(t) \union Others(t)
<1>1. /\ HeapOK(mem, start, U) /\ Separate(mem) /\ Uses(t) \intersect Others(t) = {}
      /\ \A c \in U : c \in 0..End-1 /\ c \in 0..End /\ c \in Int /\ c \notin FreeIn(mem) /\ IsHeader(mem[c])
                      /\ mem[c].size \in Int /\ mem[c].size \in 1..Units
  BY SplitUse
<1> HIDE DEF U
<1>2. Types /\ pc[t] = "out" /\ k \in Held /\ TaskOK(t)
  BY DEF Inv, Types, FreeBegin
<1>3. k.at \in Uses(t) /\ k.at \in U /\ k.at \in 0..End
  BY <1>1 DEF Uses, U
<1>4. /\ mem' = [mem EXCEPT ![k.at].alloc = FALSE] /\ start' = start /\ new' = new
      /\ owned'[t] = owned[t] \ {k} /\ pc'[t] = "free" /\ old'[t] = k
      /\ \A u \in Tasks \ {t} : owned'[u] = owned[u] /\ pc'[u] = pc[u] /\ old'[u] = old[u]
  BY <1>2 DEF FreeBegin, Types
<1>5. Types'
  BY <1>2 DEF FreeBegin, Types
<1>6. mem \in [0..End -> Unit]
  BY <1>1 DEF HeapOK
<1>7. /\ mem' \in [0..End -> Unit]
      /\ \A x \in 0..End : x # k.at => mem'[x] = mem[x]
      /\ mem'[k.at] = [mem[k.at] EXCEPT !.alloc = FALSE] /\ mem[k.at] \in Unit
  <2>1. [mem[k.at] EXCEPT !.alloc = FALSE] \in Unit /\ mem[k.at] \in Unit
    BY <1>3, <1>6 DEF Unit
  <2>2. mem' = [mem EXCEPT ![k.at] = [mem[k.at] EXCEPT !.alloc = FALSE]]
    BY <1>4
  <2> QED
    BY <1>3, <1>6, <2>1, <2>2
<1>8. /\ mem'[k.at].next = mem[k.at].next /\ mem'[k.at].size = mem[k.at].size
      /\ mem'[k.at].data = mem[k.at].data /\ ~mem'[k.at].alloc
  BY <1>7 DEF Unit
<1>9. HeapOK(mem', start, U) /\ FreeIn(mem') = FreeIn(mem) /\ (Separate(mem) => Separate(mem'))
  <2>1. \A x \in 0..End : mem'[x].next = mem[x].next
    BY <1>7, <1>8
  <2>2. FreeIn(mem) \union U \subseteq 0..End
    BY <1>1, HeapFacts, UnitsLemma
  <2>3. \A x \in FreeIn(mem) \union U : mem'[x].size = mem[x].size /\ mem'[x].data = mem[x].data
    BY <1>7, <1>8, <2>2
  <2>4. \A x \in FreeIn(mem) \union U : mem'[x].size = mem[x].size /\ IsHeader(mem'[x])
    BY <1>1, <2>3 DEF HeapOK, IsHeader
  <2>5. \A x \in FreeIn(mem) : mem'[x] = mem[x]
    BY <1>1, <1>3, <1>7, <2>2
  <2> QED
    BY <1>1, <1>7, <2>1, <2>4, <2>5, WriteLemma
<1>10. Uses(t)' = Uses(t)
  BY <1>2, <1>4 DEF Uses
<1>11. Kept(t)
  <2>1. ASSUME NEW u \in Tasks \ {t}, NEW c \in Uses(u), NEW x \in c .. c + mem[c].size - 1
        PROVE  mem'[x] = mem[x]
    <3>1. c \in Others(t) /\ c \in U /\ c # k.at
      BY <1>1, <1>3 DEF Others, U
    <3>2. c \in FreeIn(mem) \union U /\ k.at \in FreeIn(mem) \union U
      BY <1>3, <3>1
    <3>3. x \in 0..End-1 /\ x \notin k.at .. k.at + mem[k.at].size - 1
      BY <1>1, <3>1, <3>2, InsideLemma
    <3>4. k.at \in k.at .. k.at + mem[k.at].size - 1
      BY <1>1, <1>3, UnitsLemma
    <3> QED
      BY <1>7, <3>3, <3>4, UnitsLemma
  <2> QED
    BY <1>4, <2>1 DEF Kept
<1>12. TaskOK(t)'
  <2>1. \A l \in owned[t] : l.at \in U /\ l \in Held
    BY <1>2 DEF U, Uses, Types
  <2>2. \A l \in owned'[t] : l \in owned[t] /\ l.at # k.at
    BY <1>2, <1>4 DEF TaskOK
  <2>3. \A l \in owned'[t] : mem'[l.at] = mem[l.at]
    BY <1>1, <1>7, <2>1, <2>2
  <2>4. ASSUME NEW l \in owned'[t], NEW x \in l.at + 1 .. l.at + l.filled
        PROVE  mem'[x] = Data(t)
    <3>1. mem[x] = Data(t) /\ l.filled <= mem[l.at].size - 1 /\ l.filled \in Int
      BY <1>2, <2>1, <2>2, UnitsLemma DEF TaskOK, Held
    <3>2. x \in l.at .. l.at + mem[l.at].size - 1
      BY <1>1, <2>1, <2>2, <3>1
    <3>3. x \in 0..End-1 /\ x \notin k.at .. k.at + mem[k.at].size - 1
      <4>1. l.at \in FreeIn(mem) \union U /\ k.at \in FreeIn(mem) \union U /\ k.at # l.at
        BY <1>3, <2>1, <2>2
      <4> QED
        BY <1>1, <3>2, <4>1, InsideLemma
    <3>4. k.at \in k.at .. k.at + mem[k.at].size - 1
      BY <1>1, <1>3, UnitsLemma
    <3> QED
      BY <1>7, <3>1, <3>3, <3>4, UnitsLemma
  <2> QED
    BY <1>2, <1>4, <1>8, <2>2, <2>3, <2>4 DEF TaskOK
<1>13. HeapOK(mem', start', Uses(t)' \union Others(t)) /\ Separate(mem')
  BY <1>1, <1>4, <1>9, <1>10 DEF U
<1>14. Inv' /\ InUse' = Uses(t)' \union Others(t)
  BY <1>1, <1>5, <1>10, <1>11, <1>12, <1>13, StepLemma
<1>15. InUse' = InUse /\ InUse = U
  BY <1>10, <1>14, SplitUse DEF U
<1>16. \A c \in U : mem'[c].size = mem[c].size
  BY <1>1, <1>7, <1>8
<1> QED
  BY <1>14, <1>15, <1>16 DEF KeepsBlocks

LEMMA FreeEndStep ==
  ASSUME Inv, NEW t \in Tasks, FreeEnd(t)
  PROVE  Inv' /\ GivesBack(old[t].at)
<1> DEFINE b == old[t].at
           U == Uses(t) \union Others(t)
           m == Filled(mem, b + 1, b + mem[b].size - 1, "raw")
           h == InsertBlockIntoFreeList(m, start, b)
<1>1. /\ HeapOK(mem, start, U) /\ Separate(mem) /\ Uses(t) \intersect Others(t) = {}
      /\ \A c \in U : c \in 0..End-1 /\ c \in 0..End /\ c \in Int /\ c \notin FreeIn(mem)
                      /\ mem[c].size \in Int /\ mem[c].size \in 1..Units
  BY SplitUse
<1>2. mem' = h.mem /\ start' = h.start /\ pc[t] = "free"
  BY Zenon DEF FreeEnd
<1>3. Types /\ TaskOK(t)
  BY DEF Inv
<1>4. b \in Uses(t) /\ b \in U /\ b \notin Others(t)
  BY <1>1, <1>2 DEF Uses
<1>5. /\ owned' = owned /\ new' = new /\ pc'[t] = "out"
      /\ \A u \in Tasks \ {t} : pc'[u] = pc[u] /\ old'[u] = old[u]
  BY <1>3 DEF FreeEnd, Types
<1>6. Types'
  <2>1. NoBlock \in Held
    BY UnitsLemma DEF NoBlock, Held
  <2> QED
    BY <1>3, <2>1 DEF FreeEnd, Types
<1> HIDE DEF U
<1>7. FilledIn(mem, start, U, b, "raw", m)
  <2> HIDE DEF b, m
  <2>1. m = Filled(mem, b + 1, b + mem[b].size - 1, "raw") /\ "raw" \in Tasks \union {"raw", "zero"}
    BY DEF m
  <2> QED
    BY <1>1, <1>4, <2>1, FilledLemma, Zenon
<1> HIDE DEF m
<1>8. /\ HeapOK(m, start, U) /\ FreeIn(m) = FreeIn(mem) /\ Separate(m)
      /\ \A u \in 0..End : u \notin b + 1 .. b + mem[b].size - 1 => m[u] = mem[u]
  BY <1>1, <1>7 DEF FilledIn
<1>9. InOrder(m, start, U, b, h)
  <2> HIDE DEF b, h
  <2>1. h = InsertBlockIntoFreeList(m, start, b)
    BY DEF h
  <2> QED
    BY <1>4, <1>8, <2>1, InsertLemma, Zenon
<1> HIDE DEF h
<1>10. /\ HeapOK(mem', start', U \ {b}) /\ Separate(mem')
       /\ \A u \in 0..End : u \notin FreeIn(mem) \union {b} => mem'[u] = m[u]
  BY <1>2, <1>8, <1>9 DEF InOrder
<1>11. ASSUME NEW c \in U, c # b, NEW x \in c .. c + mem[c].size - 1
       PROVE  mem'[x] = mem[x]
  <2>1. c \in FreeIn(mem) \union U /\ b \in FreeIn(mem) \union U /\ c \notin FreeIn(mem)
    BY <1>1, <1>4
  <2> HIDE DEF b
  <2>2. /\ x \in 0..End-1 /\ x \notin b .. b + mem[b].size - 1
        /\ x # c => x \notin FreeIn(mem) \union U
    BY <1>1, <1>11, <2>1, InsideLemma
  <2>3. x \notin FreeIn(mem)
    BY <2>1, <2>2
  <2>4. b \in b .. b + mem[b].size - 1 /\ b + 1 .. b + mem[b].size - 1 \subseteq b .. b + mem[b].size - 1
    BY <1>1, <1>4, UnitsLemma
  <2>5. x \in 0..End /\ x # b /\ x \notin b + 1 .. b + mem[b].size - 1
    BY <2>2, <2>4, UnitsLemma
  <2> QED
    BY <1>8, <1>10, <2>3, <2>5
<1>12. Uses(t)' = Uses(t) \ {b}
  <2>1. Uses(t) = {k.at : k \in owned[t]} \union {b}
    BY <1>2 DEF Uses
  <2>2. Uses(t)' = {k.at : k \in owned[t]}
    BY <1>5 DEF Uses
  <2>3. b \notin {k.at : k \in owned[t]}
    BY <1>2, <1>3 DEF TaskOK
  <2> QED
    BY <2>1, <2>2, <2>3
<1>13. Kept(t)
  <2>1. \A u \in Tasks \ {t} : \A c \in Uses(u) : c \in U /\ c # b
    BY <1>4 DEF Others, U
  <2> QED
    BY <1>5, <1>11, <2>1 DEF Kept
<1>14. TaskOK(t)'
  <2>1. \A l \in owned[t] : l.at \in U /\ l.at # b /\ l \in Held
    BY <1>2, <1>3 DEF U, Uses, Types, TaskOK
  <2>2. \A l \in owned[t] : mem'[l.at] = mem[l.at]
    <3> TAKE l \in owned[t]
    <3>1. l.at \in l.at .. l.at + mem[l.at].size - 1
      BY <1>1, <2>1, UnitsLemma
    <3> QED
      BY <1>11, <2>1, <3>1
  <2>3. ASSUME NEW l \in owned[t], NEW x \in l.at + 1 .. l.at + l.filled
        PROVE  mem'[x] = Data(t)
    <3>1. mem[x] = Data(t) /\ l.filled <= mem[l.at].size - 1 /\ l.filled \in Int
      BY <1>3, <2>1, UnitsLemma DEF TaskOK, Held
    <3>2. x \in l.at .. l.at + mem[l.at].size - 1
      BY <1>1, <2>1, <3>1
    <3> QED
      BY <1>11, <2>1, <3>1, <3>2
  <2> QED
    BY <1>3, <1>5, <2>2, <2>3 DEF TaskOK
<1>15. Uses(t)' \union Others(t) = U \ {b} /\ Uses(t)' \intersect Others(t) = {}
  BY <1>1, <1>4, <1>12 DEF U
<1>16. Inv' /\ InUse' = U \ {b}
  BY <1>6, <1>10, <1>13, <1>14, <1>15, StepLemma
<1>17. InUse = U
  BY SplitUse DEF U
<1>18. \A c \in U \ {b} : mem'[c].size = mem[c].size
  <2> TAKE c \in U \ {b}
  <2>1. c \in c .. c + mem[c].size - 1
    BY <1>1, UnitsLemma
  <2> QED
    BY <1>11, <2>1
<1> QED
  BY <1>4, <1>16, <1>17, <1>18 DEF GivesBack


LEMMA ReAllocBeginStep ==
  ASSUME Inv, NEW t \in Tasks, NEW k \in owned[t], NEW n \in Nat, ReAllocBegin(t, k, n)
  PROVE  /\ Inv'
         /\ \/ Halt(t) /\ KeepsBlocks
            \/ /\ MallocSucceeds(n, "zero")
               /\ TakesBlock(Take(WantedSize(n) \div ALIGN).at, Take(WantedSize(n) \div ALIGN).size)
<1> DEFINE got == Take(WantedSize(n) \div ALIGN)
           l == [at |-> got.at, filled |-> got.size - 1]
           U == Uses(t) \union Others(t)
<1>1. pc[t] = "out" /\ ALIGN * (mem[k.at].size - 1) < n
  BY Zenon DEF ReAllocBegin
<1>2. CASE Halt(t)
  BY <1>1, <1>2, HaltStep
<1>3. CASE /\ MallocSucceeds(n, "zero")
           /\ old' = [old EXCEPT ![t] = k] /\ new' = [new EXCEPT ![t] = l]
           /\ pc' = [pc EXCEPT ![t] = "copy"] /\ UNCHANGED owned
  <2>1. /\ HeapOK(mem, start, U) /\ Separate(mem) /\ Uses(t) \intersect Others(t) = {}
        /\ \A c \in U : c \in Int /\ mem[c].size \in Int /\ mem[c].size \in 1..Units
    BY SplitUse
  <2> HIDE DEF U
  <2>2. Allocated(U, n, "zero", got)
    <3>1. "zero" \in Tasks \union {"raw", "zero"}
      OBVIOUS
    <3> QED
      BY <1>3, <2>1, <3>1, MallocLemma, Zenon
  <2> HIDE DEF got
  <2>3. /\ got.at \in (0..End-1) \ U
        /\ got.size \in 1..Units /\ ALIGN * (got.size - 1) >= n
        /\ HeapOK(mem', start', U \union {got.at}) /\ Separate(mem')
        /\ mem'[got.at] = Header(NULL, got.size, TRUE)
        /\ \A c \in U : \A x \in c .. c + mem[c].size - 1 : mem'[x] = mem[x]
    BY <2>2 DEF Allocated
  <2>4. l \in Held /\ l.at = got.at
    BY <2>3, UnitsLemma DEF Held
  <2> HIDE DEF l
  <2>5. Types /\ TaskOK(t)
    BY DEF Inv
  <2>6. Types'
    BY <1>3, <2>4, <2>5 DEF Types
  <2>7. pc'[t] = "copy" /\ old'[t] = k /\ new'[t] = l /\ owned' = owned
    BY <1>3, <2>5 DEF Types
  <2>8. Uses(t)' = Uses(t) \union {got.at}
    BY <1>1, <2>4, <2>7 DEF Uses
  <2>9. Kept(t)
    <3>1. ASSUME NEW u \in Tasks \ {t}
          PROVE  /\ pc'[u] = pc[u] /\ old'[u] = old[u] /\ new'[u] = new[u]
                 /\ \A c \in Uses(u) : c \in U
      BY <1>3, <2>5 DEF Types, Others, U
    <3> QED
      BY <2>3, <2>7, <3>1 DEF Kept
  <2>10. Uses(t)' \union Others(t) = U \union {got.at} /\ Uses(t)' \intersect Others(t) = {}
    BY <2>1, <2>3, <2>8 DEF U
  <2>11. \A j \in owned[t] : j.at \in U /\ j \in Held /\ j.at # got.at
    BY <2>3, <2>5 DEF U, Uses, Types
  <2>12. \A c \in U : mem'[c] = mem[c]
    <3> TAKE c \in U
    <3>1. c \in c .. c + mem[c].size - 1
      BY <2>1, UnitsLemma
    <3> QED
      BY <2>3, <3>1
  <2>13. ASSUME NEW j \in owned[t], NEW x \in j.at + 1 .. j.at + j.filled
         PROVE  mem'[x] = Data(t)
    <3>1. mem[x] = Data(t) /\ j.filled <= mem[j.at].size - 1 /\ j.filled \in Int
      BY <2>5, <2>11, UnitsLemma DEF TaskOK, Held
    <3>2. x \in j.at .. j.at + mem[j.at].size - 1
      BY <2>1, <2>11, <3>1
    <3> QED
      BY <2>3, <2>11, <3>1, <3>2
  <2>14. mem'[l.at].alloc /\ mem'[k.at].size <= mem'[l.at].size
    <3>1. mem'[l.at].alloc /\ mem'[l.at].size = got.size
      BY <2>3, <2>4 DEF Header
    <3>2. mem'[k.at].size = mem[k.at].size /\ mem[k.at].size \in Int
      BY <2>1, <2>11, <2>12
    <3> QED
      BY <1>1, <2>3, <3>1, <3>2, UnitsLemma DEF ALIGN
  <2>15. \A j \in owned[t] : mem'[j.at] = mem[j.at] /\ j.at # l.at
    BY <2>4, <2>11, <2>12
  <2>16. TaskOK(t)'
    BY <2>5, <2>7, <2>13, <2>14, <2>15 DEF TaskOK
  <2>17. Inv' /\ InUse' = U \union {got.at}
    BY <2>3, <2>6, <2>9, <2>10, <2>16, StepLemma
  <2>18. TakesBlock(got.at, got.size)
    <3>1. InUse = U
      BY SplitUse DEF U
    <3>2. mem'[got.at].size = got.size
      BY <2>3 DEF Header
    <3> QED
      BY <2>3, <2>12, <2>17, <3>1, <3>2 DEF TakesBlock
  <2> QED
    BY <1>3, <2>17, <2>18, Zenon DEF got
<1> QED
  BY <1>2, <1>3, Zenon DEF ReAllocBegin

LEMMA ReAllocCopyStep ==
  ASSUME Inv, NEW t \in Tasks, ReAllocCopy(t)
  PROVE  Inv' /\ KeepsBlocks
<1> DEFINE k == old[t]
           a == old[t].at
           c == new[t].at
           n == [at |-> c, filled |-> k.filled]
           U == Uses(t) \union Others(t)
           I == c + 1 .. c + (mem[a].size - 1)
<1>1. /\ pc[t] = "copy" /\ start' = start /\ old' = old
      /\ mem' = [u \in 0..End |-> IF u \in I THEN mem[a + (u - c)]
                                 ELSE IF u = a THEN Header(NULL, mem[u].size, FALSE)
                                 ELSE mem[u]]
      /\ owned' = [owned EXCEPT ![t] = (@ \ {k}) \union {n}]
      /\ new' = [new EXCEPT ![t] = NoBlock] /\ pc' = [pc EXCEPT ![t] = "free"]
  BY Zenon DEF ReAllocCopy
<1>2. /\ HeapOK(mem, start, U) /\ Separate(mem) /\ Uses(t) \intersect Others(t) = {}
      /\ \A d \in U : /\ d \in 0..End-1 /\ d \in 0..End /\ d \in Int /\ d \notin FreeIn(mem)
                      /\ mem[d].size \in Int /\ mem[d].size \in 1..Units
                      /\ d + mem[d].size <= End /\ IsHeader(mem[d]) /\ mem[d].next = NULL
  BY SplitUse
<1>3. Types /\ TaskOK(t)
  BY DEF Inv
<1>4. /\ k \in owned[t] /\ k \in Held /\ new[t] \in Held
      /\ \A l \in owned[t] : l.at # c /\ l \in Held /\ l.at \in Uses(t) /\ l.at \in U
      /\ \A l \in owned[t] : l.at = a => l = k
      /\ mem[c].alloc /\ mem[a].size <= mem[c].size
  BY <1>1, <1>3 DEF TaskOK, Types, Uses, U
<1>5. a \in Uses(t) /\ a \in U /\ c \in Uses(t) /\ c \in U /\ a # c
  <2>1. c \in Uses(t)
    BY <1>1 DEF Uses
  <2> QED
    BY <1>4, <2>1 DEF U
<1>6. n \in Held /\ n.at = c /\ n.filled = k.filled
  BY <1>4 DEF Held
<1> HIDE DEF U, n
<1>7. mem \in [0..End -> Unit]
  BY <1>2 DEF HeapOK
<1>8. /\ a \in Int /\ c \in Int /\ mem[a].size \in Int /\ mem[c].size \in Int
      /\ mem[a].size >= 1 /\ mem[c].size >= 1 /\ a \in 0..End /\ c \in 0..End
  BY <1>2, <1>5, UnitsLemma
\* The units that are copied, and those they are copied to, are inside the two blocks.
<1>9. ASSUME NEW u \in I
      PROVE  /\ u \in 0..End /\ u \in c .. c + mem[c].size - 1 /\ u # c
             /\ u \notin FreeIn(mem) \union U /\ mem[u].next = NULL
             /\ a + (u - c) \in a .. a + mem[a].size - 1 /\ mem[a + (u - c)] \in Unit
             /\ mem[a + (u - c)].next = NULL
  <2>1. c \in FreeIn(mem) \union U /\ a \in FreeIn(mem) \union U
    BY <1>5
  <2>2. u \in c .. c + mem[c].size - 1 /\ u # c
    BY <1>4, <1>8
  <2>3. a + (u - c) \in a .. a + mem[a].size - 1 /\ a + (u - c) # a
    BY <1>8
  <2> DEFINE v == a + (u - c)
  <2>4. v \in a .. a + mem[a].size - 1 /\ v # a
    BY <2>3
  <2> HIDE DEF v, a, c, I
  <2>5. u \in 0..End-1 /\ u \notin FreeIn(mem) \union U
    BY <1>2, <2>1, <2>2, InsideLemma
  <2>6. v \in 0..End-1 /\ v \notin FreeIn(mem) \union U
    BY <1>2, <2>1, <2>4, InsideLemma
  <2>7. mem[u].next = NULL /\ mem[v].next = NULL
    BY <2>5, <2>6 DEF FreeIn
  <2>8. u \in 0..End /\ v \in 0..End
    BY <2>5, <2>6, UnitsLemma
  <2>9. mem[v] \in Unit
    BY <1>7, <2>8
  <2> QED
    BY <2>2, <2>3, <2>5, <2>7, <2>8, <2>9 DEF v
<1> HIDE DEF a, c, k, I
<1>10. /\ \A u \in I : mem'[u] = mem[a + (u - c)]
       /\ \A u \in 0..End : u \notin I /\ u # a => mem'[u] = mem[u]
       /\ a \notin I /\ mem'[a] = Header(NULL, mem[a].size, FALSE)
  BY <1>1, <1>5, <1>8, <1>9
<1>11. mem' \in [0..End -> Unit]
  <2>1. Header(NULL, mem[a].size, FALSE) \in Unit
    <3>1. mem[a].size \in 0..Units
      BY <1>7, <1>8 DEF Unit
    <3> QED
      BY <3>1 DEF Header, Unit
  <2> QED
    BY <1>1, <1>7, <1>9, <2>1
<1>12. mem'[a].next = NULL /\ mem'[a].size = mem[a].size /\ mem'[a].data = "header" /\ ~mem'[a].alloc
  BY <1>10 DEF Header
<1>13. HeapOK(mem', start, U) /\ FreeIn(mem') = FreeIn(mem) /\ (Separate(mem) => Separate(mem'))
  <2>1. \A u \in 0..End : mem'[u].next = mem[u].next
    <3> TAKE u \in 0..End
    <3>1. CASE u \in I
      BY <1>9, <1>10, <3>1
    <3>2. CASE u = a
      BY <1>2, <1>5, <1>12, <3>2
    <3>3. CASE u \notin I /\ u # a
      BY <1>10, <3>3
    <3> QED
      BY <3>1, <3>2, <3>3
  <2>2. FreeIn(mem) \union U \subseteq 0..End
    BY <1>2, HeapFacts, UnitsLemma
  <2>3. \A u \in FreeIn(mem) \union U : u # a => mem'[u] = mem[u]
    BY <1>9, <1>10, <2>2
  <2>4. \A u \in FreeIn(mem) \union U : mem'[u].size = mem[u].size /\ IsHeader(mem'[u])
    BY <1>2, <1>12, <2>3 DEF HeapOK, IsHeader
  <2>5. \A u \in FreeIn(mem) : mem'[u] = mem[u]
    BY <1>2, <1>5, <2>3
  <2> QED
    BY <1>2, <1>11, <2>1, <2>4, <2>5, WriteLemma
<1>14. /\ owned'[t] = (owned[t] \ {k}) \union {n} /\ pc'[t] = "free" /\ old'[t] = k
       /\ \A u \in Tasks \ {t} : owned'[u] = owned[u] /\ pc'[u] = pc[u] /\ old'[u] = old[u] /\ new'[u] = new[u]
  BY <1>1, <1>3 DEF Types, k
<1>15. Types'
  <2>1. NoBlock \in Held
    BY UnitsLemma DEF NoBlock, Held
  <2> QED
    BY <1>1, <1>3, <1>6, <2>1 DEF Types
<1>16. Uses(t)' = Uses(t)
  <2>1. Uses(t) = {l.at : l \in owned[t]} \union {c}
    BY <1>1 DEF Uses, c
  <2>2. Uses(t)' = {l.at : l \in owned'[t]} \union {a}
    BY <1>14 DEF Uses, a, k
  <2>3. k.at = a
    BY DEF a, k
  <2> QED
    BY <1>4, <1>6, <1>14, <2>1, <2>2, <2>3
<1>17. ASSUME NEW d \in U, d # a, d # c, NEW x \in d .. d + mem[d].size - 1
       PROVE  mem'[x] = mem[x]
  <2>1. d \in FreeIn(mem) \union U /\ a \in FreeIn(mem) \union U /\ c \in FreeIn(mem) \union U
    BY <1>5
  <2>2. /\ x \in 0..End-1 /\ x \notin a .. a + mem[a].size - 1
        /\ x \notin c .. c + mem[c].size - 1
    BY <1>2, <1>17, <2>1, InsideLemma
  <2>3. a \in a .. a + mem[a].size - 1
    BY <1>8
  <2>4. x \in 0..End /\ x # a /\ x \notin I
    BY <1>9, <2>2, <2>3, UnitsLemma
  <2> QED
    BY <1>10, <2>4
<1>18. Kept(t)
  <2>1. \A u \in Tasks \ {t} : \A d \in Uses(u) : d \in U /\ d # a /\ d # c
    BY <1>2, <1>5 DEF Others, U
  <2> QED
    BY <1>14, <1>17, <2>1 DEF Kept
<1>19. TaskOK(t)'
  <2>1. \A l \in owned[t] \ {k} : l.at # a /\ l.at # c /\ l.at \in U /\ l \in Held
    BY <1>4
  <2>2. \A l \in owned[t] \ {k} : mem'[l.at] = mem[l.at]
    <3> TAKE l \in owned[t] \ {k}
    <3>1. l.at \in l.at .. l.at + mem[l.at].size - 1
      BY <1>2, <2>1, UnitsLemma
    <3> QED
      BY <1>17, <2>1, <3>1
  <2>3. ASSUME NEW l \in owned[t] \ {k}, NEW x \in l.at + 1 .. l.at + l.filled
        PROVE  mem'[x] = Data(t)
    <3>1. mem[x] = Data(t) /\ l.filled <= mem[l.at].size - 1 /\ l.filled \in Int
      BY <1>3, <2>1, UnitsLemma DEF TaskOK, Held
    <3>2. x \in l.at .. l.at + mem[l.at].size - 1
      BY <1>2, <2>1, <3>1
    <3> QED
      BY <1>17, <2>1, <3>1, <3>2
  <2>4. c \notin I /\ mem'[c] = mem[c]
    BY <1>5, <1>8, <1>9, <1>10
  <2>5. k.at = a /\ k.filled \in Int /\ k.filled <= mem[a].size - 1
    <3>1. k.at = a
      BY DEF a, k
    <3> QED
      BY <1>3, <1>4, <3>1, UnitsLemma DEF TaskOK, Held
  <2>6. mem'[n.at].alloc /\ n.filled <= mem'[n.at].size - 1
    BY <1>4, <1>6, <1>8, <2>4, <2>5
  <2>7. ASSUME NEW x \in n.at + 1 .. n.at + n.filled
        PROVE  mem'[x] = Data(t)
    <3>1. x \in I
      BY <1>6, <1>8, <2>5 DEF I
    <3>2. a + (x - c) \in a + 1 .. a + k.filled
      BY <1>6, <1>8, <2>5
    <3>3. \A y \in k.at + 1 .. k.at + k.filled : mem[y] = Data(t)
      BY <1>3, <1>4 DEF TaskOK
    <3> QED
      BY <1>10, <2>5, <3>1, <3>2, <3>3
  <2>8. \A i, j \in owned'[t] : i.at = j.at => i = j
    BY <1>3, <1>6, <1>14, <2>1 DEF TaskOK
  <2>9. \A l \in owned'[t] : mem'[l.at].alloc /\ l.filled <= mem'[l.at].size - 1
    BY <1>3, <1>14, <2>2, <2>6 DEF TaskOK
  <2>10. \A l \in owned'[t] : \A x \in l.at + 1 .. l.at + l.filled : mem'[x] = Data(t)
    BY <1>14, <2>3, <2>7
  <2>11. ~mem'[old'[t].at].alloc /\ \A l \in owned'[t] : l.at # old'[t].at
    BY <1>5, <1>6, <1>12, <1>14, <2>1, <2>5
  <2> QED
    BY <1>14, <2>8, <2>9, <2>10, <2>11 DEF TaskOK
<1>20. HeapOK(mem', start', Uses(t)' \union Others(t)) /\ Separate(mem')
  BY <1>1, <1>2, <1>13, <1>16 DEF U
<1>21. Inv' /\ InUse' = Uses(t)' \union Others(t)
  BY <1>2, <1>15, <1>16, <1>18, <1>19, <1>20, StepLemma
<1>22. InUse' = InUse /\ InUse = U
  BY <1>16, <1>21, SplitUse DEF U
<1>23. \A d \in U : mem'[d].size = mem[d].size
  <2>1. \A d \in U : d # a => d \notin I
    BY <1>9
  <2> QED
    BY <1>2, <1>10, <1>12, <2>1
<1> QED
  BY <1>21, <1>22, <1>23 DEF KeepsBlocks


-----------------------------------------------------------------------------
(* The theorems *)

LEMMA InitInv == Init => Inv
<1> SUFFICES ASSUME Init PROVE Inv
  OBVIOUS
<1>1. /\ owned = [t \in Tasks |-> {}] /\ pc = [t \in Tasks |-> "out"]
      /\ old = [t \in Tasks |-> NoBlock] /\ new = [t \in Tasks |-> NoBlock] /\ start = 0
  BY DEF Init
<1>2. Types
  <2>1. NoBlock \in Held
    BY UnitsLemma DEF NoBlock, Held
  <2> QED
    BY <1>1, <2>1 DEF Types
<1>3. \A t \in Tasks : Uses(t) = {} /\ TaskOK(t)
  BY <1>1 DEF Uses, TaskOK
<1>4. InUse = {} /\ Apart
  BY <1>3 DEF InUse, Apart
<1>5. 0 \in 0..End /\ 0 \in 0..End-1 /\ End # 0 /\ End # NULL /\ End \in 0..End
  BY UnitsLemma DEF NULL
<1>6. mem = [u \in 0..End |-> IF u = 0 THEN Header(End, Units, FALSE)
                             ELSE IF u = End THEN Header(NULL, 0, FALSE) ELSE Raw]
  BY <1>5 DEF Init
<1>7. /\ mem[0] = Header(End, Units, FALSE)
      /\ \A u \in 0..End : u # 0 => mem[u].next = NULL /\ mem[u] \in Unit
  <2>1. Header(NULL, 0, FALSE) \in Unit /\ Header(NULL, 0, FALSE).next = NULL
    BY UnitsLemma DEF Header, Unit
  <2>2. Raw \in Unit /\ Raw.next = NULL
    BY UnitsLemma DEF Raw, Data, Unit
  <2> QED
    BY <1>5, <1>6, <2>1, <2>2
<1>8. mem[0].next = End /\ mem[0].size = Units /\ ~mem[0].alloc /\ IsHeader(mem[0]) /\ mem[0] \in Unit
  <2>1. Header(End, Units, FALSE) \in Unit
    BY <1>5, UnitsLemma DEF Header, Unit
  <2> QED
    BY <1>7, <2>1 DEF Header, IsHeader
<1>9. mem \in [0..End -> Unit]
  BY <1>6, <1>7, <1>8
<1>10. FreeIn(mem) = {0}
  <2>1. \A u \in 0..End-1 : u \in 0..End
    BY UnitsLemma
  <2> QED
    BY <1>5, <1>7, <1>8, <2>1 DEF FreeIn
<1>11. Chain({0}, Links(mem, start))
  <2>1. Links(mem, start)[0] = End /\ Links(mem, start)[Start] = 0
    <3>1. NextOf(mem, start, 0) = End /\ NextOf(mem, start, Start) = 0
      BY <1>1, <1>8 DEF NextOf, Start
    <3>2. 0 \in Start..End /\ Start \in Start..End
      BY UnitsLemma DEF Start
    <3> QED
      BY <3>1, <3>2 DEF Links
  <2> QED
    BY <2>1, UnitsLemma DEF Chain, Start
<1>12. Tiles({0} \union {}, Sizes(mem))
  <2>1. Sizes(mem)[0] = Units
    BY <1>5, <1>8 DEF Sizes
  <2> QED
    BY <2>1, UnitsLemma DEF Tiles
<1>13. HeapOK(mem, start, {})
  BY <1>1, <1>5, <1>8, <1>9, <1>10, <1>11, <1>12 DEF HeapOK
<1>14. Separate(mem)
  BY <1>5, <1>8, <1>10, UnitsLemma DEF Separate
<1> QED
  BY <1>2, <1>3, <1>4, <1>13, <1>14 DEF Inv

\* The tasks ask for numbers of bytes.
LEMMA RequestLemma ==
  ASSUME NEW r \in Requests
  PROVE  r[1] \in Nat /\ r[2] \in Nat /\ r[1] * r[2] \in Nat
<1>1. r[1] \in Nat /\ r[2] \in Nat
  BY RequestsAssumption
<1> QED
  BY <1>1

LEMMA NextInv == Inv /\ [Next]_vars => Inv'
<1> SUFFICES ASSUME Inv, [Next]_vars PROVE Inv'
  OBVIOUS
<1>1. ASSUME NEW t \in Tasks, NEW r \in Requests, Alloc(t, r[1], r[2]) PROVE Inv'
  <2> DEFINE n == r[1] * r[2]
  <2>1. n \in Nat
    BY RequestLemma
  <2>2. pc[t] = "out"
    BY <1>1 DEF Alloc
  <2>3. CASE ~Fits(n) /\ Halt(t)
    BY <2>2, <2>3, HaltStep
  <2>4. CASE /\ MallocSucceeds(n, t)
             /\ owned' = [owned EXCEPT ![t] = @ \union {[at |-> Take(WantedSize(n) \div ALIGN).at,
                                                        filled |-> Take(WantedSize(n) \div ALIGN).size - 1]}]
             /\ UNCHANGED <<pc, old, new>>
    <3> HIDE DEF n
    <3> QED
      BY <2>1, <2>2, <2>4, AllocStep, Zenon
  <2> QED
    BY <1>1, <2>3, <2>4, Zenon DEF Alloc
<1>2. ASSUME NEW t \in Tasks, NEW k \in owned[t], FreeBegin(t, k) PROVE Inv'
  BY <1>2, FreeBeginStep
<1>3. ASSUME NEW t \in Tasks, NEW k \in owned[t], NEW r \in Requests, ReAllocBegin(t, k, r[2])
      PROVE  Inv'
  <2>1. r[2] \in Nat
    BY RequestLemma
  <2> QED
    BY <1>3, <2>1, ReAllocBeginStep
<1>4. ASSUME NEW t \in Tasks, ReAllocCopy(t) PROVE Inv'
  BY <1>4, ReAllocCopyStep
<1>5. ASSUME NEW t \in Tasks, FreeEnd(t) PROVE Inv'
  BY <1>5, FreeEndStep
<1>6. CASE UNCHANGED vars
  <2>1. mem' = mem /\ start' = start /\ owned' = owned /\ pc' = pc /\ old' = old /\ new' = new
    BY <1>6 DEF vars, heapVars
  <2>2. \A t \in Tasks : Uses(t)' = Uses(t) /\ TaskOK(t)'
    <3> TAKE t \in Tasks
    <3>1. Uses(t)' = Uses(t)
      BY <2>1 DEF Uses
    <3>2. TaskOK(t)
      BY DEF Inv
    <3>3. TaskOK(t)'
      BY <2>1, <3>2 DEF TaskOK
    <3> QED
      BY <3>1, <3>3
  <2>3. InUse' = InUse /\ Apart'
    BY <2>2 DEF Inv, InUse, Apart
  <2>4. Types'
    BY <2>1 DEF Inv, Types
  <2> QED
    BY <2>1, <2>2, <2>3, <2>4 DEF Inv
<1> QED
  BY <1>1, <1>2, <1>3, <1>4, <1>5, <1>6 DEF Next

\* The blocks a task has a pointer to have headers that nothing else overwrites, and the
\* heap is in order: the invariant of every step of vPortFree, vPortReAlloc and the two
\* functions that allocate.
THEOREM Invariance == Spec => []Inv
<1>1. Init => Inv
  BY InitInv
<1>2. Inv /\ [Next]_vars => Inv'
  BY NextInv
<1> QED
  BY <1>1, <1>2, PTL DEF Spec

LEMMA InUseLemma ==
  ASSUME Inv
  PROVE  /\ Blocks = FreeIn(mem) \union InUse /\ Taken \union Releasing = InUse
         /\ Taken \intersect Releasing = {}
         /\ \A b \in Taken : mem[b].alloc
         /\ \A b \in Releasing : ~mem[b].alloc
<1>1. Taken \union Releasing = InUse
  BY DEF Taken, Releasing, InUse, Uses
<1>2. \A b \in Taken : mem[b].alloc
  BY DEF Taken, Inv, TaskOK
<1>3. \A b \in Releasing : ~mem[b].alloc
  BY DEF Releasing, Inv, TaskOK
<1> QED
  BY <1>1, <1>2, <1>3 DEF Blocks, Free

\* The headers tile the heap, each block is free, held or being released, and the list
\* leads through the free ones in order: prvInsertBlockIntoFreeList and the split in
\* pvPortMalloc lose and overlap nothing, for every heap and every run.
THEOREM BlocksTileHolds == Spec => []BlocksTile
<1>1. Inv => BlocksTile
  <2> SUFFICES ASSUME Inv PROVE BlocksTile
    OBVIOUS
  <2>1. HeapOK(mem, start, InUse)
    BY DEF Inv
  <2>2. Blocks = FreeIn(mem) \union InUse
    BY InUseLemma
  <2>3. \A u \in 0..End-1 : \E b \in Blocks : \A c \in Blocks : u \in Extent(c) <=> c = b
    <3> TAKE u \in 0..End-1
    <3>1. \A c \in Blocks : c \in 0..End /\ c \in Int /\ mem[c].size \in Int
      BY <2>1, <2>2, HeapFacts, UnitsLemma
    <3>2. PICK b \in Blocks : b <= u /\ u < b + mem[b].size
      <4>1. PICK b \in FreeIn(mem) \union InUse : b <= u /\ u < b + Sizes(mem)[b]
        BY <2>1, Zenon DEF HeapOK, Tiles
      <4>2. Sizes(mem)[b] = mem[b].size
        BY <2>2, <3>1 DEF Sizes
      <4> QED
        BY <2>2, <4>1, <4>2
    <3>3. u \in b .. b + mem[b].size - 1
      BY <3>1, <3>2, UnitsLemma
    <3>4. \A c \in Blocks : c # b => u \notin c .. c + mem[c].size - 1
      BY <2>1, <2>2, <3>3, InsideLemma
    <3> WITNESS b \in Blocks
    <3> QED
      BY <3>3, <3>4 DEF Extent
  <2>4. \A b \in Blocks : IsHeader(mem[b]) /\ b + mem[b].size <= End
    BY <2>1, <2>2, HeapFacts DEF HeapOK
  <2>5. Free \intersect (Taken \union Releasing) = {} /\ Taken \intersect Releasing = {}
    BY <2>1, InUseLemma DEF Free, HeapOK
  <2>6. /\ \A b \in Taken : mem[b].alloc
        /\ \A b \in Free \union Releasing : ~mem[b].alloc
    BY <2>1, InUseLemma DEF Free, HeapOK
  <2>7. ASSUME NEW a \in Free \union {Start}
        PROVE  /\ NextOf(mem, start, a) \in Free \union {End} /\ NextOf(mem, start, a) > a
               /\ Free \intersect a+1 .. NextOf(mem, start, a)-1 = {}
    <3> DEFINE n == NextOf(mem, start, a)
    <3>1. /\ n \in Free \union {End} /\ n > a /\ n \in Int /\ a \in Int
          /\ \A c \in Free : c <= a \/ n <= c
      BY <2>1, HeapFacts DEF Free
    <3>2. \A c \in Free : c \in Int
      BY <2>1, HeapFacts DEF Free
    <3> HIDE DEF n
    <3>3. \A c \in Free : c \notin a+1 .. n-1
      BY <3>1, <3>2
    <3> QED
      BY <3>1, <3>3 DEF n
  <2> QED
    BY <2>3, <2>4, <2>5, <2>6, <2>7, Zenon DEF BlocksTile
<1> QED
  BY <1>1, Invariance, PTL

\* No free block touches another: prvInsertBlockIntoFreeList merges on both sides.
THEOREM FullyMergedHolds == Spec => []FullyMerged
<1>1. Inv => FullyMerged
  BY DEF Inv, Separate, FullyMerged, Free
<1> QED
  BY <1>1, Invariance, PTL

\* What a task wrote into its blocks stays there until it frees them, and vPortReAlloc
\* carries it over.
THEOREM DataIntactHolds == Spec => []DataIntact
<1>1. Inv => DataIntact
  BY DEF Inv, TaskOK, DataIntact
<1> QED
  BY <1>1, Invariance, PTL

\* pvPortMalloc and pvPortCalloc never return a block that is smaller than what was
\* asked for, whatever the width of size_t: the product and the sums do not wrap.
THEOREM LargeEnoughHolds == Spec => LargeEnough
<1> DEFINE P == \A t \in Tasks, r \in Requests :
                  Alloc(t, r[1], r[2]) /\ pc'[t] = "out" =>
                    \E k \in owned'[t] \ owned[t] : ALIGN * (mem'[k.at].size - 1) >= r[1] * r[2]
<1>1. Inv => P
  <2> SUFFICES ASSUME Inv, NEW t \in Tasks, NEW r \in Requests,
                      Alloc(t, r[1], r[2]), pc'[t] = "out"
               PROVE  \E k \in owned'[t] \ owned[t] : ALIGN * (mem'[k.at].size - 1) >= r[1] * r[2]
    OBVIOUS
  <2> DEFINE n == r[1] * r[2]
             got == Take(WantedSize(n) \div ALIGN)
             k == [at |-> got.at, filled |-> got.size - 1]
             U == Uses(t) \union Others(t)
  <2>1. n \in Nat
    BY RequestLemma
  <2>2. ~Halt(t)
    BY DEF Halt, Inv, Types
  <2>3. MallocSucceeds(n, t) /\ owned' = [owned EXCEPT ![t] = @ \union {k}]
    BY <2>2, Zenon DEF Alloc
  <2>4. HeapOK(mem, start, U) /\ Separate(mem)
    BY SplitUse
  <2> HIDE DEF n, U
  <2>5. Allocated(U, n, t, got)
    BY <2>1, <2>3, <2>4, MallocLemma
  <2> HIDE DEF got
  <2>6. got.at \notin U /\ ALIGN * (got.size - 1) >= n /\ mem'[got.at] = Header(NULL, got.size, TRUE)
    BY <2>5 DEF Allocated
  <2>7. k.at = got.at /\ mem'[k.at].size = got.size
    BY <2>6 DEF Header
  <2>8. k \notin owned[t]
    BY <2>6, <2>7 DEF U, Uses
  <2> HIDE DEF k
  <2>9. k \in owned'[t] \ owned[t]
    BY <2>3, <2>8 DEF Inv, Types
  <2> QED
    BY <2>6, <2>7, <2>9 DEF n
<1>2. Inv /\ [Next]_vars => [P]_vars
  BY <1>1
<1> QED
  BY <1>2, Invariance, PTL DEF Spec, LargeEnough

-----------------------------------------------------------------------------
(* The counters *)

\* The units of the free blocks of heap m.
UnitsOf(m) == {u \in 0..End-1 : \E b \in FreeIn(m) : u \in b .. b + m[b].size - 1}

\* They are those that are in no block in use.
LEMMA UnitsOfLemma ==
  ASSUME NEW m, NEW s, NEW U, HeapOK(m, s, U)
  PROVE  /\ UnitsOf(m) = {u \in 0..End-1 : \A c \in U : u \notin c .. c + m[c].size - 1}
         /\ IsFiniteSet(UnitsOf(m)) /\ Cardinality(UnitsOf(m)) \in Nat
<1>1. ASSUME NEW u \in 0..End-1
      PROVE  (\E b \in FreeIn(m) : u \in b .. b + m[b].size - 1)
               <=> \A c \in U : u \notin c .. c + m[c].size - 1
  <2>1. PICK b \in FreeIn(m) \union U : b <= u /\ u < b + Sizes(m)[b]
    BY Zenon DEF HeapOK, Tiles
  <2>2. b \in Int /\ b \in 0..End /\ m[b].size \in Int /\ b + m[b].size <= End
    BY HeapFacts, UnitsLemma
  <2>3. u \in b .. b + m[b].size - 1
    BY <2>1, <2>2, UnitsLemma DEF Sizes
  <2>4. \A c \in FreeIn(m) \union U : c # b => u \notin c .. c + m[c].size - 1
    BY <2>3, InsideLemma
  <2>5. FreeIn(m) \intersect U = {}
    BY DEF HeapOK
  <2> QED
    BY <2>3, <2>4, <2>5
<1>2. UnitsOf(m) = {u \in 0..End-1 : \A c \in U : u \notin c .. c + m[c].size - 1}
  BY <1>1 DEF UnitsOf
<1>3. IsFiniteSet(0..End-1) /\ UnitsOf(m) \in SUBSET (0..End-1)
  BY UnitsLemma, FS_Interval DEF UnitsOf
<1>4. IsFiniteSet(UnitsOf(m))
  BY <1>3, FS_Subset
<1> QED
  BY <1>2, <1>4, FS_CardinalityType

\* A heap that differs in block b, which is in use in n only.
LEMMA UnitsTaken ==
  ASSUME NEW m, NEW s, NEW U, HeapOK(m, s, U), NEW n, NEW r, NEW b, b \notin U,
         HeapOK(n, r, U \union {b}), \A c \in U : n[c].size = m[c].size
  PROVE  Cardinality(UnitsOf(m)) = Cardinality(UnitsOf(n)) + n[b].size
<1> DEFINE E == b .. b + n[b].size - 1
           V == U \union {b}
<1>1. HeapOK(n, r, V) /\ b \in V /\ \A c \in V : c = b \/ c \in U
  OBVIOUS
<1>2. b \in Int /\ n[b].size \in 1..Units /\ n[b].size \in Int
  BY <1>1, HeapFacts
<1> HIDE DEF V
<1>3. \A u \in E : u \in 0..End-1 /\ \A c \in U : u \notin c .. c + m[c].size - 1
  <2> TAKE u \in E
  <2>1. b \in FreeIn(n) \union V /\ u \in b .. b + n[b].size - 1
    BY <1>1
  <2>2. u \in 0..End-1 /\ \A c \in FreeIn(n) \union V : c # b => u \notin c .. c + n[c].size - 1
    BY <1>1, <2>1, InsideLemma
  <2> QED
    BY <2>2 DEF V
<1>4. UnitsOf(n) = {u \in 0..End-1 : \A c \in V : u \notin c .. c + n[c].size - 1}
  BY <1>1, UnitsOfLemma
<1>5. UnitsOf(m) = {u \in 0..End-1 : \A c \in U : u \notin c .. c + m[c].size - 1}
  BY UnitsOfLemma
<1> HIDE DEF E
<1>6. \A u \in 0..End-1 : (\A c \in V : u \notin c .. c + n[c].size - 1)
                            <=> u \notin E /\ \A c \in U : u \notin c .. c + m[c].size - 1
  BY DEF V, E
<1>7. UnitsOf(m) = UnitsOf(n) \union E /\ UnitsOf(n) \intersect E = {}
  BY <1>3, <1>4, <1>5, <1>6
<1>8. IsFiniteSet(E) /\ Cardinality(E) = n[b].size
  BY <1>2, FS_Interval, UnitsLemma DEF E
<1>9. IsFiniteSet(UnitsOf(n)) /\ Cardinality(UnitsOf(n)) \in Nat
  BY <1>1, UnitsOfLemma
<1>10. Cardinality(UnitsOf(m)) = Cardinality(UnitsOf(n)) + n[b].size - 0
  BY <1>7, <1>8, <1>9, FS_Union, FS_EmptySet
<1> QED
  BY <1>2, <1>9, <1>10

LEMMA UnitsKept ==
  ASSUME NEW m, NEW s, NEW U, HeapOK(m, s, U), NEW n, NEW r, HeapOK(n, r, U),
         \A c \in U : n[c].size = m[c].size
  PROVE  UnitsOf(n) = UnitsOf(m)
<1>1. UnitsOf(m) = {u \in 0..End-1 : \A c \in U : u \notin c .. c + m[c].size - 1}
  BY UnitsOfLemma
<1>2. UnitsOf(n) = {u \in 0..End-1 : \A c \in U : u \notin c .. c + n[c].size - 1}
  BY UnitsOfLemma
<1> QED
  BY <1>1, <1>2

\* The counters count the units of the free blocks, and the blocks in use.
CountInv ==
  /\ Inv
  /\ freeUnits = Cardinality(UnitsOf(mem))
  /\ minimumEver \in Int /\ minimumEver <= freeUnits
  /\ balance = Cardinality(InUse)

LEMMA CountTypes ==
  ASSUME Inv
  PROVE  /\ IsFiniteSet(InUse) /\ Cardinality(InUse) \in Nat
         /\ Cardinality(UnitsOf(mem)) \in Nat /\ HeapOK(mem, start, InUse)
<1>1. HeapOK(mem, start, InUse)
  BY DEF Inv
<1>2. IsFiniteSet(0..End-1) /\ InUse \in SUBSET (0..End-1)
  BY <1>1, UnitsLemma, FS_Interval DEF HeapOK
<1>3. IsFiniteSet(InUse)
  BY <1>2, FS_Subset
<1> QED
  BY <1>1, <1>3, FS_CardinalityType, UnitsOfLemma

LEMMA CountKept ==
  ASSUME CountInv, Inv', KeepsBlocks,
         freeUnits' = freeUnits, minimumEver' = minimumEver, balance' = balance
  PROVE  CountInv'
<1>1. HeapOK(mem, start, InUse) /\ HeapOK(mem', start', InUse)
  BY DEF CountInv, Inv, KeepsBlocks
<1>2. \A c \in InUse : mem'[c].size = mem[c].size
  BY DEF KeepsBlocks
<1>3. UnitsOf(mem') = UnitsOf(mem)
  BY <1>1, <1>2, UnitsKept
<1> QED
  BY <1>3 DEF CountInv, KeepsBlocks

LEMMA CountTaken ==
  ASSUME CountInv, Inv', NEW n \in Nat, NEW v, MallocSucceeds(n, v),
         TakesBlock(Take(WantedSize(n) \div ALIGN).at, Take(WantedSize(n) \div ALIGN).size)
  PROVE  CountInv'
<1> DEFINE got == Take(WantedSize(n) \div ALIGN)
           b == got.at
           size == got.size
<1>1. /\ freeUnits' = freeUnits - size /\ balance' = balance + 1
      /\ minimumEver' = IF freeUnits' < minimumEver THEN freeUnits' ELSE minimumEver
  BY Zenon DEF MallocSucceeds
<1>2. TakesBlock(b, size)
  OBVIOUS
<1> HIDE DEF b, size
<1>3. /\ b \notin InUse /\ InUse' = InUse \union {b} /\ mem'[b].size = size
      /\ \A c \in InUse : mem'[c].size = mem[c].size
  BY <1>2 DEF TakesBlock
<1>4. HeapOK(mem, start, InUse) /\ HeapOK(mem', start', InUse \union {b})
  BY <1>3 DEF CountInv, Inv
<1>5. Cardinality(UnitsOf(mem)) = Cardinality(UnitsOf(mem')) + size
  BY <1>3, <1>4, UnitsTaken
<1>6. size \in Int
  BY <1>3, <1>4, HeapFacts
<1>7. Cardinality(UnitsOf(mem)) \in Nat /\ Cardinality(UnitsOf(mem')) \in Nat
  BY <1>4, UnitsOfLemma
<1>8. freeUnits' = Cardinality(UnitsOf(mem'))
  BY <1>1, <1>5, <1>6, <1>7 DEF CountInv
<1>9. minimumEver' \in Int /\ minimumEver' <= freeUnits'
  BY <1>1, <1>7, <1>8 DEF CountInv
<1>10. balance' = Cardinality(InUse')
  BY <1>1, <1>3, CountTypes, FS_AddElement DEF CountInv
<1> QED
  BY <1>8, <1>9, <1>10 DEF CountInv

LEMMA CountGivenBack ==
  ASSUME CountInv, Inv', NEW t \in Tasks, FreeEnd(t), GivesBack(old[t].at)
  PROVE  CountInv'
<1> DEFINE b == old[t].at
           U == InUse \ {b}
<1>1. /\ freeUnits' = freeUnits + mem[b].size /\ balance' = balance - 1
      /\ minimumEver' = minimumEver
  BY Zenon DEF FreeEnd
<1>2. /\ b \in InUse /\ InUse' = U /\ InUse = U \union {b} /\ b \notin U
      /\ \A c \in U : mem[c].size = mem'[c].size
  BY DEF GivesBack
<1> HIDE DEF b, U
<1>3. HeapOK(mem, start, U \union {b}) /\ HeapOK(mem', start', U)
  BY <1>2 DEF CountInv, Inv
<1>4. Cardinality(UnitsOf(mem')) = Cardinality(UnitsOf(mem)) + mem[b].size
  <2>1. PICK m2, s2 : m2 = mem' /\ s2 = start'
    OBVIOUS
  <2>2. HeapOK(m2, s2, U) /\ \A c \in U : mem[c].size = m2[c].size
    BY <1>2, <1>3, <2>1
  <2>3. HeapOK(mem, start, U \union {b}) /\ b \notin U
    BY <1>2, <1>3
  <2>4. PICK n2, b2, U2, r2 : n2 = mem /\ b2 = b /\ U2 = U /\ r2 = start
    OBVIOUS
  <2>5. /\ HeapOK(m2, s2, U2)
        /\ HeapOK(n2, r2, U2 \union {b2})
        /\ b2 \notin U2
        /\ \A c \in U2 : n2[c].size = m2[c].size
    <3>1. HeapOK(m2, s2, U2)
      BY <2>2, <2>4, Zenon
    <3>2. HeapOK(n2, r2, U2 \union {b2}) /\ b2 \notin U2
      BY <2>3, <2>4, Zenon
    <3>3. \A c \in U2 : n2[c].size = m2[c].size
      BY <2>2, <2>4, Zenon
    <3> QED
      BY <3>1, <3>2, <3>3, Zenon
  <2>6. Cardinality(UnitsOf(m2)) = Cardinality(UnitsOf(n2)) + n2[b2].size
    BY <2>5, UnitsTaken
  <2>7. Cardinality(UnitsOf(m2)) = Cardinality(UnitsOf(mem)) + mem[b].size
    BY <2>4, <2>6
  <2> QED
    BY <2>1, <2>7
<1>5. Cardinality(UnitsOf(mem)) \in Nat /\ mem[b].size \in 1..Units
  BY <1>3, HeapFacts, UnitsOfLemma
<1>6. freeUnits' = Cardinality(UnitsOf(mem')) /\ minimumEver' <= freeUnits'
  BY <1>1, <1>4, <1>5, UnitsLemma DEF CountInv
<1>7. balance' = Cardinality(InUse')
  BY <1>1, <1>2, CountTypes, FS_RemoveElement DEF CountInv, U
<1> QED
  BY <1>1, <1>6, <1>7 DEF CountInv

LEMMA CountInit == Init => CountInv
<1> SUFFICES ASSUME Init PROVE CountInv
  OBVIOUS
<1>1. Inv /\ freeUnits = Units /\ minimumEver = Units /\ balance = 0
  BY InitInv DEF Init
<1>2. InUse = {}
  BY DEF Init, InUse, Uses
<1>3. HeapOK(mem, start, {})
  BY <1>1, <1>2 DEF Inv
<1>4. UnitsOf(mem) = 0..End-1
  <2>1. UnitsOf(mem) = {u \in 0..End-1 : \A c \in {} : u \notin c .. c + mem[c].size - 1}
    BY <1>3, UnitsOfLemma
  <2> QED
    BY <2>1
<1>5. Cardinality(UnitsOf(mem)) = Units
  BY <1>4, UnitsLemma, FS_Interval
<1> QED
  BY <1>1, <1>2, <1>5, UnitsLemma, FS_EmptySet DEF CountInv

LEMMA CountNext == CountInv /\ [Next]_vars => CountInv'
<1> SUFFICES ASSUME CountInv, [Next]_vars PROVE CountInv'
  OBVIOUS
<1>1. Inv /\ Inv'
  BY NextInv DEF CountInv
<1>2. ASSUME NEW t \in Tasks, pc[t] = "out", Halt(t) PROVE CountInv'
  BY <1>1, <1>2, HaltStep, CountKept DEF Halt, heapVars
<1>3. ASSUME NEW t \in Tasks, NEW r \in Requests, Alloc(t, r[1], r[2]) PROVE CountInv'
  <2> DEFINE n == r[1] * r[2]
  <2>1. n \in Nat
    BY RequestLemma
  <2>2. pc[t] = "out"
    BY <1>3 DEF Alloc
  <2>3. CASE /\ MallocSucceeds(n, t)
             /\ owned' = [owned EXCEPT ![t] = @ \union {[at |-> Take(WantedSize(n) \div ALIGN).at,
                                                        filled |-> Take(WantedSize(n) \div ALIGN).size - 1]}]
             /\ UNCHANGED <<pc, old, new>>
    <3> HIDE DEF n
    <3>1. TakesBlock(Take(WantedSize(n) \div ALIGN).at, Take(WantedSize(n) \div ALIGN).size)
      BY <1>1, <2>1, <2>2, <2>3, AllocStep, Zenon
    <3> QED
      BY <1>1, <2>1, <2>3, <3>1, CountTaken, Zenon
  <2> QED
    BY <1>2, <1>3, <2>2, <2>3, Zenon DEF Alloc
<1>4. ASSUME NEW t \in Tasks, NEW k \in owned[t], FreeBegin(t, k) PROVE CountInv'
  BY <1>1, <1>4, FreeBeginStep, CountKept DEF FreeBegin
<1>5. ASSUME NEW t \in Tasks, NEW k \in owned[t], NEW r \in Requests, ReAllocBegin(t, k, r[2])
      PROVE  CountInv'
  <2>1. r[2] \in Nat /\ pc[t] = "out"
    BY <1>5, RequestLemma, Zenon DEF ReAllocBegin
  <2>2. \/ Halt(t)
        \/ /\ MallocSucceeds(r[2], "zero")
           /\ TakesBlock(Take(WantedSize(r[2]) \div ALIGN).at, Take(WantedSize(r[2]) \div ALIGN).size)
    BY <1>1, <1>5, <2>1, ReAllocBeginStep, Zenon
  <2> QED
    BY <1>1, <1>2, <2>1, <2>2, CountTaken, Zenon
<1>6. ASSUME NEW t \in Tasks, ReAllocCopy(t) PROVE CountInv'
  BY <1>1, <1>6, ReAllocCopyStep, CountKept, Zenon DEF ReAllocCopy
<1>7. ASSUME NEW t \in Tasks, FreeEnd(t) PROVE CountInv'
  BY <1>1, <1>7, FreeEndStep, CountGivenBack
<1>8. CASE UNCHANGED vars
  <2>1. UNCHANGED <<mem, start, freeUnits, minimumEver, balance, owned, pc, old, new>>
    BY <1>8 DEF vars, heapVars
  <2> QED
    BY <1>1, <2>1 DEF CountInv, InUse, Uses
<1> QED
  BY <1>3, <1>4, <1>5, <1>6, <1>7, <1>8 DEF Next

\* xFreeBytesRemaining is the memory that is free, xMinimumEverFreeBytesRemaining is
\* not above it, and the successful allocations less the frees are the blocks in use,
\* also while a task is half way through vPortFree or vPortReAlloc.
THEOREM CountersAgreeHolds == Spec => []CountersAgree
<1>1. Init => CountInv
  BY CountInit
<1>2. CountInv /\ [Next]_vars => CountInv'
  BY CountNext
<1>3. CountInv => CountersAgree
  <2> SUFFICES ASSUME CountInv PROVE CountersAgree
    OBVIOUS
  <2>1. UnitsFree = UnitsOf(mem)
    BY DEF UnitsFree, UnitsOf, Extent, Free
  <2>2. /\ Taken \union Releasing = InUse /\ Taken \intersect Releasing = {}
        /\ IsFiniteSet(InUse)
    BY InUseLemma, CountTypes DEF CountInv
  <2>3. IsFiniteSet(Taken) /\ IsFiniteSet(Releasing)
    BY <2>2, FS_Subset
  <2>4. Cardinality(InUse) = Cardinality(Taken) + Cardinality(Releasing) - 0
    BY <2>2, <2>3, FS_Union, FS_EmptySet
  <2>5. Cardinality(Taken) \in Nat /\ Cardinality(Releasing) \in Nat
    BY <2>3, FS_CardinalityType
  <2>6. balance = Cardinality(Taken) + Cardinality(Releasing)
    BY <2>4, <2>5 DEF CountInv
  <2> QED
    BY <2>1, <2>6 DEF CountInv, CountersAgree
<1> QED
  BY <1>1, <1>2, <1>3, PTL DEF Spec
=============================================================================
