------------------------- MODULE ProcessHeapProofs -------------------------
(* Until a freed large block is looked for, or a header is torn, the heap  *)
(* is sound: for every page size, table of sizes and length asked for.     *)
EXTENDS ProcessHeap, TLAPS

Item == [addr : Nat, length : Nat, allocated : BOOLEAN]

Shape ==
    /\ list_array \in [1 .. Large -> Seq(Item)]
    /\ current_mem_addr \in Nat
    /\ live \subseteq [addr : Nat, length : Nat, again : BOOLEAN]

End(c) == c.addr + Header + c.length

(* The places in the lists. *)
Place(k, i) == k \in 1 .. Large /\ i \in 1 .. Len(list_array[k])

(* What a torn header does not change: the places of chunks and blocks.    *)
Room ==
    \A k, i \in Nat : Place(k, i) =>
        /\ list_array[k][i].addr + Header <= current_mem_addr
        /\ k # Large => list_array[k][i].addr + Header + size_array[k] <= current_mem_addr

Ends == \A b \in live : b.addr + b.length <= current_mem_addr

Base == Shape /\ Room /\ Ends

Below == \A k, i \in Nat : Place(k, i) => End(list_array[k][i]) <= current_mem_addr

Apart ==
    \A k, i, l, j \in Nat :
        Place(k, i) /\ Place(l, j) /\ (k # l \/ i # j)
        => Disjoint(list_array[k][i].addr, End(list_array[k][i]),
                    list_array[l][j].addr, End(list_array[l][j]))

Sized ==
    \A k, i \in Nat : Place(k, i) /\ k # Large => list_array[k][i].length = size_array[k]

Covered ==
    \A a \in 0 .. current_mem_addr - 1 : \E k, i \in Nat :
        Place(k, i) /\ list_array[k][i].addr <= a /\ a < End(list_array[k][i])

Held ==
    \A b \in live : \E k, i \in Nat :
        /\ Place(k, i) /\ list_array[k][i].allocated
        /\ b.addr = list_array[k][i].addr + Header
        /\ b.length <= list_array[k][i].length

Owned ==
    \A k, i \in Nat : Place(k, i) /\ list_array[k][i].allocated
        => \E b \in live : b.addr = list_array[k][i].addr + Header

Single == (\A b, c \in live : b.addr = c.addr => b = c) /\ \A b \in live : ~b.again

(* What a step does to the lengths of the chunks: nothing, or one chunk    *)
(* more is behind all the others.                                          *)
Kept ==
    \A k, i \in Nat : Place(k, i) =>
        Place(k, i)' /\ list_array'[k][i].length = list_array[k][i].length

Placed ==
    \A k, i \in Nat : Place(k, i)' =>
        \/ Place(k, i) /\ list_array'[k][i].addr = list_array[k][i].addr
        \/ list_array'[k][i].addr = current_mem_addr

OneMore ==
    \E k, i \in Nat :
        Place(k, i)' /\ current_mem_addr' = current_mem_addr + list_array'[k][i].length + Header

Good == Shape /\ Below /\ Apart /\ Sized /\ Covered /\ Held /\ Owned /\ Single

(* The inductive invariant. *)
Inv ==
    /\ recycled \in BOOLEAN /\ torn \in BOOLEAN
    /\ recycled \/ (Base /\ (torn \/ Good))

----------------------------------------------------------------------------

LEMMA LargeNat == Large \in Nat \ {0} /\ Len(size_array) \in Nat
  BY HeapAssumption DEF Large

LEMMA HeaderNat == Header \in Nat \ {0}
  BY HeapAssumption

LEMMA ItemAt ==
    ASSUME Shape, NEW k \in Nat, NEW i \in Nat, Place(k, i)
    PROVE  list_array[k][i] \in Item
  BY DEF Shape, Place

LEMMA ChunkPlace ==
    ASSUME Shape, NEW c \in Chunks
    PROVE  \E k, i \in Nat : Place(k, i) /\ c = list_array[k][i]
<1>1. PICK k \in 1 .. Large : \E i \in 1 .. Len(list_array[k]) : c = list_array[k][i]
  BY DEF Chunks
<1>2. k \in Nat /\ Len(list_array[k]) \in Nat
  BY LargeNat DEF Shape
<1> QED  BY <1>1, <1>2 DEF Place

LEMMA SameBase ==
    ASSUME Base, UNCHANGED <<list_array, current_mem_addr, live>> PROVE Base'
<1>1. \A k, i : Place(k, i)' <=> Place(k, i)
  BY DEF Place
<1> QED  BY <1>1 DEF Base, Shape, Room, Ends

LEMMA SameGood ==
    ASSUME Good, UNCHANGED <<list_array, current_mem_addr, live>> PROVE Good'
<1>1. \A k, i : Place(k, i)' <=> Place(k, i)
  BY DEF Place
<1>2. Shape' /\ Below' /\ Apart' /\ Sized'
  BY <1>1 DEF Good, Shape, Below, Apart, Sized, End, Disjoint
<1>3. Covered' /\ Held' /\ Owned' /\ Single'
  BY <1>1 DEF Good, Covered, Held, Owned, Single, End
<1> QED  BY <1>2, <1>3 DEF Good

(* What is left of a header is a header, at the same place. *)
LEMMA WrittenItem ==
    ASSUME NEW c \in Item
    PROVE  Written(c) \in Item /\ Written(c).addr = c.addr
<1>1. ASSUME NEW n \in Int PROVE CutHeader(c, n) \in Item /\ CutHeader(c, n).addr = c.addr
  <2> DEFINE bytes == IF n <= Header \div 2 THEN 0 ELSE n - Header \div 2
             word == (2 * c.length + 1) % Values(bytes)
  <2>1. bytes \in Nat
    BY <1>1, HeapAssumption
  <2>2. word \in Nat
    <3> DEFINE m == Values(bytes)
    <3>1. m \in Nat \ {0}
      BY <2>1 DEF Values
    <3> HIDE DEF m
    <3>2. (2 * c.length + 1) % m \in Nat
      BY <3>1 DEF Item
    <3> QED  BY <3>2 DEF m
  <2>3. CutHeader(c, n) = [c EXCEPT !.allocated = (word % 2 = 1), !.length = word \div 2]
    BY DEF CutHeader
  <2> HIDE DEF word
  <2>4. word \div 2 \in Nat /\ (word % 2 = 1) \in BOOLEAN
    BY <2>2
  <2> QED  BY <2>3, <2>4 DEF Item
<1>2. PageSize - (c.addr % PageSize) \in Int
  BY HeapAssumption DEF Item
<1> QED  BY <1>1, <1>2 DEF Written

(* A chunk behind all the others, whatever is left of its header. *)
LEMMA ExtendBase ==
    ASSUME Base, NEW length \in Lengths, NEW k \in 1 .. Large, InClass(length, k),
           Extend(length, k, list_array[k])
    PROVE  Base' /\ Kept /\ Placed
<1>1. CASE UNCHANGED <<list_array, current_mem_addr, live>>
  BY <1>1, SameBase DEF Kept, Placed, Place
<1>2. CASE HeaderMapped(current_mem_addr)
  <2> DEFINE size == IF k = Large THEN length ELSE size_array[k]
             c == [addr |-> current_mem_addr, length |-> size, allocated |-> TRUE]
             w == Written(c)
             b == [addr |-> current_mem_addr + Header, length |-> length,
                   again |-> \E d \in live : d.addr = current_mem_addr + Header]
             n == Len(list_array[k])
  <2>1. /\ list_array' = [list_array EXCEPT ![k] = Append(list_array[k], w)]
        /\ current_mem_addr' = current_mem_addr + size + Header
        /\ live' = live \cup {b}
    <3>1. size \in Nat
      BY LargeNat, HeapAssumption DEF Large
    <3> QED  BY <1>2, <3>1, HeapAssumption DEF Extend, Give, Occupied, Base, Shape
  <2>2. size \in Nat /\ length \in Nat /\ length <= size /\ Header \in Nat \ {0} /\ current_mem_addr \in Nat
    BY LargeNat, HeapAssumption DEF Large, InClass, Base, Shape
  <2>20. k # Large => size = size_array[k]
    OBVIOUS
  <2>3. w \in Item /\ w.addr = current_mem_addr /\ n \in Nat /\ k \in Nat
    <3>1. c \in Item
      BY <2>2 DEF Item
    <3> HIDE DEF size
    <3> QED  BY <3>1, WrittenItem, LargeNat DEF Base, Shape
  <2> HIDE DEF size, c, w
  <2>4. \A l \in 1 .. Large : list_array[l] \in Seq(Item)
    BY DEF Base, Shape
  <2>5. list_array' \in [1 .. Large -> Seq(Item)]
    BY <2>1, <2>3, <2>4 DEF Base, Shape
  <2>6. /\ Len(list_array'[k]) = n + 1 /\ list_array'[k][n + 1] = w
        /\ \A i \in 1 .. n : list_array'[k][i] = list_array[k][i]
        /\ \A l \in 1 .. Large : l # k => list_array'[l] = list_array[l]
    BY <2>1, <2>3, <2>4 DEF Base, Shape
  <2> HIDE DEF n
  <2>7. \A l, i \in Nat : Place(l, i)' <=> Place(l, i) \/ (l = k /\ i = n + 1)
    BY <2>3, <2>6 DEF Place, n
  <2>8. \A l, i \in Nat : Place(l, i) => list_array'[l][i] = list_array[l][i]
    BY <2>6 DEF Place, n
  <2>9. b.addr = current_mem_addr + Header /\ b.length = length
        /\ b \in [addr : Nat, length : Nat, again : BOOLEAN]
    BY <2>2
  <2> HIDE DEF b
  <2>10. Shape'
    BY <2>1, <2>2, <2>5, <2>9 DEF Shape, Base
  <2>11. Room'
    <3> SUFFICES ASSUME NEW l \in Nat, NEW i \in Nat, Place(l, i)'
                 PROVE  /\ list_array'[l][i].addr + Header <= current_mem_addr'
                        /\ l # Large => list_array'[l][i].addr + Header + size_array[l] <= current_mem_addr'
      BY DEF Room
    <3>1. CASE Place(l, i)
      <4>1. list_array[l][i] \in Item /\ list_array'[l][i] = list_array[l][i]
        BY <3>1, <2>8, ItemAt DEF Base
      <4>2. list_array[l][i].addr \in Nat /\ (l # Large => size_array[l] \in Nat)
        BY <3>1, <4>1, HeapAssumption, LargeNat DEF Item, Place, Large
      <4> QED  BY <3>1, <4>1, <4>2, <2>1, <2>2 DEF Base, Room
    <3>2. CASE ~Place(l, i)
      <4>1. l = k /\ list_array'[l][i].addr = current_mem_addr
        BY <3>2, <2>3, <2>6, <2>7
      <4> QED  BY <4>1, <2>1, <2>2, <2>20
    <3> QED  BY <3>1, <3>2
  <2>12. Ends'
    <3> SUFFICES ASSUME NEW d \in live' PROVE d.addr + d.length <= current_mem_addr'
      BY DEF Ends
    <3>1. CASE d \in live
      <4>1. d.addr \in Nat /\ d.length \in Nat /\ d.addr + d.length <= current_mem_addr
        BY <3>1 DEF Base, Shape, Ends
      <4> QED  BY <4>1, <2>1, <2>2
    <3>2. CASE d = b
      BY <3>2, <2>1, <2>2, <2>9
    <3> QED  BY <2>1, <3>1, <3>2
  <2>13. Kept
    BY <2>7, <2>8 DEF Kept
  <2>14. Placed
    BY <2>3, <2>6, <2>7, <2>8 DEF Placed
  <2> QED  BY <2>10, <2>11, <2>12, <2>13, <2>14 DEF Base
<1> QED  BY <1>1, <1>2 DEF Extend

(* The same with its header whole, and the block it is for. *)
LEMMA ExtendGood ==
    ASSUME Good, NEW length \in Lengths, NEW k \in 1 .. Large, InClass(length, k),
           Extend(length, k, list_array[k]), ~torn'
    PROVE  Good' /\ (OneMore \/ UNCHANGED current_mem_addr)
<1>1. CASE UNCHANGED <<list_array, current_mem_addr, live>>
  BY <1>1, SameGood
<1>2. CASE HeaderMapped(current_mem_addr)
  <2> DEFINE size == IF k = Large THEN length ELSE size_array[k]
             c == [addr |-> current_mem_addr, length |-> size, allocated |-> TRUE]
             b == [addr |-> current_mem_addr + Header, length |-> length,
                   again |-> \E d \in live : d.addr = current_mem_addr + Header]
             n == Len(list_array[k])
  <2>1. /\ list_array' = [list_array EXCEPT ![k] = Append(list_array[k], c)]
        /\ current_mem_addr' = current_mem_addr + size + Header
        /\ live' = live \cup {b}
    <3>1. size \in Nat
      BY LargeNat, HeapAssumption DEF Large
    <3>2. /\ list_array' = [list_array EXCEPT ![k] = Append(list_array[k], Written(c))]
          /\ torn' = (torn \/ Written(c) # c)
      BY <1>2 DEF Extend
    <3>3. Written(c) = c
      BY <3>2
    <3>4. current_mem_addr' = current_mem_addr + (size + Header) /\ live' = live \cup {b}
      BY <1>2 DEF Extend, Give, Occupied
    <3>5. current_mem_addr' = current_mem_addr + size + Header
      BY <3>1, <3>4, HeapAssumption DEF Good, Shape
    <3> HIDE DEF b, c
    <3> QED  BY <3>2, <3>3, <3>4, <3>5
  <2>2. size \in Nat /\ length \in Nat /\ length <= size /\ Header \in Nat \ {0} /\ current_mem_addr \in Nat
    BY LargeNat, HeapAssumption DEF Large, InClass, Good, Shape
  <2>3. c \in Item /\ n \in Nat /\ k \in Nat
    BY <2>2, LargeNat DEF Item, Good, Shape
  <2> HIDE DEF size
  <2>4. \A l \in 1 .. Large : list_array[l] \in Seq(Item)
    BY DEF Good, Shape
  <2>5. list_array' \in [1 .. Large -> Seq(Item)]
    BY <2>1, <2>3, <2>4 DEF Good, Shape
  <2>6. /\ Len(list_array'[k]) = n + 1 /\ list_array'[k][n + 1] = c
        /\ \A i \in 1 .. n : list_array'[k][i] = list_array[k][i]
        /\ \A l \in 1 .. Large : l # k => list_array'[l] = list_array[l]
    BY <2>1, <2>3, <2>4 DEF Good, Shape
  <2> HIDE DEF n
  <2>7. \A l, i \in Nat : Place(l, i)' <=> Place(l, i) \/ (l = k /\ i = n + 1)
    BY <2>3, <2>6 DEF Place, n
  <2>8. \A l, i \in Nat : Place(l, i) => list_array'[l][i] = list_array[l][i]
    BY <2>6 DEF Place, n
  <2>9. ~Place(k, n + 1)
    BY <2>3 DEF Place, n
  <2>10. \A l, i \in Nat : Place(l, i) =>
            /\ list_array[l][i] \in Item
            /\ End(list_array[l][i]) <= current_mem_addr
    BY ItemAt DEF Good, Below
  <2> HIDE DEF c, b
  <2>11. /\ c.addr = current_mem_addr /\ c.length = size /\ c.allocated
         /\ b.addr = current_mem_addr + Header /\ b.length = length
         /\ b.again = \E d \in live : d.addr = current_mem_addr + Header
         /\ b \in [addr : Nat, length : Nat, again : BOOLEAN]
         /\ End(c) = current_mem_addr + Header + size
    BY <2>2 DEF c, b, End
  <2>12. Shape'
    BY <2>1, <2>2, <2>5, <2>11 DEF Shape, Good
  <2>13. Below'
    <3> SUFFICES ASSUME NEW l \in Nat, NEW i \in Nat, Place(l, i)'
                 PROVE  End(list_array'[l][i]) <= current_mem_addr'
      BY DEF Below, End
    <3>1. CASE Place(l, i)
      <4>1. End(list_array[l][i]) <= current_mem_addr /\ list_array[l][i] \in Item
        BY <3>1, <2>10
      <4>2. End(list_array[l][i]) \in Nat
        BY <4>1, <2>2 DEF End, Item
      <4>3. End(list_array'[l][i]) = End(list_array[l][i])
        BY <3>1, <2>8
      <4>4. current_mem_addr' = current_mem_addr + size + Header
        BY <2>1
      <4> QED  BY <4>1, <4>2, <4>3, <4>4, <2>2
    <3>2. CASE ~Place(l, i)
      BY <3>2, <2>1, <2>2, <2>6, <2>7, <2>11
    <3> QED  BY <3>1, <3>2
  <2>14. Apart'
    <3> SUFFICES ASSUME NEW l \in Nat, NEW i \in Nat, NEW m \in Nat, NEW j \in Nat,
                        Place(l, i)', Place(m, j)', l # m \/ i # j
                 PROVE  Disjoint(list_array'[l][i].addr, End(list_array'[l][i]),
                                 list_array'[m][j].addr, End(list_array'[m][j]))
      BY DEF Apart, End
    <3>1. CASE Place(l, i) /\ Place(m, j)
      BY <3>1, <2>8 DEF Good, Apart
    <3>2. CASE Place(l, i) /\ ~Place(m, j)
      BY <3>2, <2>6, <2>7, <2>8, <2>10, <2>11 DEF Disjoint
    <3>3. CASE ~Place(l, i) /\ Place(m, j)
      BY <3>3, <2>6, <2>7, <2>8, <2>10, <2>11 DEF Disjoint
    <3> QED  BY <3>1, <3>2, <3>3, <2>7
  <2>15. Sized'
    BY <2>6, <2>7, <2>8, <2>11 DEF Sized, Good, size
  <2>16. Covered'
    <3> SUFFICES ASSUME NEW a \in 0 .. current_mem_addr' - 1
                 PROVE  \E l, i \in Nat : /\ Place(l, i)'
                                          /\ list_array'[l][i].addr <= a
                                          /\ a < End(list_array'[l][i])
      BY DEF Covered, End
    <3>1. CASE a < current_mem_addr
      <4>1. a \in 0 .. current_mem_addr - 1
        BY <3>1, <2>1, <2>2
      <4>2. PICK l, i \in Nat : Place(l, i) /\ list_array[l][i].addr <= a /\ a < End(list_array[l][i])
        BY <4>1 DEF Good, Covered
      <4>3. Place(l, i)' /\ list_array'[l][i] = list_array[l][i]
        BY <4>2, <2>7, <2>8
      <4> QED  BY <4>2, <4>3
    <3>2. CASE a >= current_mem_addr
      BY <3>2, <2>1, <2>2, <2>3, <2>6, <2>7, <2>11
    <3>3. a \in Int
      BY <2>1, <2>2
    <3> QED  BY <3>1, <3>2, <3>3, <2>2
  <2>17. Held'
    <3> SUFFICES ASSUME NEW d \in live'
                 PROVE  \E l, i \in Nat : /\ Place(l, i)' /\ list_array'[l][i].allocated
                                          /\ d.addr = list_array'[l][i].addr + Header
                                          /\ d.length <= list_array'[l][i].length
      BY DEF Held
    <3>1. CASE d \in live
      BY <3>1, <2>7, <2>8 DEF Good, Held
    <3>2. CASE d = b
      BY <3>2, <2>2, <2>3, <2>6, <2>7, <2>11
    <3> QED  BY <2>1, <3>1, <3>2
  <2>18. Owned'
    <3> SUFFICES ASSUME NEW l \in Nat, NEW i \in Nat, Place(l, i)', list_array'[l][i].allocated
                 PROVE  \E d \in live' : d.addr = list_array'[l][i].addr + Header
      BY DEF Owned
    <3>1. CASE Place(l, i)
      <4>1. list_array'[l][i] = list_array[l][i]
        BY <3>1, <2>8
      <4>2. \E d \in live : d.addr = list_array[l][i].addr + Header
        BY <3>1, <4>1 DEF Good, Owned
      <4> QED  BY <4>1, <4>2, <2>1
    <3>2. CASE ~Place(l, i)
      BY <3>2, <2>1, <2>6, <2>7, <2>11
    <3> QED  BY <3>1, <3>2
  <2>19. Single'
    <3>1. \A d \in live : d.addr < b.addr
      <4> SUFFICES ASSUME NEW d \in live PROVE d.addr < b.addr
        OBVIOUS
      <4>1. PICK l, i \in Nat : Place(l, i) /\ d.addr = list_array[l][i].addr + Header
        BY DEF Good, Held
      <4>2. list_array[l][i] \in Item /\ End(list_array[l][i]) <= current_mem_addr
        BY <4>1, <2>10
      <4> QED  BY <4>1, <4>2, <2>2, <2>11 DEF Item, End
    <3>2. \A d \in live : d.addr \in Nat
      BY DEF Good, Shape
    <3>3. ~b.again
      BY <3>1, <3>2, <2>2, <2>11
    <3> QED  BY <3>1, <3>2, <3>3, <2>1, <2>2, <2>11 DEF Single, Good
  <2>21. OneMore
    BY <2>1, <2>2, <2>3, <2>6, <2>7, <2>11 DEF OneMore
  <2> QED  BY <2>12, <2>13, <2>14, <2>15, <2>16, <2>17, <2>18, <2>19, <2>21 DEF Good
<1> QED  BY <1>1, <1>2 DEF Extend

(* A free chunk that is marked: where it is, what it is given for, and that *)
(* nothing else changes.                                                   *)
Marked(length, k, i, b) ==
    /\ k \in 1 .. Len(size_array) /\ InClass(length, k)
    /\ Place(k, i) /\ ~list_array[k][i].allocated
    /\ b \in [addr : Nat, length : Nat, again : BOOLEAN]
    /\ b.addr = list_array[k][i].addr + Header /\ b.length = length
    /\ b.again = \E d \in live : d.addr = list_array[k][i].addr + Header
    /\ live' = live \cup {b}
    /\ list_array' \in [1 .. Large -> Seq(Item)]
    /\ list_array'[k][i].allocated
    /\ \A l, j \in Nat : Place(l, j)' <=> Place(l, j)
    /\ \A l, j \in Nat : Place(l, j) =>
          /\ list_array'[l][j].addr = list_array[l][j].addr
          /\ list_array'[l][j].length = list_array[l][j].length
          /\ End(list_array'[l][j]) = End(list_array[l][j])
          /\ list_array[l][j].allocated => list_array'[l][j].allocated
    /\ \A l, j \in Nat : Place(l, j) /\ (l # k \/ j # i) => list_array'[l][j] = list_array[l][j]

LEMMA ReuseMarks ==
    ASSUME Shape, NEW length \in Lengths, Reuse(length)
    PROVE  \E k, i \in Nat : \E b : Marked(length, k, i, b)
<1>0. PICK k \in 1 .. Len(size_array) : InClass(length, k) /\
      \E i \in 1 .. Len(list_array[k]) :
          /\ ~list_array[k][i].allocated
          /\ list_array' = [list_array EXCEPT ![k][i].allocated = TRUE]
          /\ Give(list_array[k][i].addr + Header, length)
  BY DEF Reuse
<1>1. PICK i \in 1 .. Len(list_array[k]) :
          /\ ~list_array[k][i].allocated
          /\ list_array' = [list_array EXCEPT ![k][i].allocated = TRUE]
          /\ Give(list_array[k][i].addr + Header, length)
  BY <1>0
<1> DEFINE b == [addr |-> list_array[k][i].addr + Header, length |-> length,
                 again |-> \E d \in live : d.addr = list_array[k][i].addr + Header]
<1>2. /\ k \in Nat /\ i \in Nat /\ k \in 1 .. Large /\ k # Large
      /\ length \in Nat /\ length < size_array[k]
      /\ Header \in Nat \ {0} /\ current_mem_addr' = current_mem_addr
  <2>1. k \in Nat /\ k \in 1 .. Large /\ k # Large
    BY LargeNat DEF Large
  <2>2. i \in Nat
    BY <2>1 DEF Shape
  <2>3. length < size_array[k]
    BY <1>0, <2>1 DEF InClass
  <2>4. current_mem_addr' = current_mem_addr
    BY DEF Reuse
  <2> QED  BY <2>1, <2>2, <2>3, <2>4, HeapAssumption
<1>3. Place(k, i) /\ list_array[k][i] \in Item
  BY <1>1, <1>2, ItemAt DEF Place
<1>4. list_array \in [1 .. Large -> Seq(Item)] /\ list_array[k] \in Seq(Item)
  BY <1>2 DEF Shape
<1> DEFINE c == [list_array[k][i] EXCEPT !.allocated = TRUE]
           s == [list_array[k] EXCEPT ![i] = c]
<1>5. /\ list_array' \in [1 .. Large -> Seq(Item)]
      /\ \A l \in 1 .. Large : Len(list_array'[l]) = Len(list_array[l])
      /\ list_array'[k][i] = c
      /\ \A l \in 1 .. Large : \A j \in 1 .. Len(list_array[l]) :
             l # k \/ j # i => list_array'[l][j] = list_array[l][j]
  <2>1. list_array' = [list_array EXCEPT ![k] = s]
    BY <1>1
  <2>2. c \in Item
    BY <1>3 DEF Item
  <2> HIDE DEF c
  <2>3. s \in Seq(Item) /\ Len(s) = Len(list_array[k]) /\ s[i] = c
        /\ \A j \in 1 .. Len(list_array[k]) : j # i => s[j] = list_array[k][j]
    BY <1>1, <1>4, <2>2
  <2> HIDE DEF s
  <2> QED  BY <1>2, <1>4, <2>1, <2>3
<1>60. c.addr = list_array[k][i].addr /\ c.length = list_array[k][i].length /\ c.allocated
  BY <1>3 DEF Item
<1> HIDE DEF c, s
<1>6. \A l, j \in Nat : Place(l, j)' <=> Place(l, j)
  BY <1>5 DEF Place
<1>7. \A l, j \in Nat : Place(l, j) =>
          /\ list_array'[l][j].addr = list_array[l][j].addr
          /\ list_array'[l][j].length = list_array[l][j].length
          /\ End(list_array'[l][j]) = End(list_array[l][j])
          /\ list_array[l][j].allocated => list_array'[l][j].allocated
  <2> SUFFICES ASSUME NEW l \in Nat, NEW j \in Nat, Place(l, j)
               PROVE  /\ list_array'[l][j].addr = list_array[l][j].addr
                      /\ list_array'[l][j].length = list_array[l][j].length
                      /\ list_array[l][j].allocated => list_array'[l][j].allocated
    BY DEF End
  <2>1. CASE l = k /\ j = i
    BY <2>1, <1>5, <1>60
  <2>2. CASE l # k \/ j # i
    BY <2>2, <1>5 DEF Place
  <2> QED  BY <2>1, <2>2
<1>8. list_array'[k][i].allocated
  BY <1>5, <1>60
<1>9. \A l, j \in Nat : Place(l, j) /\ (l # k \/ j # i) => list_array'[l][j] = list_array[l][j]
  BY <1>5 DEF Place
<1> HIDE DEF b
<1>10. /\ b.addr = list_array[k][i].addr + Header /\ b.length = length /\ live' = live \cup {b}
       /\ b.again = \E d \in live : d.addr = list_array[k][i].addr + Header
       /\ b \in [addr : Nat, length : Nat, again : BOOLEAN]
  BY <1>1, <1>2, <1>3 DEF b, Give, Item
<1>11. Marked(length, k, i, b)
  BY <1>0, <1>1, <1>2, <1>3, <1>5, <1>6, <1>7, <1>8, <1>9, <1>10 DEF Marked
<1> QED  BY <1>2, <1>11

LEMMA ReuseBase ==
    ASSUME Base, NEW length \in Lengths, Reuse(length)
    PROVE  Base' /\ Kept
<1>1. PICK k, i \in Nat : \E b : Marked(length, k, i, b)
  BY ReuseMarks DEF Base
<1>2. PICK b : Marked(length, k, i, b)
  BY <1>1
<1>3. current_mem_addr' = current_mem_addr /\ current_mem_addr \in Nat /\ Header \in Nat
  BY HeapAssumption DEF Reuse, Base, Shape
<1>4. Shape'
  BY <1>2, <1>3 DEF Base, Shape, Marked
<1>40. \A l, j \in Nat : Place(l, j)' =>
          Place(l, j) /\ list_array'[l][j].addr = list_array[l][j].addr
  BY <1>2 DEF Marked
<1>5. Room'
  BY <1>3, <1>40 DEF Base, Room
<1>6. Ends'
  <2>1. b.addr + b.length <= current_mem_addr
    <3> DEFINE c == list_array[k][i]
    <3>1. /\ k # Large /\ k \in 1 .. Large /\ length < size_array[k]
          /\ size_array[k] \in Nat /\ length \in Nat
      BY <1>2, LargeNat, HeapAssumption DEF Marked, InClass, Large
    <3>2. c \in Item /\ c.addr + Header + size_array[k] <= current_mem_addr
      BY <1>2, <3>1, ItemAt DEF Base, Room, Marked
    <3>3. c.addr \in Nat /\ b.addr = c.addr + Header /\ b.length = length
      BY <1>2, <3>2 DEF Marked, Item
    <3> HIDE DEF c
    <3> QED  BY <1>3, <3>1, <3>2, <3>3
  <2> QED  BY <1>2, <1>3, <2>1 DEF Base, Ends, Marked
<1>7. Kept
  BY <1>2 DEF Kept, Marked
<1> QED  BY <1>4, <1>5, <1>6, <1>7 DEF Base

(* The first free chunk of a list, marked as allocated. *)
LEMMA ReuseGood ==
    ASSUME Good, NEW length \in Lengths, Reuse(length)
    PROVE  Good'
<1>0. PICK k, i \in Nat : \E b : Marked(length, k, i, b)
  BY ReuseMarks DEF Good
<1>1. PICK b : Marked(length, k, i, b)
  BY <1>0
<1>2. /\ k \in 1 .. Large /\ k # Large
      /\ length \in Nat /\ length < size_array[k]
      /\ Header \in Nat \ {0} /\ current_mem_addr' = current_mem_addr
  BY <1>1, LargeNat, HeapAssumption DEF Marked, InClass, Large, Reuse
<1>3. Place(k, i) /\ list_array[k][i] \in Item /\ ~list_array[k][i].allocated
  BY <1>1, ItemAt DEF Marked, Good
<1>6. \A l, j \in Nat : Place(l, j)' <=> Place(l, j)
  BY <1>1 DEF Marked
<1>7. \A l, j \in Nat : Place(l, j) =>
          /\ list_array'[l][j].addr = list_array[l][j].addr
          /\ list_array'[l][j].length = list_array[l][j].length
          /\ End(list_array'[l][j]) = End(list_array[l][j])
          /\ list_array[l][j].allocated => list_array'[l][j].allocated
  BY <1>1 DEF Marked
<1>8. list_array'[k][i].allocated
  BY <1>1 DEF Marked
<1>9. \A l, j \in Nat : Place(l, j) /\ (l # k \/ j # i) => list_array'[l][j] = list_array[l][j]
  BY <1>1 DEF Marked
<1>10. /\ b.addr = list_array[k][i].addr + Header /\ b.length = length /\ live' = live \cup {b}
       /\ b.again = \E d \in live : d.addr = list_array[k][i].addr + Header
       /\ b \in [addr : Nat, length : Nat, again : BOOLEAN]
  BY <1>1 DEF Marked
<1>11. Shape'
  BY <1>1, <1>2, <1>10 DEF Good, Shape, Marked
<1>12. Below'
  BY <1>2, <1>6, <1>7 DEF Good, Below, End
<1>13. Apart'
  BY <1>6, <1>7 DEF Good, Apart, End, Disjoint
<1>14. Sized'
  BY <1>6, <1>7 DEF Good, Sized
<1>15. Covered'
  BY <1>2, <1>6, <1>7 DEF Good, Covered, End
<1>16. Held'
  <2> SUFFICES ASSUME NEW d \in live'
               PROVE  \E l, j \in Nat : /\ Place(l, j)' /\ list_array'[l][j].allocated
                                        /\ d.addr = list_array'[l][j].addr + Header
                                        /\ d.length <= list_array'[l][j].length
    BY DEF Held
  <2>1. CASE d \in live
    BY <2>1, <1>6, <1>7 DEF Good, Held
  <2>2. CASE d = b
    <3>1. list_array[k][i].length = size_array[k]
      BY <1>2, <1>3 DEF Good, Sized
    <3>2. list_array[k][i].length \in Nat
      BY <1>3 DEF Item
    <3> QED  BY <2>2, <3>1, <3>2, <1>2, <1>3, <1>6, <1>7, <1>8, <1>10
  <2> QED  BY <2>1, <2>2, <1>10
<1>17. Owned'
  <2> SUFFICES ASSUME NEW l \in Nat, NEW j \in Nat, Place(l, j)', list_array'[l][j].allocated
               PROVE  \E d \in live' : d.addr = list_array'[l][j].addr + Header
    BY DEF Owned
  <2>1. CASE l = k /\ j = i
    BY <2>1, <1>3, <1>7, <1>10
  <2>2. CASE l # k \/ j # i
    <3>1. list_array'[l][j] = list_array[l][j] /\ Place(l, j)
      BY <2>2, <1>6, <1>9
    <3>2. \E d \in live : d.addr = list_array[l][j].addr + Header
      BY <3>1 DEF Good, Owned
    <3> QED  BY <3>1, <3>2, <1>10
  <2> QED  BY <2>1, <2>2
<1>18. Single'
  <2>1. ASSUME NEW d \in live PROVE d.addr # b.addr
    <3>1. PICK l, j \in Nat : /\ Place(l, j) /\ list_array[l][j].allocated
                              /\ d.addr = list_array[l][j].addr + Header
      BY DEF Good, Held
    <3>2. l # k \/ j # i
      BY <3>1, <1>3
    <3> DEFINE p == list_array[l][j]
               q == list_array[k][i]
    <3>3. p \in Item /\ q \in Item /\ Disjoint(p.addr, End(p), q.addr, End(q))
      BY <3>1, <3>2, <1>2, <1>3, ItemAt DEF Good, Apart
    <3>4. /\ p.addr \in Nat /\ p.length \in Nat /\ q.addr \in Nat /\ q.length \in Nat
          /\ d.addr = p.addr + Header /\ b.addr = q.addr + Header
      BY <3>1, <3>3, <1>10 DEF Item
    <3> HIDE DEF p, q
    <3>5. Disjoint(p.addr, p.addr + Header + p.length, q.addr, q.addr + Header + q.length)
      BY <3>3 DEF End
    <3> QED  BY <3>4, <3>5, HeaderNat DEF Disjoint
  <2>2. ~b.again
    BY <2>1, <1>10
  <2> QED  BY <2>1, <2>2, <1>10 DEF Good, Single
<1> QED  BY <1>11, <1>12, <1>13, <1>14, <1>15, <1>16, <1>17, <1>18 DEF Good

(* kfree clears the marks in front of one address, and changes nothing else. *)
LEMMA FreeMarks ==
    ASSUME Shape, NEW b \in live, kfree(b)
    PROVE  /\ list_array' \in [1 .. Large -> Seq(Item)]
           /\ \A l, j \in Nat : Place(l, j)' <=> Place(l, j)
           /\ \A l, j \in Nat : Place(l, j) =>
                 /\ list_array'[l][j].addr = list_array[l][j].addr
                 /\ list_array'[l][j].length = list_array[l][j].length
                 /\ End(list_array'[l][j]) = End(list_array[l][j])
                 /\ list_array'[l][j].allocated <=>
                       list_array[l][j].allocated /\ list_array[l][j].addr + Header # b.addr
<1>2. list_array \in [1 .. Large -> Seq(Item)]
  BY DEF Shape
<1> DEFINE N(l, j) == IF list_array[l][j].addr + Header = b.addr
                      THEN [list_array[l][j] EXCEPT !.allocated = FALSE] ELSE list_array[l][j]
<1>4. list_array' = [l \in 1 .. Large |-> [j \in 1 .. Len(list_array[l]) |-> N(l, j)]]
  BY DEF kfree
<1>5. \A l, j \in Nat : Place(l, j) => list_array[l][j] \in Item
  BY ItemAt
<1>6. \A l, j \in Nat : Place(l, j) =>
          /\ N(l, j) \in Item
          /\ N(l, j).addr = list_array[l][j].addr
          /\ N(l, j).length = list_array[l][j].length
          /\ N(l, j).allocated <=> list_array[l][j].allocated /\ list_array[l][j].addr + Header # b.addr
  BY <1>5 DEF Item
<1> HIDE DEF N
<1>7. \A l \in 1 .. Large : /\ list_array'[l] \in Seq(Item)
                            /\ Len(list_array'[l]) = Len(list_array[l])
                            /\ \A j \in 1 .. Len(list_array[l]) : list_array'[l][j] = N(l, j)
  <2> SUFFICES ASSUME NEW l \in 1 .. Large
               PROVE  /\ list_array'[l] \in Seq(Item)
                      /\ Len(list_array'[l]) = Len(list_array[l])
                      /\ \A j \in 1 .. Len(list_array[l]) : list_array'[l][j] = N(l, j)
    OBVIOUS
  <2>1. Len(list_array[l]) \in Nat /\ l \in Nat
    BY <1>2, LargeNat
  <2>2. list_array'[l] = [j \in 1 .. Len(list_array[l]) |-> N(l, j)]
    BY <1>4
  <2>3. \A j \in 1 .. Len(list_array[l]) : N(l, j) \in Item
    BY <1>6, <2>1 DEF Place
  <2> QED  BY <2>1, <2>2, <2>3
<1>8. list_array' \in [1 .. Large -> Seq(Item)]
  BY <1>4, <1>7
<1>9. \A l, j \in Nat : Place(l, j)' <=> Place(l, j)
  BY <1>7 DEF Place
<1>10. \A l, j \in Nat : Place(l, j) =>
          /\ list_array'[l][j].addr = list_array[l][j].addr
          /\ list_array'[l][j].length = list_array[l][j].length
          /\ End(list_array'[l][j]) = End(list_array[l][j])
          /\ list_array'[l][j].allocated <=>
                list_array[l][j].allocated /\ list_array[l][j].addr + Header # b.addr
  <2> SUFFICES ASSUME NEW l \in Nat, NEW j \in Nat, Place(l, j)
               PROVE  /\ list_array'[l][j].addr = list_array[l][j].addr
                      /\ list_array'[l][j].length = list_array[l][j].length
                      /\ list_array'[l][j].allocated <=>
                            list_array[l][j].allocated /\ list_array[l][j].addr + Header # b.addr
    BY DEF End
  <2>1. list_array'[l][j] = N(l, j)
    BY <1>7 DEF Place
  <2> QED  BY <1>6, <2>1
<1> QED  BY <1>8, <1>9, <1>10

LEMMA FreeBase ==
    ASSUME Base, NEW b \in live, kfree(b)
    PROVE  Base' /\ Kept
<1>1. /\ list_array' \in [1 .. Large -> Seq(Item)]
      /\ \A l, j \in Nat : Place(l, j)' <=> Place(l, j)
      /\ \A l, j \in Nat : Place(l, j) =>
            /\ list_array'[l][j].addr = list_array[l][j].addr
            /\ list_array'[l][j].length = list_array[l][j].length
  BY FreeMarks DEF Base
<1>2. current_mem_addr' = current_mem_addr /\ live' = live \ {b}
  BY DEF kfree
<1>3. Shape' /\ Room' /\ Ends'
  BY <1>1, <1>2 DEF Base, Shape, Room, Ends
<1> QED  BY <1>1, <1>3 DEF Base, Kept

(* The mark that is cleared is one, and of the block's own chunk. *)
LEMMA FreeGood ==
    ASSUME Good, NEW b \in live, kfree(b)
    PROVE  Good'
<1>1. PICK k, i \in Nat :
          /\ Place(k, i) /\ list_array[k][i].allocated
          /\ b.addr = list_array[k][i].addr + Header
  BY DEF Good, Held
<1>2. list_array \in [1 .. Large -> Seq(Item)] /\ current_mem_addr' = current_mem_addr
  BY DEF Good, Shape, kfree
<1>3. live' = live \ {b}
  BY DEF kfree
<1>8. list_array' \in [1 .. Large -> Seq(Item)]
  BY FreeMarks DEF Good
<1>9. \A l, j \in Nat : Place(l, j)' <=> Place(l, j)
  BY FreeMarks DEF Good
<1>10. \A l, j \in Nat : Place(l, j) =>
          /\ list_array'[l][j].addr = list_array[l][j].addr
          /\ list_array'[l][j].length = list_array[l][j].length
          /\ End(list_array'[l][j]) = End(list_array[l][j])
          /\ list_array'[l][j].allocated <=>
                list_array[l][j].allocated /\ list_array[l][j].addr + Header # b.addr
  BY FreeMarks DEF Good
<1>11. Shape'
  BY <1>2, <1>3, <1>8 DEF Good, Shape
<1>12. Below'
  BY <1>2, <1>9, <1>10 DEF Good, Below, End
<1>13. Apart'
  BY <1>9, <1>10 DEF Good, Apart, End, Disjoint
<1>14. Sized'
  BY <1>9, <1>10 DEF Good, Sized
<1>15. Covered'
  BY <1>2, <1>9, <1>10 DEF Good, Covered, End
<1>16. Held'
  <2> SUFFICES ASSUME NEW d \in live, d # b
               PROVE  \E l, j \in Nat : /\ Place(l, j)' /\ list_array'[l][j].allocated
                                        /\ d.addr = list_array'[l][j].addr + Header
                                        /\ d.length <= list_array'[l][j].length
    BY <1>3 DEF Held
  <2>1. PICK l, j \in Nat : /\ Place(l, j) /\ list_array[l][j].allocated
                            /\ d.addr = list_array[l][j].addr + Header
                            /\ d.length <= list_array[l][j].length
    BY DEF Good, Held
  <2>2. d.addr # b.addr
    BY DEF Good, Single
  <2> QED  BY <2>1, <2>2, <1>9, <1>10
<1>17. Owned'
  <2> SUFFICES ASSUME NEW l \in Nat, NEW j \in Nat, Place(l, j)', list_array'[l][j].allocated
               PROVE  \E d \in live' : d.addr = list_array'[l][j].addr + Header
    BY DEF Owned
  <2>1. Place(l, j) /\ list_array[l][j].allocated /\ list_array[l][j].addr + Header # b.addr
    BY <1>9, <1>10
  <2>2. PICK d \in live : d.addr = list_array[l][j].addr + Header
    BY <2>1 DEF Good, Owned
  <2> QED  BY <2>1, <2>2, <1>3, <1>10
<1>18. Single'
  BY <1>3 DEF Good, Single
<1> QED  BY <1>11, <1>12, <1>13, <1>14, <1>15, <1>16, <1>17, <1>18 DEF Good

----------------------------------------------------------------------------

LEMMA InitInv == Init => Inv
<1> SUFFICES ASSUME Init PROVE Inv
  OBVIOUS
<1>1. \A k, i \in Nat : ~Place(k, i)
  <2>1. \A k \in 1 .. Large : list_array[k] = <<>>
    BY DEF Init
  <2>2. \A k \in 1 .. Large : Len(list_array[k]) = 0
    BY <2>1
  <2> QED  BY <2>2 DEF Place
<1>2. Shape /\ current_mem_addr = 0 /\ live = {} /\ recycled \in BOOLEAN /\ torn \in BOOLEAN
  <2>1. <<>> \in Seq(Item)
    OBVIOUS
  <2>2. list_array \in [1 .. Large -> Seq(Item)]
    BY <2>1 DEF Init
  <2> QED  BY <2>2 DEF Init, Shape
<1>3. Base
  BY <1>1, <1>2 DEF Base, Room, Ends
<1>4. Good
  BY <1>1, <1>2 DEF Good, Below, Apart, Sized, Covered, Held, Owned, Single
<1> QED  BY <1>2, <1>3, <1>4 DEF Inv

(* What every step is that looks for no large block among freed ones. *)
LEMMA Steps ==
    ASSUME Inv, [Next]_vars, ~recycled'
    PROVE  /\ ~recycled /\ Base /\ Base' /\ Kept
           /\ \/ \E length \in Lengths, k \in 1 .. Large :
                    InClass(length, k) /\ Extend(length, k, list_array[k]) /\ ~halted
              \/ (\E length \in Lengths : Reuse(length)) /\ UNCHANGED <<current_mem_addr, taken, torn, halted>>
              \/ (\E b \in live : kfree(b)) /\ UNCHANGED <<current_mem_addr, taken, torn, halted>>
              \/ UNCHANGED vars
<1>1. ASSUME NEW length \in Lengths, New(length)
      PROVE  /\ ~recycled
             /\ \E k \in 1 .. Large : InClass(length, k) /\ Extend(length, k, list_array[k]) /\ ~halted
  BY <1>1 DEF New, Usable
<1>2. ASSUME NEW length \in Lengths, Reuse(length)
      PROVE  ~recycled /\ UNCHANGED <<current_mem_addr, taken, torn, halted>>
  BY <1>2 DEF Reuse
<1>3. ASSUME NEW length \in Lengths, Split(length) \/ MergeOnly(length) PROVE FALSE
  BY <1>3 DEF Split, MergeOnly
<1>4. ASSUME NEW b \in live, kfree(b)
      PROVE  ~recycled /\ UNCHANGED <<current_mem_addr, taken, torn, halted>>
  BY <1>4 DEF kfree
<1>5. CASE UNCHANGED vars
  <2>1. ~recycled /\ Base
    BY <1>5 DEF Inv, vars
  <2>2. Base' /\ Kept
    BY <1>5, <2>1, SameBase DEF vars, Kept, Place
  <2> QED  BY <1>5, <2>1, <2>2
<1>6. CASE \E length \in Lengths : New(length)
  <2>1. PICK length \in Lengths, k \in 1 .. Large :
           InClass(length, k) /\ Extend(length, k, list_array[k]) /\ ~halted
    BY <1>1, <1>6
  <2>2. ~recycled /\ Base
    BY <1>1, <1>6 DEF Inv
  <2> QED  BY <2>1, <2>2, ExtendBase
<1>7. CASE \E length \in Lengths : Reuse(length)
  <2>1. PICK length \in Lengths : Reuse(length)
    BY <1>7
  <2>2. ~recycled /\ Base
    BY <1>2, <2>1 DEF Inv
  <2> QED  BY <1>2, <2>1, <2>2, ReuseBase
<1>8. CASE \E b \in live : kfree(b)
  <2>1. PICK b \in live : kfree(b)
    BY <1>8
  <2>2. ~recycled /\ Base
    BY <1>4, <2>1 DEF Inv
  <2> QED  BY <1>4, <2>1, <2>2, FreeBase
<1> QED  BY <1>3, <1>5, <1>6, <1>7, <1>8 DEF Next

LEMMA NextInv == Inv /\ [Next]_vars => Inv'
<1> SUFFICES ASSUME Inv, [Next]_vars PROVE Inv'
  OBVIOUS
<1>1. recycled' \in BOOLEAN /\ torn' \in BOOLEAN
  <2>1. ASSUME NEW length, NEW k, NEW chunks, Extend(length, k, chunks) PROVE torn' \in BOOLEAN
    BY <2>1 DEF Extend, Inv
  <2>2. ASSUME NEW length \in Lengths, New(length) \/ MergeOnly(length)
        PROVE  recycled' \in BOOLEAN /\ torn' \in BOOLEAN
    BY <2>1, <2>2 DEF New, MergeOnly, Inv
  <2>3. ASSUME NEW length \in Lengths, Reuse(length) \/ Split(length)
        PROVE  recycled' \in BOOLEAN /\ torn' \in BOOLEAN
    BY <2>3 DEF Reuse, Split, Inv
  <2>4. ASSUME NEW b \in live, kfree(b) PROVE recycled' \in BOOLEAN /\ torn' \in BOOLEAN
    BY <2>4 DEF kfree, Inv
  <2>5. CASE UNCHANGED vars
    BY <2>5 DEF vars, Inv
  <2> QED  BY <2>2, <2>3, <2>4, <2>5 DEF Next
<1>2. ASSUME ~recycled' PROVE Base' /\ (torn' \/ Good')
  <2>1. ~recycled /\ Base' /\ (torn \/ Good)
    BY <1>2, Steps DEF Inv
  <2>2. ASSUME ~torn' PROVE Good'
    <3>1. ASSUME NEW length \in Lengths, NEW k \in 1 .. Large,
                 InClass(length, k), Extend(length, k, list_array[k])
          PROVE  Good'
      <4>1. ~torn
        BY <2>2, <3>1 DEF Extend
      <4> QED  BY <2>1, <2>2, <3>1, <4>1, ExtendGood
    <3>2. ASSUME NEW length \in Lengths, Reuse(length) PROVE Good'
      BY <2>1, <2>2, <3>2, ReuseGood DEF Reuse
    <3>3. ASSUME NEW b \in live, kfree(b) PROVE Good'
      BY <2>1, <2>2, <3>3, FreeGood DEF kfree
    <3>4. CASE UNCHANGED vars
      BY <2>1, <2>2, <3>4, SameGood DEF vars
    <3> QED  BY <1>2, <3>1, <3>2, <3>3, <3>4, Steps
  <2> QED  BY <2>1, <2>2
<1> QED  BY <1>1, <1>2 DEF Inv

LEMMA Invariance == Spec => []Inv
  BY InitInv, NextInv, PTL DEF Spec

(* Blocks of the program never overlap, none is given to two and none lies *)
(* on a header, for every page size and table of sizes, as long as no      *)
(* large block is recycled and no header is lost to a fresh page.          *)
THEOREM Separation == Spec => []ApartUntilDamaged
<1>1. Good => BlocksApart
  <2> SUFFICES ASSUME Good, NEW b \in live
               PROVE  /\ ~b.again
                      /\ \A c \in live \ {b} :
                             Disjoint(b.addr, b.addr + b.length, c.addr, c.addr + c.length)
                      /\ \A c \in Chunks :
                             Disjoint(b.addr, b.addr + b.length, c.addr, c.addr + Header)
    BY DEF BlocksApart
  <2>1. \A c \in live : c.addr \in Nat /\ c.length \in Nat
    BY DEF Good, Shape
  <2>2. PICK k, i \in Nat : /\ Place(k, i)
                            /\ b.addr = list_array[k][i].addr + Header
                            /\ b.length <= list_array[k][i].length
    BY DEF Good, Held
  <2> DEFINE p == list_array[k][i]
  <2>3. p \in Item
    BY <2>2, ItemAt DEF Good
  <2>4. ASSUME NEW c \in live \ {b}
        PROVE  Disjoint(b.addr, b.addr + b.length, c.addr, c.addr + c.length)
    <3>1. PICK l, j \in Nat : /\ Place(l, j)
                              /\ c.addr = list_array[l][j].addr + Header
                              /\ c.length <= list_array[l][j].length
      BY DEF Good, Held
    <3> DEFINE q == list_array[l][j]
    <3>2. k # l \/ i # j
      BY <2>2, <3>1 DEF Good, Single
    <3>3. q \in Item /\ Disjoint(p.addr, End(p), q.addr, End(q))
      BY <2>2, <3>1, <3>2, ItemAt DEF Good, Apart
    <3>4. /\ p.addr \in Nat /\ p.length \in Nat /\ q.addr \in Nat /\ q.length \in Nat
          /\ b.addr = p.addr + Header /\ b.length <= p.length
          /\ c.addr = q.addr + Header /\ c.length <= q.length
      BY <2>2, <2>3, <3>1, <3>3 DEF Item
    <3> HIDE DEF p, q
    <3>5. b.length \in Nat /\ c.length \in Nat
      BY <2>1
    <3>6. Disjoint(p.addr, p.addr + Header + p.length, q.addr, q.addr + Header + q.length)
      BY <3>3 DEF End
    <3> QED  BY <3>4, <3>5, <3>6, HeaderNat DEF Disjoint
  <2>5. ASSUME NEW c \in Chunks
        PROVE  Disjoint(b.addr, b.addr + b.length, c.addr, c.addr + Header)
    <3>1. PICK l, j \in Nat : Place(l, j) /\ c = list_array[l][j]
      BY ChunkPlace DEF Good
    <3>2. c \in Item
      BY <3>1, ItemAt DEF Good
    <3>3. /\ p.addr \in Nat /\ p.length \in Nat /\ c.addr \in Nat /\ c.length \in Nat
          /\ b.addr = p.addr + Header /\ b.length <= p.length
      BY <2>2, <2>3, <3>2 DEF Item
    <3>4. CASE k = l /\ i = j
      <4>1. c = p
        BY <3>1, <3>4
      <4> HIDE DEF p
      <4> QED  BY <2>1, <3>3, <4>1, HeaderNat DEF Disjoint
    <3>5. CASE k # l \/ i # j
      <4>1. Disjoint(p.addr, End(p), c.addr, End(c))
        BY <2>2, <3>1, <3>5 DEF Good, Apart
      <4> HIDE DEF p
      <4>2. b.length \in Nat
        BY <2>1
      <4>3. Disjoint(p.addr, p.addr + Header + p.length, c.addr, c.addr + Header + c.length)
        BY <4>1 DEF End
      <4> QED  BY <3>3, <4>2, <4>3, HeaderNat DEF Disjoint
    <3> QED  BY <3>4, <3>5
  <2>6. ~b.again
    BY DEF Good, Single
  <2> QED  BY <2>4, <2>5, <2>6
<1>2. Inv => ApartUntilDamaged
  BY <1>1 DEF Inv, ApartUntilDamaged, Damaged
<1> QED  BY <1>2, Invariance, PTL

(* Until then every byte of the heap stays in a chunk that a list reaches, *)
(* and a chunk is marked exactly while its block is held.                  *)
THEOREM NoLeak == Spec => []NothingLost
<1>1. ASSUME Good
      PROVE  /\ \A a \in 0 .. current_mem_addr - 1 :
                   \E c \in Chunks : c.addr <= a /\ a < c.addr + Header + c.length
             /\ \A c \in Chunks : c.allocated <=> \E b \in live : b.addr = c.addr + Header
  <2>1. \A k, i \in Nat : Place(k, i) => list_array[k][i] \in Chunks
    BY DEF Place, Chunks
  <2>2. \A c \in Chunks : \E k, i \in Nat : Place(k, i) /\ c = list_array[k][i]
    BY <1>1, ChunkPlace DEF Good
  <2>3. \A a \in 0 .. current_mem_addr - 1 :
           \E c \in Chunks : c.addr <= a /\ a < c.addr + Header + c.length
    BY <1>1, <2>1 DEF Good, Covered, End
  <2>4. ASSUME NEW c \in Chunks
        PROVE  c.allocated <=> \E b \in live : b.addr = c.addr + Header
    <3>1. PICK k, i \in Nat : Place(k, i) /\ c = list_array[k][i]
      BY <2>2
    <3>2. c.allocated => \E b \in live : b.addr = c.addr + Header
      BY <1>1, <3>1 DEF Good, Owned
    <3>3. ASSUME NEW b \in live, b.addr = c.addr + Header PROVE c.allocated
      <4>1. PICK l, j \in Nat : /\ Place(l, j) /\ list_array[l][j].allocated
                                /\ b.addr = list_array[l][j].addr + Header
        BY <1>1 DEF Good, Held
      <4> DEFINE d == list_array[l][j]
      <4>2. c \in Item /\ d \in Item
        BY <1>1, <3>1, <4>1, ItemAt DEF Good
      <4>3. c.addr = d.addr
        BY <3>3, <4>1, <4>2, HeapAssumption DEF Item
      <4>4. l = k /\ j = i
        <5>1. (k # l \/ i # j) => Disjoint(c.addr, End(c), d.addr, End(d))
          BY <1>1, <3>1, <4>1 DEF Good, Apart
        <5>2. c.addr \in Nat /\ c.length \in Nat /\ d.addr \in Nat /\ d.length \in Nat
          BY <4>2 DEF Item
        <5> HIDE DEF d
        <5>3. ~Disjoint(c.addr, End(c), d.addr, End(d))
          BY <4>3, <5>2, HeapAssumption DEF Disjoint, End
        <5> QED  BY <5>1, <5>3
      <4> QED  BY <3>1, <4>1, <4>4
    <3> QED  BY <3>2, <3>3
  <2> QED  BY <2>3, <2>4
<1>2. Inv => NothingLost
  BY <1>1 DEF Inv, NothingLost, Damaged
<1> QED  BY <1>2, Invariance, PTL
----------------------------------------------------------------------------
(* Division by a constant that is not known: the facts the pages need.     *)

LEMMA DivMod ==
    ASSUME NEW d \in Nat \ {0}, NEW a \in Nat
    PROVE  a \div d \in Nat /\ a % d \in 0 .. d - 1 /\ a = d * (a \div d) + (a % d)
  OBVIOUS

LEMMA DivUnique ==
    ASSUME NEW d \in Nat \ {0}, NEW a \in Nat, NEW q \in Nat, NEW r \in 0 .. d - 1,
           a = d * q + r
    PROVE  a \div d = q
  OBVIOUS

LEMMA DivMonotonic ==
    ASSUME NEW d \in Nat \ {0}, NEW a \in Nat, NEW b \in Nat, a <= b
    PROVE  a \div d <= b \div d
  OBVIOUS

LEMMA Multiple ==
    ASSUME NEW d \in Nat \ {0}, NEW a \in Nat
    PROVE  a % d = 0 <=> \E q \in Nat : a = d * q
<1>1. ASSUME NEW q \in Nat, a = d * q PROVE a % d = 0
  BY <1>1
<1>2. ASSUME a % d = 0 PROVE a = d * (a \div d) /\ a \div d \in Nat
  BY <1>2, DivMod
<1> QED  BY <1>1, <1>2

LEMMA MultipleSum ==
    ASSUME NEW d \in Nat \ {0}, NEW a \in Nat, NEW b \in Nat, a % d = 0, b % d = 0
    PROVE  (a + b) % d = 0
<1>1. PICK q \in Nat : a = d * q
  BY Multiple
<1>2. PICK r \in Nat : b = d * r
  BY Multiple
<1>3. a + b = d * (q + r) /\ q + r \in Nat /\ a + b \in Nat
  BY <1>1, <1>2
<1> QED  BY <1>3, Multiple

(* A header that begins at a multiple of its size is within a page.        *)
LEMMA InPage ==
    ASSUME NEW h \in Nat \ {0}, NEW d \in Nat \ {0}, NEW a \in Nat, d % h = 0, a % h = 0
    PROVE  (a % d) + h <= d
<1>1. PICK k \in Nat : a = h * k
  BY Multiple
<1>2. PICK m \in Nat : d = h * m
  BY Multiple
<1>3. PICK q \in Nat, r \in 0 .. d - 1 : a = d * q + r /\ a % d = r
  BY DivMod
<1>4. r = h * (k - m * q)
  BY <1>1, <1>2, <1>3
<1> DEFINE n == k - m * q
<1>5. n \in Int /\ r = h * n
  BY <1>3, <1>4
<1> HIDE DEF n
<1>6. n + 1 <= m
  BY <1>2, <1>5
<1>7. h * (n + 1) <= h * m
  BY <1>5, <1>6
<1>8. r <= d - h
  BY <1>2, <1>5, <1>7
<1> QED  BY ONLY <1>3, <1>8

LEMMA SamePage ==
    ASSUME NEW h \in Nat \ {0}, NEW d \in Nat \ {0}, NEW a \in Nat, d % h = 0, a % h = 0
    PROVE  (a + h - 1) \div d = a \div d
<1>1. PICK q \in Nat, r \in 0 .. d - 1 : a = d * q + r /\ a \div d = q /\ r = a % d
  BY DivMod
<1>10. (a % d) + h <= d
  BY InPage
<1>2. r <= d - h
  BY <1>1, <1>10
<1>3. a + h - 1 = d * q + (r + h - 1) /\ r + h - 1 \in 0 .. d - 1 /\ a + h - 1 \in Nat
  BY <1>1, <1>2
<1> QED  BY ONLY <1>1, <1>3, DivUnique

----------------------------------------------------------------------------
(* The pages, whether or not a large block was recycled.                   *)

(* The page in use, and all the pages below it, are mapped.                *)
Paged ==
    /\ current_mem_addr \in 0 .. MaxAddr
    /\ taken \in [Pages -> Nat]
    /\ \A p \in Nat : p <= current_mem_addr \div PageSize => taken[p] > 0

LEMMA PageNat ==
    /\ PageSize \in Nat \ {0} /\ MaxAddr \in Nat
    /\ \A a \in 0 .. MaxAddr : a \div PageSize \in Nat /\ a \div PageSize \in Pages
<1>1. PageSize \in Nat \ {0} /\ MaxAddr \in Nat
  BY HeapAssumption
<1>2. ASSUME NEW a \in 0 .. MaxAddr PROVE a \div PageSize \in Nat /\ a \div PageSize \in Pages
  <2>1. a \div PageSize \in Nat /\ MaxAddr \div PageSize \in Nat
    BY <1>1, DivMod
  <2>2. a \div PageSize <= MaxAddr \div PageSize
    BY <1>1, DivMonotonic
  <2> QED  BY <2>1, <2>2 DEF Pages
<1> QED  BY <1>1, <1>2

(* NewPages is enough: the last new page is not before the one the next    *)
(* chunk begins in.                                                        *)
LEMMA EnoughPages ==
    ASSUME NEW size \in Nat, current_mem_addr \in Nat
    PROVE  /\ NewPages(size) \in Nat \ {0}
           /\ (current_mem_addr + size) \div PageSize <= NextPage + NewPages(size) - 1
<1> DEFINE q == current_mem_addr \div PageSize
           r == current_mem_addr % PageSize
           left == PageSize - r
<1>1. /\ PageSize \in Nat \ {0}
      /\ q \in Nat /\ r \in 0 .. PageSize - 1 /\ current_mem_addr = PageSize * q + r
  BY PageNat, DivMod
<1>2. /\ NewPages(size) = (IF size < left THEN 1 ELSE (size - left) \div PageSize + 1)
      /\ NextPage = q + 1
  BY DEF NewPages, NextPage
<1> HIDE DEF q, r
<1>3. CASE size < left
  <2>1. current_mem_addr + size = PageSize * q + (r + size) /\ r + size \in 0 .. PageSize - 1
    BY <1>1, <1>3
  <2>2. (current_mem_addr + size) \div PageSize = q
    BY <1>1, <2>1, DivUnique
  <2> QED  BY <1>1, <1>2, <1>3, <2>2
<1>4. CASE ~(size < left)
  <2> DEFINE t == (size - left) \div PageSize
             u == (size - left) % PageSize
  <2>1. size - left \in Nat
    BY <1>1, <1>4
  <2>2. t \in Nat /\ u \in 0 .. PageSize - 1 /\ size - left = PageSize * t + u
    BY <1>1, <2>1, DivMod
  <2>3. NewPages(size) = t + 1
    BY <1>2, <1>4
  <2> HIDE DEF t, u
  <2>4. current_mem_addr + size = PageSize * (q + 1 + t) + u /\ q + 1 + t \in Nat
    <3>1. size = PageSize - r + PageSize * t + u
      BY <1>1, <2>2
    <3> QED  BY <1>1, <2>2, <3>1
  <2>5. (current_mem_addr + size) \div PageSize = q + 1 + t
    BY <1>1, <2>2, <2>4, DivUnique
  <2> QED  BY <1>1, <1>2, <2>2, <2>3, <2>5
<1> QED  BY <1>3, <1>4

LEMMA ExtendPaged ==
    ASSUME Paged, NEW length \in Lengths, NEW k \in 1 .. Large, NEW chunks,
           Extend(length, k, chunks)
    PROVE  Paged' /\ \A p \in Pages : taken'[p] # taken[p] => NextPage <= p
<1>1. CASE UNCHANGED <<current_mem_addr, taken>>
  BY <1>1 DEF Paged
<1>2. CASE HeaderMapped(current_mem_addr)
  <2> DEFINE size == IF k = Large THEN length ELSE size_array[k]
             more == Occupied(size)
             new == NextPage .. NextPage + NewPages(more) - 1
             q == current_mem_addr \div PageSize
  <2>1. more \in Nat
    BY LargeNat, HeapAssumption DEF Large, Occupied
  <2>2. /\ current_mem_addr + more <= MaxAddr
        /\ current_mem_addr' = current_mem_addr + more
        /\ taken' = [p \in Pages |-> IF p \in new THEN taken[p] + 1 ELSE taken[p]]
    BY <1>2 DEF Extend
  <2> HIDE DEF more
  <2>3. current_mem_addr \in Nat /\ PageSize \in Nat \ {0} /\ MaxAddr \in Nat
    BY PageNat DEF Paged
  <2>4. current_mem_addr' \in 0 .. MaxAddr
    BY <2>1, <2>2, <2>3
  <2>5. /\ NewPages(more) \in Nat \ {0}
        /\ current_mem_addr' \div PageSize <= NextPage + NewPages(more) - 1
    BY <2>1, <2>2, <2>3, EnoughPages
  <2>6. q \in Nat /\ NextPage = q + 1
    BY <2>3, DivMod DEF NextPage
  <2>7. taken' \in [Pages -> Nat]
    BY <2>2 DEF Paged
  <2>8. ASSUME NEW p \in Nat, p <= current_mem_addr' \div PageSize PROVE taken'[p] > 0
    <3>1. /\ current_mem_addr' \div PageSize \in Nat
          /\ MaxAddr \div PageSize \in Nat
          /\ current_mem_addr' \div PageSize <= MaxAddr \div PageSize
      <4>1. current_mem_addr' \in Nat /\ current_mem_addr' <= MaxAddr
        BY <2>3, <2>4
      <4> QED  BY <2>3, <4>1, DivMod, DivMonotonic
    <3>2. p \in Pages
      BY <2>8, <3>1 DEF Pages
    <3>3. taken[p] \in Nat /\ taken'[p] = IF p \in new THEN taken[p] + 1 ELSE taken[p]
      BY <2>2, <3>2 DEF Paged
    <3>4. CASE p <= q
      <4>1. taken[p] > 0
        BY <3>4 DEF Paged
      <4> HIDE DEF new
      <4> QED  BY <3>3, <4>1
    <3>5. CASE ~(p <= q)
      <4>1. p \in new
        BY <2>5, <2>6, <2>8, <3>1, <3>5
      <4> HIDE DEF new
      <4> QED  BY <3>3, <4>1
    <3> QED  BY <3>4, <3>5
  <2>9. ASSUME NEW p \in Pages, taken'[p] # taken[p] PROVE NextPage <= p
    <3>1. p \in new
      BY <2>2, <2>9
    <3> QED  BY <2>5, <2>6, <3>1
  <2> QED  BY <2>4, <2>7, <2>8, <2>9 DEF Paged
<1> QED  BY <1>1, <1>2 DEF Extend

LEMMA NextPaged == Paged /\ [Next]_vars => Paged'
<1> SUFFICES ASSUME Paged, [Next]_vars PROVE Paged'
  OBVIOUS
<1>1. CASE UNCHANGED <<current_mem_addr, taken>>
  BY <1>1 DEF Paged
<1>2. ASSUME NEW length \in Lengths, New(length) PROVE Paged'
  BY <1>2, ExtendPaged DEF New
<1>3. ASSUME NEW length \in Lengths, MergeOnly(length) PROVE Paged'
  <2>1. Large \in 1 .. Large
    BY LargeNat
  <2> QED  BY <1>3, <2>1, ExtendPaged DEF MergeOnly
<1>4. ASSUME NEW length \in Lengths, Reuse(length) \/ Split(length)
      PROVE  UNCHANGED <<current_mem_addr, taken>>
  BY <1>4 DEF Reuse, Split
<1>5. ASSUME NEW b \in live, kfree(b) PROVE UNCHANGED <<current_mem_addr, taken>>
  BY <1>5 DEF kfree
<1>6. CASE UNCHANGED vars
  BY <1>1, <1>6 DEF vars
<1> QED  BY <1>1, <1>2, <1>3, <1>4, <1>5, <1>6 DEF Next

LEMMA PagedInvariance == Spec => []Paged
<1>1. Init => Paged
  <2> SUFFICES ASSUME Init PROVE Paged
    OBVIOUS
  <2>1. /\ current_mem_addr = 0 /\ MaxAddr \in Nat /\ PageSize \in Nat \ {0}
        /\ taken = [p \in Pages |-> IF p = 0 THEN 1 ELSE 0]
    BY PageNat DEF Init
  <2>2. 0 \div PageSize = 0 /\ 0 \in Pages
    BY <2>1, PageNat, DivUnique
  <2> QED  BY <2>1, <2>2 DEF Paged
<1>2. Paged /\ [Next]_vars => Paged'
  BY NextPaged
<1> QED  BY <1>1, <1>2, PTL DEF Spec

(* Bytes before the next page are on no page that is mapped. *)
LEMMA BeforeNext ==
    ASSUME NEW a \in Nat, current_mem_addr \in Nat, NEW p \in Nat, NextPage <= p
    PROVE  /\ a <= current_mem_addr => a <= p * PageSize
           /\ (current_mem_addr % PageSize) + a <= PageSize => current_mem_addr + a <= p * PageSize
<1> DEFINE q == current_mem_addr \div PageSize
           r == current_mem_addr % PageSize
<1>1. /\ PageSize \in Nat \ {0} /\ q \in Nat /\ r \in 0 .. PageSize - 1
      /\ current_mem_addr = PageSize * q + r /\ NextPage = q + 1
  BY PageNat, DivMod DEF NextPage
<1> HIDE DEF q, r
<1>2. (q + 1) * PageSize <= p * PageSize
  BY <1>1
<1>3. (q + 1) * PageSize \in Nat /\ p * PageSize \in Nat
  BY <1>1
<1>4. (q + 1) * PageSize = PageSize * q + PageSize
  BY <1>1
<1>5. current_mem_addr <= p * PageSize
  BY <1>1, <1>2, <1>3, <1>4
<1>6. ASSUME r + a <= PageSize PROVE current_mem_addr + a <= p * PageSize
  BY <1>1, <1>2, <1>3, <1>4, <1>6
<1> QED  BY <1>3, <1>5, <1>6 DEF r

(* Where pages are a number of headers: the pages that a chunk maps again  *)
(* hold no byte of a block or of a header, and of the new chunk's header   *)
(* none if it begins at a multiple of its size.                            *)
THEOREM NoFreshPage == ASSUME PageSize % Header = 0 PROVE Spec => DataStays
<1> DEFINE Stays ==
               \A p \in Pages : taken[p] > 0 /\ taken'[p] # taken[p] =>
                   \/ recycled'
                   \/ /\ \A b \in live : OffPage(b.addr, b.addr + b.length, p)
                      /\ \A c \in Chunks : OffPage(c.addr, c.addr + Header, p)
                      /\ \A c \in Chunks' :
                             c.addr % Header = 0 => OffPage(c.addr, c.addr + Header, p)
<1>1. ASSUME Inv, Paged, [Next]_vars PROVE Stays
  <2> SUFFICES ASSUME NEW p \in Pages, taken'[p] # taken[p], ~recycled'
               PROVE  /\ \A b \in live : OffPage(b.addr, b.addr + b.length, p)
                      /\ \A c \in Chunks : OffPage(c.addr, c.addr + Header, p)
                      /\ \A c \in Chunks' :
                             c.addr % Header = 0 => OffPage(c.addr, c.addr + Header, p)
    OBVIOUS
  <2>1. PICK length \in Lengths, k \in 1 .. Large :
           InClass(length, k) /\ Extend(length, k, list_array[k])
    BY <1>1, Steps DEF vars
  <2>2. Base /\ Base' /\ Placed
    BY <1>1, <2>1, Steps, ExtendBase
  <2>3. /\ NextPage <= p /\ p \in Nat /\ current_mem_addr \in Nat
        /\ PageSize \in Nat \ {0} /\ Header \in Nat \ {0}
    <3>1. NextPage <= p
      BY <1>1, <2>1, ExtendPaged
    <3> QED  BY <3>1, <1>1, PageNat, HeaderNat DEF Pages, Paged
  <2>4. ASSUME NEW b \in live PROVE OffPage(b.addr, b.addr + b.length, p)
    <3>1. b.addr + b.length \in Nat /\ b.addr + b.length <= current_mem_addr
      BY <2>2 DEF Base, Shape, Ends
    <3> QED  BY <2>3, <3>1, BeforeNext DEF OffPage, Disjoint
  <2>5. ASSUME NEW k2 \in Nat, NEW i \in Nat, Place(k2, i)
        PROVE  OffPage(list_array[k2][i].addr, list_array[k2][i].addr + Header, p)
    <3> DEFINE c == list_array[k2][i]
    <3>1. c \in Item /\ c.addr + Header <= current_mem_addr
      BY <2>2, <2>5, ItemAt DEF Base, Room
    <3>2. c.addr + Header \in Nat
      BY <2>3, <3>1 DEF Item
    <3> HIDE DEF c
    <3>3. OffPage(c.addr, c.addr + Header, p)
      BY <2>3, <3>1, <3>2, BeforeNext DEF OffPage, Disjoint
    <3> QED  BY <3>3 DEF c
  <2>6. ASSUME NEW c \in Chunks PROVE OffPage(c.addr, c.addr + Header, p)
    <3>1. PICK l, j \in Nat : Place(l, j) /\ c = list_array[l][j]
      BY <2>2, ChunkPlace DEF Base
    <3> QED  BY <2>5, <3>1
  <2>7. ASSUME NEW c \in Chunks', c.addr % Header = 0 PROVE OffPage(c.addr, c.addr + Header, p)
    <3>1. PICK l, j \in Nat : Place(l, j)' /\ c = list_array'[l][j]
      <4>1. PICK l \in 1 .. Large : \E j \in 1 .. Len(list_array'[l]) : c = list_array'[l][j]
        BY DEF Chunks
      <4>2. l \in Nat /\ Len(list_array'[l]) \in Nat
        BY <2>2, LargeNat DEF Base, Shape
      <4> QED  BY <4>1, <4>2 DEF Place
    <3>2. CASE Place(l, j) /\ list_array'[l][j].addr = list_array[l][j].addr
      <4>1. OffPage(list_array[l][j].addr, list_array[l][j].addr + Header, p)
        BY <2>5, <3>2
      <4> QED  BY <3>1, <3>2, <4>1
    <3>3. CASE c.addr = current_mem_addr
      <4>1. (current_mem_addr % PageSize) + Header <= PageSize
        BY <2>3, <2>7, <3>3, InPage
      <4>2. current_mem_addr + Header <= p * PageSize
        BY <2>3, <4>1, BeforeNext
      <4> QED  BY <3>3, <4>2 DEF OffPage, Disjoint
    <3> QED  BY <2>2, <3>1, <3>2, <3>3 DEF Placed
  <2> QED  BY <2>4, <2>6, <2>7
<1>2. Inv /\ Paged /\ [Next]_vars => [Stays]_vars
  BY <1>1
<1>3. [][Stays]_vars => DataStays
  BY PTL DEF DataStays
<1> QED  BY <1>2, <1>3, Invariance, PagedInvariance, PTL DEF Spec

(* Every byte of a block is on a mapped page, wherever in a page its chunk *)
(* begins.                                                                 *)
THEOREM Mapping == Spec => []BlocksMapped
<1>1. ASSUME Base, Paged, NEW b \in live, NEW a \in b.addr .. b.addr + b.length - 1
      PROVE  Mapped(a)
  <2>1. b.addr \in Nat /\ b.length \in Nat /\ b.addr + b.length <= current_mem_addr
    BY <1>1 DEF Base, Shape, Ends
  <2>2. /\ current_mem_addr \in 0 .. MaxAddr /\ MaxAddr \in Nat /\ PageSize \in Nat \ {0}
    BY <1>1, PageNat DEF Paged
  <2>3. a \in 0 .. MaxAddr /\ a <= current_mem_addr
    BY <1>1, <2>1, <2>2
  <2>4. a \div PageSize \in Nat /\ a \div PageSize \in Pages
    BY <2>3, PageNat
  <2>5. a \div PageSize <= current_mem_addr \div PageSize
    BY <2>2, <2>3, DivMonotonic
  <2> QED  BY <1>1, <2>4, <2>5 DEF Mapped, Paged
<1>2. Inv /\ Paged => BlocksMapped
  BY <1>1 DEF Inv, BlocksMapped
<1> QED  BY <1>2, Invariance, PagedInvariance, PTL

----------------------------------------------------------------------------
(* The headers that are written before their pages are mapped.             *)

(* All chunks are as long as a number of headers.                          *)
Even == \A k, i \in Nat : Place(k, i) => list_array[k][i].length % Header = 0

Aligned == Even => current_mem_addr % Header = 0

(* A fault, or a torn header, has a chunk of another length before it. *)
Faultless == recycled \/ ((torn \/ Aligned) /\ (halted \/ torn => ~Even))

LEMMA KeptEven == Kept => (Even' => Even)
  BY DEF Kept, Even

(* The header of the next chunk is whole on a mapped page if it is aligned. *)
LEMMA AlignedHeader ==
    ASSUME Paged, PageSize % Header = 0, current_mem_addr % Header = 0
    PROVE  /\ HeaderMapped(current_mem_addr)
           /\ \A c \in [addr : {current_mem_addr}, length : Nat, allocated : {TRUE}] : Written(c) = c
<1>1. /\ current_mem_addr \in 0 .. MaxAddr /\ current_mem_addr \in Nat
      /\ PageSize \in Nat \ {0} /\ Header \in Nat \ {0}
  BY PageNat, HeaderNat DEF Paged
<1>2. Mapped(current_mem_addr)
  <2>1. current_mem_addr \div PageSize \in Nat /\ current_mem_addr \div PageSize \in Pages
    BY <1>1, PageNat
  <2> QED  BY <2>1 DEF Mapped, Paged
<1>3. (current_mem_addr + Header - 1) \div PageSize = current_mem_addr \div PageSize
  BY <1>1, SamePage
<1>4. HeaderMapped(current_mem_addr)
  BY <1>2, <1>3 DEF Mapped, HeaderMapped
<1>5. ~(PageSize - (current_mem_addr % PageSize) < Header)
  <2>1. current_mem_addr % PageSize \in 0 .. PageSize - 1
    BY <1>1, DivMod
  <2>2. (current_mem_addr % PageSize) + Header <= PageSize
    BY <1>1, InPage
  <2> QED  BY <1>1, <2>1, <2>2
<1> QED  BY <1>4, <1>5 DEF Written

(* A chunk of a multiple of the header's size keeps the next one aligned. *)
LEMMA OneMoreAligned ==
    ASSUME Paged, Good', Kept, Aligned, OneMore \/ UNCHANGED current_mem_addr
    PROVE  Aligned'
<1> SUFFICES ASSUME Even' PROVE current_mem_addr' % Header = 0
  BY DEF Aligned
<1>1. current_mem_addr % Header = 0 /\ current_mem_addr \in Nat /\ Header \in Nat \ {0}
  <2>1. Header \in Nat \ {0} /\ MaxAddr \in Nat
    BY HeapAssumption
  <2> QED  BY <2>1, KeptEven DEF Aligned, Paged
<1>2. CASE OneMore
  <2>1. PICK k, i \in Nat :
            /\ Place(k, i)'
            /\ current_mem_addr' = current_mem_addr + list_array'[k][i].length + Header
    BY <1>2 DEF OneMore
  <2> DEFINE l == list_array'[k][i].length
  <2>2. l % Header = 0
    BY <2>1 DEF Even
  <2>3. l \in Nat
    <3>1. k \in 1 .. Large /\ i \in 1 .. Len(list_array'[k])
      BY <2>1 DEF Place
    <3>2. list_array'[k] \in Seq(Item)
      BY <3>1 DEF Good, Shape
    <3>3. list_array'[k][i] \in Item
      BY <3>1, <3>2
    <3> QED  BY <3>3 DEF Item
  <2>4. current_mem_addr' = current_mem_addr + l + Header
    BY <2>1
  <2> HIDE DEF l
  <2>5. current_mem_addr + l \in Nat
    BY <1>1, <2>3
  <2>6. (current_mem_addr + l) % Header = 0
    BY <1>1, <2>2, <2>3, MultipleSum
  <2>7. Header % Header = 0
    BY <1>1
  <2> QED  BY <1>1, <2>4, <2>5, <2>6, <2>7, MultipleSum
<1> QED  BY <1>1, <1>2

LEMMA NextFaultless ==
    ASSUME PageSize % Header = 0, Inv, Paged, Faultless, [Next]_vars
    PROVE  Faultless'
<1> SUFFICES ASSUME ~recycled' PROVE Faultless'
  BY DEF Faultless
<1>1. ~recycled /\ Kept /\ (torn \/ Good) /\ Inv'
  BY Steps, NextInv DEF Inv
<1>2. (torn \/ Aligned) /\ (halted \/ torn => ~Even) /\ (~Even => ~Even')
  BY <1>1, KeptEven DEF Faultless
<1>3. ASSUME NEW length \in Lengths, NEW k \in 1 .. Large,
             InClass(length, k), Extend(length, k, list_array[k]), ~halted
      PROVE  Faultless'
  <2>1. CASE ~Even
    <3>1. torn' \/ Aligned'
      <4>1. CASE ~torn'
        <5>1. ~torn /\ Good /\ Good' /\ (OneMore \/ UNCHANGED current_mem_addr)
          BY <1>1, <1>3, <4>1, ExtendGood DEF Extend
        <5> QED  BY <1>1, <1>2, <5>1, OneMoreAligned
      <4> QED  BY <4>1
    <3> QED  BY <1>2, <2>1, <3>1 DEF Faultless
  <2>2. CASE Even
    <3>1. ~torn /\ Good /\ current_mem_addr % Header = 0
      BY <1>1, <1>2, <2>2 DEF Aligned
    <3>2. ~torn' /\ ~halted'
      <4> DEFINE c == [addr |-> current_mem_addr,
                       length |-> IF k = Large THEN length ELSE size_array[k], allocated |-> TRUE]
      <4>1. c \in [addr : {current_mem_addr}, length : Nat, allocated : {TRUE}]
        BY LargeNat, HeapAssumption DEF Large
      <4>2. HeaderMapped(current_mem_addr) /\ Written(c) = c
        BY <3>1, <4>1, AlignedHeader
      <4>3. torn' = (torn \/ Written(c) # c) /\ halted' = halted
        BY <1>3, <4>2 DEF Extend
      <4> HIDE DEF c
      <4> QED  BY <1>3, <3>1, <4>2, <4>3
    <3>3. Good' /\ (OneMore \/ UNCHANGED current_mem_addr)
      BY <1>3, <3>1, <3>2, ExtendGood
    <3> QED  BY <1>1, <1>2, <3>1, <3>2, <3>3, OneMoreAligned DEF Faultless
  <2> QED  BY <2>1, <2>2
<1>4. CASE UNCHANGED <<current_mem_addr, torn, halted>>
  <2>1. torn' \/ Aligned'
    <3>1. CASE ~torn
      <4>1. Good'
        BY <1>1, <1>4, <3>1 DEF Inv
      <4> QED  BY <1>1, <1>2, <1>4, <3>1, <4>1, OneMoreAligned
    <3> QED  BY <1>4, <3>1
  <2> QED  BY <1>2, <1>4, <2>1 DEF Faultless
<1> QED  BY <1>3, <1>4, Steps DEF vars

(* Where pages are a number of headers, as they are, writing a header      *)
(* before its pages are mapped can fault, or lose the header, only when a  *)
(* large block of another length was asked for.                            *)
THEOREM NoFault == ASSUME PageSize % Header = 0 PROVE Spec => []AlignedNeverFaults
<1>1. Init => Faultless
  <2> SUFFICES ASSUME Init PROVE Faultless
    OBVIOUS
  <2>1. current_mem_addr % Header = 0
    BY HeaderNat DEF Init
  <2> QED  BY <2>1 DEF Init, Faultless, Aligned
<1>2. PageSize % Header = 0 /\ Inv /\ Paged /\ Faultless /\ [Next]_vars => Faultless'
  BY NextFaultless
<1>3. Inv /\ Faultless => AlignedNeverFaults
  <2> SUFFICES ASSUME Inv, Faultless, halted \/ torn, ~recycled
               PROVE  \E c \in Chunks : c.length % Header # 0
    BY DEF AlignedNeverFaults
  <2>1. PICK k, i \in Nat : Place(k, i) /\ list_array[k][i].length % Header # 0
    BY DEF Faultless, Even
  <2>2. list_array[k][i] \in Chunks
    BY <2>1 DEF Place, Chunks
  <2> QED  BY <2>1, <2>2
<1> QED  BY <1>1, <1>2, <1>3, Invariance, PagedInvariance, PTL DEF Spec
=============================================================================
