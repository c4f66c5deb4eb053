---------------------------- MODULE ArenaProofs ----------------------------
(***************************************************************************)
(* Proofs about Arena, for any types, any number of buffers and boxes: if  *)
(* the types that share a bin share its slot size, boxes never overlap,    *)
(* values stay intact and no slot is lost.                                 *)
(*                                                                         *)
(* The inductive invariant takes the state as parameters, so that a step   *)
(* that extends a bin is one that adds a buffer and one that then places a *)
(* box.                                                                    *)
(***************************************************************************)
EXTENDS Arena, TLAPS

Small == {n \in Sizes : ~OnHeap(n)}

(* Types that share a bin share the size of its slots.                     *)
OneSize == \A n, m \in Small : Bin(n) = Bin(m) => Slot(n) = Slot(m)

Buffers(u) == Seq(1 .. u)

(* Each buffer belongs to one bin, once.                                   *)
Layout(ls, u) ==
  /\ u \in 0 .. MaxBuffers
  /\ ls \in [Bins -> Buffers(u)]
  /\ \A i, j \in Bins : \A q \in 1 .. Len(ls[i]), r \in 1 .. Len(ls[j]) :
       ls[i][q] = ls[j][r] => i = j /\ q = r

(* The slots of a bin in the order of its buffers c: the one at position p *)
(* is in buffer p div BUFFER_SIZE of the bin.                              *)
EndIn(c)          == BUFFER_SIZE * (Len(c) + 1)
PositionsIn(c, s) == {p \in BUFFER_SIZE .. EndIn(c) - 1 : Multiple(p, s)}
AddressIn(c, p)   == Start(c[p \div BUFFER_SIZE]) + (p % BUFFER_SIZE)

EndOf(ls, n)     == EndIn(ls[Bin(n)])
Positions(ls, n) == PositionsIn(ls[Bin(n)], Slot(n))
At(ls, n, p)     == AddressIn(ls[Bin(n)], p)

(* Memory behind the buffers is untouched.                                 *)
MemoryOK(mem, u) ==
  /\ mem \in [Address -> Address \cup {0, Data}]
  /\ \A a \in Address : a >= Start(u + 1) => mem[a] = 0

(* A box is on the heap or in a slot of its bin, with its value; those of  *)
(* newer boxes are behind it.                                              *)
Box == [ptr : Nat, size : Sizes]

Holds(e, ls, n, p) == e.ptr = At(ls, n, p) /\ Bin(e.size) = Bin(n)

Placed(e, ls) ==
  IF OnHeap(e.size) THEN e.ptr = 0
  ELSE \E p \in Positions(ls, e.size) : e.ptr = At(ls, e.size, p)

Before(d, e, ls) ==
  \A n \in Small : \A p, r \in Positions(ls, n) :
    Holds(d, ls, n, p) /\ Holds(e, ls, n, r) => p < r

Kept(e, mem) == e.ptr # 0 => \A a \in Blocks(e.ptr, e.size) : mem[a] = Data

BoxesOK(bx, ls, mem) ==
  /\ bx \in Seq(Box)
  /\ \A k \in 1 .. Len(bx) : Placed(bx[k], ls) /\ Kept(bx[k], mem)
  /\ \A k, l \in 1 .. Len(bx) : k < l => Before(bx[k], bx[l], ls)

(* The free slots are those from position t on, each linked to the next    *)
(* one, or, in the current buffer, to nothing.                             *)
Taken(bx, ls, n, p) == \E k \in 1 .. Len(bx) : Holds(bx[k], ls, n, p)

Link(ls, mem, n, p) ==
  \/ mem[At(ls, n, p)] = 0 /\ EndOf(ls, n) <= p + BUFFER_SIZE
  \/ /\ p + Slot(n) < EndOf(ls, n)
     /\ mem[At(ls, n, p)] = At(ls, n, p + Slot(n))

FreeFrom(h, ls, mem, bx, n, t) ==
  /\ h = IF t = EndOf(ls, n) THEN 0 ELSE At(ls, n, t)
  /\ \A p \in Positions(ls, n) :
       IF p < t THEN Taken(bx, ls, n, p)
       ELSE ~Taken(bx, ls, n, p) /\ Link(ls, mem, n, p)

Ends(ls, n) == Positions(ls, n) \cup {EndOf(ls, n)}

FreeOK(hd, ls, mem, bx) ==
  /\ hd \in [Bins -> Nat]
  /\ \A i \in Bins : (\A n \in Small : Bin(n) # i) => hd[i] = 0
  /\ \A n \in Small : \E t \in Ends(ls, n) :
       FreeFrom(hd[Bin(n)], ls, mem, bx, n, t)

Inv(hd, ls, mem, bx, u) ==
  /\ Layout(ls, u) /\ MemoryOK(mem, u)
  /\ BoxesOK(bx, ls, mem) /\ FreeOK(hd, ls, mem, bx)

ArenaInv == Inv(head, lists, memory, boxes, used)

------------------------------------------------------------------------------
(* Sizes                                                                   *)

SlotSizes == {8, 16, 24, 32, 48, 64, 96, 128, 192, 256, 384, 512, 768}

(* bin() finds a slot that is large enough.                                *)
LEMMA SlotFits ==
  ASSUME NEW n \in Small
  PROVE  /\ n \in Nat /\ Slot(n) \in SlotSizes /\ n <= Slot(n)
         /\ Bin(n) \in Bins
<1>1. n \in Nat /\ n <= 768
  BY ArenaAssumption DEF Small, OnHeap
<1> DEFINE R(k) == n <= BinSizes[k] /\ (k > 1 => n > BinSizes[k - 1])
<1>2. /\ BinSizes[1] = 8 /\ BinSizes[2] = 16 /\ BinSizes[3] = 24
      /\ BinSizes[4] = 32 /\ BinSizes[5] = 48 /\ BinSizes[6] = 64
      /\ BinSizes[7] = 96 /\ BinSizes[8] = 128 /\ BinSizes[9] = 192
      /\ BinSizes[10] = 256 /\ BinSizes[11] = 384 /\ BinSizes[12] = 512
      /\ BinSizes[13] = 768 /\ Len(BinSizes) = 13
  BY DEF BinSizes
<1>3. \E k \in 1 .. 13 : R(k)
  <2>1. ~(n > 768)
    BY <1>1
  <2>2. CASE n <= 8
    BY <1>2, <2>2
  <2>3. CASE n > 8 /\ n <= 16
    BY <1>2, <2>3
  <2>4. CASE n > 16 /\ n <= 24
    BY <1>2, <2>4
  <2>5. CASE n > 24 /\ n <= 32
    BY <1>2, <2>5
  <2>6. CASE n > 32 /\ n <= 48
    BY <1>2, <2>6
  <2>7. CASE n > 48 /\ n <= 64
    BY <1>2, <2>7
  <2>8. CASE n > 64 /\ n <= 96
    BY <1>2, <2>8
  <2>9. CASE n > 96 /\ n <= 128
    BY <1>2, <2>9
  <2>10. CASE n > 128 /\ n <= 192
    BY <1>2, <2>10
  <2>11. CASE n > 192 /\ n <= 256
    BY <1>2, <2>11
  <2>12. CASE n > 256 /\ n <= 384
    BY <1>2, <2>12
  <2>13. CASE n > 384 /\ n <= 512
    BY <1>2, <2>13
  <2>14. CASE n > 512
    BY <1>1, <1>2, <2>14
  <2> QED
    BY <1>1, <2>2, <2>3, <2>4, <2>5, <2>6, <2>7, <2>8, <2>9, <2>10, <2>11,
       <2>12, <2>13, <2>14
<1>4. Row(n) \in 1 .. 13 /\ R(Row(n))
  BY <1>2, <1>3 DEF Row
<1>5. Slot(n) \in SlotSizes /\ n <= Slot(n)
  BY <1>2, <1>4 DEF Slot, SlotSizes
<1>6. Bin(n) \in Bins
  BY <1>4 DEF Bin, BinIndex, Bins
<1> QED  BY <1>1, <1>5, <1>6

LEMMA SlotSizesNat == \A s \in SlotSizes : s \in Nat
BY DEF SlotSizes

(* The slots of a size tile a buffer.                                      *)
LEMMA Multiples ==
  ASSUME NEW s \in SlotSizes
  PROVE  /\ s \in 8 .. 768
         /\ \A p, r \in Nat : Multiple(p, s) /\ Multiple(r, s) /\ p < r => p + s <= r
         /\ \A p \in Nat : Multiple(p, s) =>
              /\ Multiple(p + s, s) /\ Multiple(p % BUFFER_SIZE, s)
              /\ (p % BUFFER_SIZE) + s <= BUFFER_SIZE
              /\ \E j \in Nat : p = s * j
         /\ \A q, d \in Nat : Multiple(d, s) => Multiple(BUFFER_SIZE * q + d, s)
<1> USE DEF BUFFER_SIZE, Multiple
<1>1. CASE s = 8
  BY <1>1
<1>2. CASE s = 16
  BY <1>2
<1>3. CASE s = 24
  BY <1>3
<1>4. CASE s = 32
  BY <1>4
<1>5. CASE s = 48
  BY <1>5
<1>6. CASE s = 64
  BY <1>6
<1>7. CASE s = 96
  BY <1>7
<1>8. CASE s = 128
  BY <1>8
<1>9. CASE s = 192
  BY <1>9
<1>10. CASE s = 256
  BY <1>10
<1>11. CASE s = 384
  BY <1>11
<1>12. CASE s = 512
  BY <1>12
<1>13. CASE s = 768
  BY <1>13
<1> QED
  BY <1>1, <1>2, <1>3, <1>4, <1>5, <1>6, <1>7, <1>8, <1>9,
     <1>10, <1>11, <1>12, <1>13 DEF SlotSizes

------------------------------------------------------------------------------
(* Addresses and positions                                                 *)

LEMMA StartOf == \A b \in Nat : Start(b) = 3072 * b
BY DEF Start, BUFFER_SIZE

LEMMA StartNat == \A b \in Nat : Start(b) \in Nat
<1> TAKE b \in Nat
<1>1. Start(b) = 3072 * b
  BY StartOf
<1> QED  BY <1>1

LEMMA AddressNat == \A a \in Address : a \in Nat
<1> TAKE a \in Address
<1>1. PICK b \in 1 .. MaxBuffers, k \in InBuffer : a = Start(b) + Granule * k
  BY DEF Address
<1>2. b \in Nat /\ k \in Nat /\ Granule \in Nat
  BY <1>1, ArenaAssumption DEF InBuffer, BUFFER_SIZE
<1>3. Start(b) \in Nat /\ Granule * k \in Nat
  BY <1>2, StartNat
<1> QED  BY <1>1, <1>3

(* A slot begins at a block.                                               *)
LEMMA SlotAddress ==
  ASSUME NEW n \in Small, NEW b \in 1 .. MaxBuffers, NEW d \in Nat,
         Multiple(d, Slot(n)), d < BUFFER_SIZE
  PROVE  Start(b) + d \in Address
<1> PICK s : s = Slot(n)
  OBVIOUS
<1>1. /\ s \in SlotSizes /\ n \in Sizes /\ ~OnHeap(n)
      /\ s \in Nat /\ Multiple(d, s)
  BY SlotFits DEF Small, SlotSizes
<1> PICK g \in Nat \ {0} : s = Granule * g
  <2>1. \E k \in 1 .. Slot(n) : Slot(n) = Granule * k
    BY <1>1, ArenaAssumption
  <2> QED  BY <1>1, <2>1
<1> PICK j \in Nat : d = s * j
  <2>1. \A p \in Nat : Multiple(p, s) => \E j \in Nat : p = s * j
    BY <1>1, Multiples
  <2> QED  BY <1>1, <2>1
<1> DEFINE k == g * j
<1>2. k \in Nat /\ Granule \in Nat \ {0}
  BY ArenaAssumption
<1>3. d = Granule * k
  BY <1>2
<1> HIDE DEF k
<1>4. k <= Granule * k
  <2> PICK m \in Nat : Granule = m + 1
    <3>1. Granule - 1 \in Nat /\ Granule = (Granule - 1) + 1
      BY <1>2
    <3> QED  BY <3>1
  <2>1. Granule * k = m * k + k /\ m * k \in Nat
    BY <1>2
  <2> QED  BY <1>2, <2>1
<1>5. k \in InBuffer
  BY <1>2, <1>3, <1>4 DEF InBuffer, BUFFER_SIZE
<1> QED  BY <1>3, <1>5 DEF Address

Apart(g, s, h, z) == g + s <= h \/ h + z <= g

LEMMA InBuffers ==
  ASSUME NEW b \in Nat, NEW u \in Nat, 1 <= b, b <= u, NEW d \in Nat,
         NEW s \in Nat, d + s <= 1536
  PROVE  /\ Start(b) + d \in Nat /\ Start(b) + d > 0
         /\ Start(b) + d + s <= Start(u + 1)
<1>1. Start(b) = 3072 * b /\ Start(u + 1) = 3072 * (u + 1)
  BY StartOf
<1> QED  BY <1>1

LEMMA BuffersApart ==
  ASSUME NEW b \in Nat, NEW c \in Nat, b # c, NEW d \in Nat, NEW e \in Nat,
         NEW s \in Nat, NEW z \in Nat, d + s <= 1536, e + z <= 1536
  PROVE  Apart(Start(b) + d, s, Start(c) + e, z)
<1>1. Start(b) = 3072 * b /\ Start(c) = 3072 * c
  BY StartOf
<1> QED  BY <1>1 DEF Apart

LEMMA OffsetsApart ==
  ASSUME NEW b \in Nat, NEW d \in Nat, NEW e \in Nat, NEW s \in SlotSizes,
         d # e, Multiple(d, s), Multiple(e, s)
  PROVE  Apart(Start(b) + d, s, Start(b) + e, s)
<1>1. s \in Nat /\ Start(b) \in Nat
  BY StartOf DEF SlotSizes
<1>2. \A p, r \in Nat : Multiple(p, s) /\ Multiple(r, s) /\ p < r => p + s <= r
  BY Multiples
<1>3. d < e \/ e < d
  OBVIOUS
<1>4. d + s <= e \/ e + s <= d
  BY <1>2, <1>3
<1> DEFINE x == d + s
           y == e + s
           a == Start(b)
<1>5. x \in Nat /\ y \in Nat /\ a \in Nat
  BY <1>1
<1>6. Start(b) + d + s = a + x /\ Start(b) + e + s = a + y
  BY <1>1
<1> HIDE DEF x, y
<1>7. a + x <= a + e \/ a + y <= a + d
  BY <1>4, <1>5 DEF x, y
<1> QED  BY <1>6, <1>7 DEF Apart

LEMMA BuffersOf ==
  ASSUME NEW u \in Nat, NEW c \in Buffers(u)
  PROVE  /\ Len(c) \in Nat
         /\ \A q \in 1 .. Len(c) : c[q] \in 1 .. u /\ c[q] \in Nat
BY DEF Buffers

(* Position p is offset d in the buffer c[q].                              *)
Spot(c, s, p, q, d) ==
  /\ p = 1536 * q + d /\ d + s <= 1536 /\ d < BUFFER_SIZE
  /\ Multiple(d, s) /\ AddressIn(c, p) = Start(c[q]) + d

(* The slot at position p of a bin with the buffers c.                     *)
LEMMA SlotAt ==
  ASSUME NEW s \in SlotSizes, NEW u \in Nat, NEW c \in Buffers(u),
         NEW p \in PositionsIn(c, s)
  PROVE  /\ p \in Nat /\ Multiple(p, s)
         /\ s \in Nat /\ EndIn(c) \in Nat /\ p + s <= EndIn(c)
         /\ p + s < EndIn(c) => p + s \in PositionsIn(c, s)
         /\ \E q \in 1 .. Len(c), d \in Nat : Spot(c, s, p, q, d)
<1> DEFINE q == p \div BUFFER_SIZE
           d == p % BUFFER_SIZE
<1> PICK l \in Nat : l = Len(c)
  BY BuffersOf
<1>1. /\ p \in BUFFER_SIZE .. BUFFER_SIZE * (l + 1) - 1 /\ Multiple(p, s)
      /\ EndIn(c) = 1536 * (l + 1)
  BY DEF PositionsIn, EndIn, BUFFER_SIZE
<1>2. /\ p \in Nat /\ q \in 1 .. l /\ d \in 0 .. BUFFER_SIZE - 1
      /\ p = 1536 * q + d
  BY <1>1 DEF BUFFER_SIZE
<1>3. /\ s \in 8 .. 768 /\ Multiple(p + s, s) /\ Multiple(d, s)
      /\ d + s <= BUFFER_SIZE
  BY <1>1, <1>2, Multiples
<1>4. AddressIn(c, p) = Start(c[q]) + d
  BY DEF AddressIn
<1> HIDE DEF d
<1>5. /\ q \in 1 .. Len(c) /\ d \in Nat /\ s \in Nat /\ d + s <= 1536
      /\ d < BUFFER_SIZE
  BY <1>2, <1>3 DEF BUFFER_SIZE
<1> HIDE DEF q
<1>6. p + s <= EndIn(c) /\ EndIn(c) \in Nat
  BY <1>1, <1>2, <1>5
<1>7. p + s < EndIn(c) => p + s \in PositionsIn(c, s)
  <2> PICK x \in Nat : x = p + s
    BY <1>2, <1>3
  <2>1. BUFFER_SIZE <= x
    BY <1>1, <1>2, <1>3 DEF BUFFER_SIZE
  <2>2. ASSUME x < EndIn(c)  PROVE x \in BUFFER_SIZE .. EndIn(c) - 1
    BY <1>6, <2>1, <2>2 DEF BUFFER_SIZE
  <2>3. Multiple(x, s)
    BY <1>3
  <2> QED  BY <2>2, <2>3 DEF PositionsIn
<1>8. Spot(c, s, p, q, d)
  BY <1>2, <1>3, <1>4, <1>5 DEF Spot
<1>9. Multiple(p, s)
  BY <1>1
<1> QED  BY <1>2, <1>5, <1>6, <1>7, <1>8, <1>9

(* A position is the other way round the slot of a buffer.                 *)
LEMMA PositionOf ==
  ASSUME NEW s \in SlotSizes, NEW u \in Nat, NEW c \in Buffers(u),
         NEW q \in 1 .. Len(c), NEW d \in Nat, d < 1536, Multiple(d, s),
         NEW p, p = 1536 * q + d
  PROVE  p \in PositionsIn(c, s) /\ AddressIn(c, p) = Start(c[q]) + d
<1> PICK l \in Nat : l = Len(c)
  BY BuffersOf
<1>1. q \in Nat /\ EndIn(c) = 1536 * (l + 1) /\ 1 <= q /\ q <= l
  BY DEF EndIn, BUFFER_SIZE
<1>2. p \in BUFFER_SIZE .. EndIn(c) - 1
  BY <1>1 DEF BUFFER_SIZE
<1>3. Multiple(p, s)
  <2>1. \A x, y \in Nat : Multiple(y, s) => Multiple(BUFFER_SIZE * x + y, s)
    BY Multiples
  <2> QED  BY <1>1, <2>1 DEF BUFFER_SIZE
<1>4. p \div BUFFER_SIZE = q /\ p % BUFFER_SIZE = d
  BY <1>1 DEF BUFFER_SIZE
<1> QED  BY <1>2, <1>3, <1>4 DEF PositionsIn, AddressIn

(* What holds of a position.                                               *)
LEMMA PositionAt ==
  ASSUME NEW u, NEW ls, Layout(ls, u), NEW n \in Small,
         NEW p \in Positions(ls, n)
  PROVE  /\ p \in Nat /\ Slot(n) \in Nat \ {0} /\ EndOf(ls, n) \in Nat
         /\ p + Slot(n) <= EndOf(ls, n) /\ p < EndOf(ls, n)
         /\ p + Slot(n) \in Ends(ls, n)
         /\ p + Slot(n) # EndOf(ls, n) => p + Slot(n) \in Positions(ls, n)
         /\ At(ls, n, p) \in Address /\ At(ls, n, p) \in Nat
         /\ At(ls, n, p) > 0 /\ At(ls, n, p) + Slot(n) <= Start(u + 1)
         /\ Start(u + 1) \in Nat
<1> PICK c : c = ls[Bin(n)]
  OBVIOUS
<1> PICK s : s = Slot(n)
  OBVIOUS
<1>1. /\ c \in Buffers(u) /\ u \in Nat /\ u <= MaxBuffers
      /\ p \in PositionsIn(c, s) /\ s \in SlotSizes
  BY SlotFits, ArenaAssumption DEF Layout, Positions
<1>2. /\ p \in Nat /\ s \in Nat /\ EndIn(c) \in Nat /\ p + s <= EndIn(c)
      /\ p + s < EndIn(c) => p + s \in PositionsIn(c, s)
  BY <1>1, SlotAt
<1>3. s \in Nat \ {0}
  BY <1>1 DEF SlotSizes
<1>4. Start(u + 1) \in Nat
  <2>1. u + 1 \in Nat
    BY <1>1
  <2>2. Start(u + 1) = 3072 * (u + 1)
    BY <2>1, StartOf
  <2> QED  BY <1>1, <2>2
<1>5. PICK q \in 1 .. Len(c), d \in Nat : Spot(c, s, p, q, d)
  BY <1>1, SlotAt
<1>6. /\ d + s <= 1536 /\ d < BUFFER_SIZE
       /\ Multiple(d, s) /\ AddressIn(c, p) = Start(c[q]) + d
  BY <1>5 DEF Spot
<1> PICK b \in 1 .. u : b = c[q]
  BY <1>1, BuffersOf
<1>7. /\ b \in 1 .. MaxBuffers /\ b \in Nat /\ 1 <= b /\ b <= u
  BY <1>1, ArenaAssumption
<1>8. Start(b) + d \in Address
  BY <1>7, <1>6, SlotAddress
<1>9. /\ Start(b) + d \in Nat /\ Start(b) + d > 0
      /\ Start(b) + d + s <= Start(u + 1)
  <2>1. u \in Nat /\ s \in Nat /\ d + s <= 1536
    BY <1>1, <1>2, <1>6
  <2> QED  BY <1>7, <2>1, InBuffers
<1>10. /\ AddressIn(c, p) \in Address /\ AddressIn(c, p) \in Nat
      /\ AddressIn(c, p) > 0 /\ AddressIn(c, p) + s <= Start(u + 1)
  BY <1>8, <1>9, <1>6
<1>11. /\ p < EndIn(c)
      /\ p + s # EndIn(c) => p + s \in PositionsIn(c, s)
  BY <1>2, <1>3
<1> QED  BY <1>2, <1>3, <1>4, <1>10, <1>11 DEF EndOf, At, Positions, Ends

(* A slot ends before the next one.                                        *)
LEMMA NextPosition ==
  ASSUME NEW u, NEW ls, Layout(ls, u), NEW n \in Small,
         NEW p \in Positions(ls, n), NEW t \in Ends(ls, n), p < t
  PROVE  p + Slot(n) <= t
<1>1. /\ Slot(n) \in SlotSizes /\ u \in Nat /\ ls[Bin(n)] \in Buffers(u)
  BY SlotFits, ArenaAssumption DEF Layout
<1>2. CASE t = EndOf(ls, n)
  BY <1>2, PositionAt
<1>3. CASE t \in Positions(ls, n)
  <2>1. p \in Nat /\ t \in Nat /\ Multiple(p, Slot(n)) /\ Multiple(t, Slot(n))
    BY <1>1, <1>3, SlotAt DEF Positions
  <2> QED  BY <1>1, <2>1, Multiples
<1> QED  BY <1>2, <1>3 DEF Ends

(* Two slots at different positions, or of different bins.                 *)
LEMMA SlotsApart ==
  ASSUME OneSize, NEW u, NEW ls, Layout(ls, u),
         NEW n \in Small, NEW m \in Small,
         NEW p \in Positions(ls, n), NEW r \in Positions(ls, m),
         Bin(n) # Bin(m) \/ p # r
  PROVE  /\ Apart(At(ls, n, p), Slot(n), At(ls, m, r), Slot(m))
         /\ At(ls, n, p) # At(ls, m, r)
<1>1. /\ Bin(n) \in Bins /\ Bin(m) \in Bins
      /\ Slot(n) \in SlotSizes /\ Slot(m) \in SlotSizes
      /\ u \in Nat
  BY SlotFits, ArenaAssumption DEF Layout
<1> PICK v : v = ls[Bin(n)]
  OBVIOUS
<1> PICK w : w = ls[Bin(m)]
  OBVIOUS
<1>2. /\ v \in Buffers(u) /\ p \in PositionsIn(v, Slot(n))
      /\ w \in Buffers(u) /\ r \in PositionsIn(w, Slot(m))
  BY <1>1 DEF Layout, Positions
<1>3. PICK q \in 1 .. Len(v), d \in Nat : Spot(v, Slot(n), p, q, d)
  BY <1>1, <1>2, SlotAt
<1>4. PICK x \in 1 .. Len(w), e \in Nat : Spot(w, Slot(m), r, x, e)
  BY <1>1, <1>2, SlotAt
<1>5. /\ Slot(n) \in Nat /\ d + Slot(n) <= 1536 /\ Multiple(d, Slot(n))
      /\ AddressIn(v, p) = Start(v[q]) + d
  BY <1>3, SlotSizesNat, <1>1 DEF Spot
<1>6. /\ Slot(m) \in Nat /\ e + Slot(m) <= 1536 /\ Multiple(e, Slot(m))
      /\ AddressIn(w, r) = Start(w[x]) + e
  BY <1>4, SlotSizesNat, <1>1 DEF Spot
<1>7. v[q] \in Nat /\ w[x] \in Nat
  BY <1>1, <1>2, BuffersOf
<1>8. v[q] = w[x] => Bin(n) = Bin(m) /\ q = x
  BY <1>1 DEF Layout
<1>9. Apart(AddressIn(v, p), Slot(n), AddressIn(w, r), Slot(m))
  <2>1. PICK b \in Nat : b = v[q]
    BY <1>7
  <2>2. PICK c \in Nat : c = w[x]
    BY <1>7
  <2>3. CASE b # c
    <3>1. /\ Slot(n) \in Nat /\ d + Slot(n) <= 1536
          /\ Slot(m) \in Nat /\ e + Slot(m) <= 1536 /\ d \in Nat /\ e \in Nat
      BY <1>5, <1>6
    <3>2. Apart(Start(b) + d, Slot(n), Start(c) + e, Slot(m))
      BY <3>1, <2>3, BuffersApart
    <3> QED  BY <1>5, <1>6, <2>1, <2>2, <3>2
  <2>4. CASE b = c
    <3>1. Bin(n) = Bin(m) /\ Slot(n) = Slot(m) /\ q = x
      BY <1>8, <2>1, <2>2, <2>4 DEF OneSize
    <3>2. d # e
      BY <1>3, <1>4, <3>1 DEF Spot
    <3>3. Apart(Start(b) + d, Slot(n), Start(b) + e, Slot(n))
      BY <1>1, <1>5, <1>6, <3>1, <3>2, OffsetsApart
    <3> QED  BY <1>5, <1>6, <2>1, <2>2, <2>4, <3>1, <3>3
  <2> QED  BY <2>3, <2>4
<1>10. Apart(At(ls, n, p), Slot(n), At(ls, m, r), Slot(m))
  BY <1>9 DEF At
<1>11. /\ Slot(n) \in Nat \ {0} /\ Slot(m) \in Nat \ {0}
      /\ At(ls, n, p) \in Nat /\ At(ls, m, r) \in Nat
  BY PositionAt
<1> QED  BY <1>10, <1>11 DEF Apart

LEMMA SameBin ==
  ASSUME OneSize, NEW ls, NEW n \in Small, NEW m \in Small, Bin(n) = Bin(m)
  PROVE  /\ Slot(n) = Slot(m) /\ Positions(ls, n) = Positions(ls, m)
         /\ EndOf(ls, n) = EndOf(ls, m) /\ Ends(ls, n) = Ends(ls, m)
         /\ \A p : At(ls, n, p) = At(ls, m, p)
BY DEF OneSize, Positions, EndOf, At, Ends

------------------------------------------------------------------------------
(* Boxes                                                                   *)

LEMMA BoxPlace ==
  ASSUME NEW u, NEW ls, Layout(ls, u), NEW e \in Box, Placed(e, ls)
  PROVE  /\ e.ptr # 0 => /\ e.size \in Small
                         /\ \E p \in Positions(ls, e.size) :
                              Holds(e, ls, e.size, p)
         /\ e.ptr = 0 => /\ OnHeap(e.size)
                         /\ \A n \in Small : \A p \in Positions(ls, n) :
                              ~Holds(e, ls, n, p)
<1>1. e.size \in Sizes
  BY DEF Box
<1>2. ASSUME e.ptr # 0
      PROVE  /\ e.size \in Small
             /\ \E p \in Positions(ls, e.size) : Holds(e, ls, e.size, p)
  <2>1. e.size \in Small
    BY <1>1, <1>2 DEF Placed, Small
  <2> PICK p \in Positions(ls, e.size) : e.ptr = At(ls, e.size, p)
    BY <1>2 DEF Placed
  <2> QED  BY <2>1 DEF Holds
<1>3. ASSUME NEW n \in Small, NEW p \in Positions(ls, n)
      PROVE  At(ls, n, p) \in Nat /\ At(ls, n, p) > 0
  BY PositionAt
<1>4. ASSUME e.ptr = 0, ~OnHeap(e.size)  PROVE FALSE
  <2>1. e.size \in Small
    BY <1>1, <1>4 DEF Small
  <2>2. PICK p \in Positions(ls, e.size) : e.ptr = At(ls, e.size, p)
    BY <1>4 DEF Placed
  <2>3. At(ls, e.size, p) > 0
    BY <1>3, <2>1
  <2>4. At(ls, e.size, p) = 0
    BY <1>4, <2>2
  <2> QED  BY <2>3, <2>4
<1>5. ASSUME e.ptr = 0, NEW n \in Small, NEW p \in Positions(ls, n)
      PROVE  ~Holds(e, ls, n, p)
  BY <1>3, <1>5 DEF Holds
<1> QED  BY <1>2, <1>4, <1>5

(* A box is in one slot.                                                   *)
LEMMA HoldsOnce ==
  ASSUME OneSize, NEW u, NEW ls, Layout(ls, u), NEW e,
         NEW n \in Small, NEW m \in Small,
         NEW p \in Positions(ls, n), NEW r \in Positions(ls, m),
         Holds(e, ls, n, p), Holds(e, ls, m, r)
  PROVE  Bin(n) = Bin(m) /\ p = r
<1>1. At(ls, n, p) = At(ls, m, r)
  BY DEF Holds
<1> QED  BY <1>1, SlotsApart

LEMMA TakenAppend ==
  ASSUME NEW bx \in Seq(Box), NEW e \in Box, NEW ls, NEW n, NEW p
  PROVE  Taken(Append(bx, e), ls, n, p)
           <=> Taken(bx, ls, n, p) \/ Holds(e, ls, n, p)
<1> DEFINE b == Append(bx, e)
           l == Len(bx)
<1>1. /\ l \in Nat /\ Len(b) = l + 1 /\ b[l + 1] = e
      /\ \A k \in 1 .. l : b[k] = bx[k]
  BY AppendOnTop
<1> HIDE DEF b, l
<1>2. \A k \in 1 .. l + 1 : k \in 1 .. l \/ k = l + 1
  BY <1>1
<1>3. (\A k \in 1 .. l : k \in 1 .. l + 1) /\ l + 1 \in 1 .. l + 1
  BY <1>1
<1>4. (\E k \in 1 .. Len(b) : Holds(b[k], ls, n, p))
        <=> (\E k \in 1 .. l : Holds(bx[k], ls, n, p)) \/ Holds(e, ls, n, p)
  BY <1>1, <1>2, <1>3
<1> QED  BY <1>4 DEF Taken, b, l

LEMMA BoxesAppend ==
  ASSUME NEW bx \in Seq(Box), NEW e \in Box, NEW ls, NEW mem
  PROVE  BoxesOK(Append(bx, e), ls, mem)
           <=> /\ BoxesOK(bx, ls, mem) /\ Placed(e, ls) /\ Kept(e, mem)
               /\ \A k \in 1 .. Len(bx) : Before(bx[k], e, ls)
<1> DEFINE b == Append(bx, e)
           l == Len(bx)
<1>1. /\ l \in Nat /\ Len(b) = l + 1 /\ b[l + 1] = e /\ b \in Seq(Box)
      /\ \A k \in 1 .. l : b[k] = bx[k]
  BY AppendOnTop
<1>2. bx \in Seq(Box) /\ l = Len(bx)
  OBVIOUS
<1> HIDE DEF b, l
<1>3. \A k \in 1 .. l + 1 : k \in 1 .. l \/ k = l + 1
  BY <1>1
<1>4. (\A k \in 1 .. l : k \in 1 .. l + 1 /\ k < l + 1) /\ l + 1 \in 1 .. l + 1
  BY <1>1
<1>5. ASSUME BoxesOK(b, ls, mem)
      PROVE  /\ BoxesOK(bx, ls, mem) /\ Placed(e, ls) /\ Kept(e, mem)
             /\ \A k \in 1 .. l : Before(bx[k], e, ls)
  <2>1. /\ \A k \in 1 .. l + 1 : Placed(b[k], ls) /\ Kept(b[k], mem)
        /\ \A k, x \in 1 .. l + 1 : k < x => Before(b[k], b[x], ls)
    BY <1>1, <1>5 DEF BoxesOK
  <2>2. Placed(e, ls) /\ Kept(e, mem)
    BY <1>1, <1>4, <2>1
  <2>3. \A k \in 1 .. l : Before(bx[k], e, ls)
    BY <1>1, <1>4, <2>1
  <2>4. \A k \in 1 .. l : Placed(bx[k], ls) /\ Kept(bx[k], mem)
    BY <1>1, <1>4, <2>1
  <2>5. \A k, x \in 1 .. l : k < x => Before(bx[k], bx[x], ls)
    BY <1>1, <1>4, <2>1
  <2> QED  BY <1>2, <2>2, <2>3, <2>4, <2>5 DEF BoxesOK
<1>6. ASSUME BoxesOK(bx, ls, mem), Placed(e, ls), Kept(e, mem),
             \A k \in 1 .. l : Before(bx[k], e, ls)
      PROVE  BoxesOK(b, ls, mem)
  <2>1. /\ \A k \in 1 .. l : Placed(bx[k], ls) /\ Kept(bx[k], mem)
        /\ \A k, x \in 1 .. l : k < x => Before(bx[k], bx[x], ls)
    BY <1>2, <1>6 DEF BoxesOK
  <2>2. \A k \in 1 .. l + 1 : Placed(b[k], ls) /\ Kept(b[k], mem)
    BY <1>1, <1>3, <1>6, <2>1
  <2>3. ASSUME NEW k \in 1 .. l + 1, NEW x \in 1 .. l + 1, k < x
        PROVE  Before(b[k], b[x], ls)
    <3>1. k \in 1 .. l
      BY <1>1, <2>3
    <3> QED  BY <1>1, <1>3, <1>6, <2>1, <2>3, <3>1
  <2> QED  BY <1>1, <2>2, <2>3 DEF BoxesOK
<1> QED  BY <1>5, <1>6 DEF b, l

(* Taken and free slots depend on the bin alone.                           *)
LEMMA FreeSame ==
  ASSUME OneSize, NEW ls, NEW mem, NEW bx, NEW h, NEW t,
         NEW n \in Small, NEW m \in Small, Bin(n) = Bin(m),
         FreeFrom(h, ls, mem, bx, n, t)
  PROVE  FreeFrom(h, ls, mem, bx, m, t)
<1>1. /\ Slot(n) = Slot(m) /\ Positions(ls, n) = Positions(ls, m)
      /\ EndOf(ls, n) = EndOf(ls, m) /\ \A p : At(ls, n, p) = At(ls, m, p)
  BY SameBin
<1>2. \A p : Taken(bx, ls, n, p) <=> Taken(bx, ls, m, p)
  BY <1>1 DEF Taken, Holds
<1>3. \A p : Link(ls, mem, n, p) <=> Link(ls, mem, m, p)
  BY <1>1 DEF Link
<1> QED  BY <1>1, <1>2, <1>3 DEF FreeFrom

(* A step that moves the head of one bin and leaves the others alone.      *)
LEMMA FreeStep ==
  ASSUME OneSize, NEW ls, NEW hd, NEW mem, NEW bx, FreeOK(hd, ls, mem, bx),
         NEW n \in Small, NEW h \in Nat, NEW t \in Ends(ls, n),
         NEW mem2, NEW bx2, FreeFrom(h, ls, mem2, bx2, n, t),
         \A m \in Small : Bin(m) # Bin(n) =>
           \A p \in Positions(ls, m) :
             /\ mem2[At(ls, m, p)] = mem[At(ls, m, p)]
             /\ Taken(bx2, ls, m, p) <=> Taken(bx, ls, m, p)
  PROVE  FreeOK([hd EXCEPT ![Bin(n)] = h], ls, mem2, bx2)
<1> DEFINE g == [hd EXCEPT ![Bin(n)] = h]
<1>1. /\ hd \in [Bins -> Nat] /\ Bin(n) \in Bins
      /\ \A i \in Bins : (\A m \in Small : Bin(m) # i) => hd[i] = 0
  BY SlotFits DEF FreeOK
<1>2. /\ g \in [Bins -> Nat] /\ g[Bin(n)] = h
      /\ \A i \in Bins : i # Bin(n) => g[i] = hd[i]
  BY <1>1
<1> HIDE DEF g
<1>3. \A i \in Bins : (\A m \in Small : Bin(m) # i) => g[i] = 0
  BY <1>1, <1>2
<1>4. ASSUME NEW m \in Small
      PROVE  \E x \in Ends(ls, m) : FreeFrom(g[Bin(m)], ls, mem2, bx2, m, x)
  <2>1. CASE Bin(m) = Bin(n)
    <3>1. FreeFrom(h, ls, mem2, bx2, m, t) /\ Ends(ls, m) = Ends(ls, n)
      BY <2>1, FreeSame, SameBin
    <3> QED  BY <1>2, <2>1, <3>1
  <2>2. CASE Bin(m) # Bin(n)
    <3>1. PICK x \in Ends(ls, m) : FreeFrom(hd[Bin(m)], ls, mem, bx, m, x)
      BY DEF FreeOK
    <3>2. Bin(m) \in Bins /\ g[Bin(m)] = hd[Bin(m)]
      BY <1>2, <2>2, SlotFits
    <3>3. \A p \in Positions(ls, m) :
            /\ Link(ls, mem2, m, p) <=> Link(ls, mem, m, p)
            /\ Taken(bx2, ls, m, p) <=> Taken(bx, ls, m, p)
      BY <2>2 DEF Link
    <3>4. FreeFrom(g[Bin(m)], ls, mem2, bx2, m, x)
      BY <3>1, <3>2, <3>3 DEF FreeFrom
    <3> QED  BY <3>4
  <2> QED  BY <2>1, <2>2
<1>5. FreeOK(g, ls, mem2, bx2)
  BY <1>2, <1>3, <1>4 DEF FreeOK
<1> QED  BY <1>5 DEF g

------------------------------------------------------------------------------
(* Steps                                                                   *)

(* A box of the heap concerns no slot.                                     *)
LEMMA HeapStep ==
  ASSUME NEW hd, NEW ls, NEW mem, NEW u, NEW bx \in Seq(Box), NEW e \in Box,
         e.ptr = 0, OnHeap(e.size)
  PROVE  Inv(hd, ls, mem, bx, u) <=> Inv(hd, ls, mem, Append(bx, e), u)
<1> DEFINE b == Append(bx, e)
<1> SUFFICES ASSUME Layout(ls, u)
             PROVE  /\ BoxesOK(bx, ls, mem) <=> BoxesOK(b, ls, mem)
                    /\ FreeOK(hd, ls, mem, bx) <=> FreeOK(hd, ls, mem, b)
  BY DEF Inv
<1>1. Placed(e, ls) /\ Kept(e, mem)
  BY DEF Placed, Kept
<1>2. \A n \in Small : \A p \in Positions(ls, n) : ~Holds(e, ls, n, p)
  BY <1>1, BoxPlace
<1>3. \A d : Before(d, e, ls)
  BY <1>2 DEF Before
<1>4. BoxesOK(bx, ls, mem) <=> BoxesOK(b, ls, mem)
  BY <1>1, <1>3, BoxesAppend
<1>5. \A n \in Small : \A p \in Positions(ls, n) :
        Taken(b, ls, n, p) <=> Taken(bx, ls, n, p)
  BY <1>2, TakenAppend
<1> HIDE DEF b
<1>6. ASSUME NEW n \in Small, NEW t, NEW h
      PROVE  FreeFrom(h, ls, mem, bx, n, t) <=> FreeFrom(h, ls, mem, b, n, t)
  BY <1>5 DEF FreeFrom
<1>7. FreeOK(hd, ls, mem, bx) <=> FreeOK(hd, ls, mem, b)
  BY <1>6 DEF FreeOK
<1> QED  BY <1>4, <1>7

(* The free slot at the head is no value, and links to the next free one.  *)
LEMMA HeadOf ==
  ASSUME NEW ls, NEW mem, NEW u, NEW bx, NEW h, Layout(ls, u),
         MemoryOK(mem, u), NEW n \in Small, NEW t \in Ends(ls, n),
         FreeFrom(h, ls, mem, bx, n, t)
  PROVE  /\ h = 0 => t = EndOf(ls, n)
         /\ h # 0 => /\ t \in Positions(ls, n) /\ h = At(ls, n, t)
                     /\ Link(ls, mem, n, t)
                     /\ mem[h] \in Address \cup {0} /\ mem[h] # Data
         /\ h \in Address \cup {0} /\ h \in Nat
<1>1. CASE t = EndOf(ls, n)
  BY <1>1 DEF FreeFrom
<1>2. CASE t # EndOf(ls, n)
  <2>1. t \in Positions(ls, n) /\ h = At(ls, n, t)
    BY <1>2 DEF Ends, FreeFrom
  <2>2. h \in Address /\ h \in Nat /\ h # 0
    BY <2>1, PositionAt
  <2>3. t \in Nat
    BY <2>1, PositionAt
  <2>4. Link(ls, mem, n, t)
    BY <2>1, <2>3 DEF FreeFrom
  <2>5. mem[h] \in Nat /\ mem[h] \in Address \cup {0}
    <3>1. CASE mem[h] = 0
      BY <3>1
    <3>2. CASE mem[h] # 0
      <4>1. /\ t + Slot(n) # EndOf(ls, n)
            /\ mem[h] = At(ls, n, t + Slot(n))
        <5>1. /\ t + Slot(n) < EndOf(ls, n)
              /\ mem[h] = At(ls, n, t + Slot(n))
          BY <2>1, <2>4, <3>2 DEF Link
        <5>2. t + Slot(n) \in Nat /\ EndOf(ls, n) \in Nat
          BY <2>1, PositionAt
        <5> QED  BY <5>1, <5>2
      <4>2. t + Slot(n) \in Positions(ls, n)
        BY <2>1, <4>1, PositionAt
      <4> QED  BY <4>1, <4>2, PositionAt
    <3> QED  BY <3>1, <3>2
  <2>6. mem[h] # Data
    BY <2>5 DEF Data
  <2> QED  BY <2>1, <2>2, <2>4, <2>5, <2>6
<1> QED  BY <1>1, <1>2

(* The newest box of a bin is in the slot in front of the first free one.  *)
LEMMA NewestSlot ==
  ASSUME OneSize, NEW ls, NEW mem, NEW u, NEW h, Layout(ls, u),
         NEW bx \in Seq(Box), NEW e \in Box,
         \A k \in 1 .. Len(bx) : Before(bx[k], e, ls),
         NEW n \in Small, NEW t \in Ends(ls, n),
         FreeFrom(h, ls, mem, Append(bx, e), n, t),
         NEW p \in Positions(ls, n), Holds(e, ls, n, p)
  PROVE  t = p + Slot(n) /\ ~Taken(bx, ls, n, p)
<1> DEFINE b == Append(bx, e)
<1>1. /\ p \in Nat /\ Slot(n) \in Nat \ {0} /\ t \in Nat
      /\ p + Slot(n) \in Ends(ls, n) /\ p < EndOf(ls, n)
      /\ p + Slot(n) # EndOf(ls, n) => p + Slot(n) \in Positions(ls, n)
  BY PositionAt DEF Ends
<1>2. \A r \in Positions(ls, n) : Taken(bx, ls, n, r) => r < p
  BY DEF Taken, Before
<1>3. ~Taken(bx, ls, n, p)
  BY <1>1, <1>2
<1>4. \A r \in Positions(ls, n) :
        Taken(b, ls, n, r) <=> Taken(bx, ls, n, r) \/ Holds(e, ls, n, r)
  BY TakenAppend
<1> HIDE DEF b
<1>5. p < t
  BY <1>1, <1>4 DEF FreeFrom, b
<1>6. p + Slot(n) <= t
  BY <1>5, NextPosition
<1>7. ASSUME p + Slot(n) < t  PROVE FALSE
  <2> PICK r \in Nat : r = p + Slot(n)
    BY <1>1
  <2>1. r # EndOf(ls, n)
    BY <1>1, <1>7, PositionAt DEF Ends
  <2>2. r \in Positions(ls, n)
    BY <1>1, <2>1
  <2>3. Taken(b, ls, n, r)
    BY <1>7, <2>2 DEF FreeFrom, b
  <2>4. Holds(e, ls, n, r)
    BY <1>1, <1>2, <1>4, <2>2, <2>3
  <2>5. r = p
    BY <2>2, <2>4, HoldsOnce
  <2> QED  BY <1>1, <2>5
<1> QED  BY <1>1, <1>3, <1>6, <1>7

(* A value reaches into no other slot.                                     *)
LEMMA BlocksApart ==
  ASSUME OneSize, NEW u, NEW ls, Layout(ls, u),
         NEW n \in Small, NEW m \in Small,
         NEW p \in Positions(ls, n), NEW r \in Positions(ls, m),
         Bin(n) # Bin(m) \/ p # r
  PROVE  At(ls, m, r) \notin Blocks(At(ls, n, p), n)
<1>1. /\ n \in Nat /\ n <= Slot(n) /\ Slot(n) \in Nat
      /\ Slot(m) \in Nat \ {0}
      /\ At(ls, n, p) \in Nat /\ At(ls, m, r) \in Nat
  BY SlotFits, PositionAt
<1>2. Apart(At(ls, n, p), Slot(n), At(ls, m, r), Slot(m))
  BY SlotsApart
<1> QED  BY <1>1, <1>2 DEF Apart, Blocks

LEMMA ReleaseStep ==
  ASSUME OneSize, NEW hd, NEW ls, NEW mem, NEW u, NEW bx \in Seq(Box),
         NEW e \in Box, e.ptr # 0, Inv(hd, ls, mem, Append(bx, e), u)
  PROVE  Inv([hd EXCEPT ![Bin(e.size)] = e.ptr], ls,
             [mem EXCEPT ![e.ptr] = hd[Bin(e.size)]], bx, u)
<1> DEFINE n == e.size
           h == hd[Bin(n)]
           mem2 == [mem EXCEPT ![e.ptr] = h]
<1>1. /\ Layout(ls, u) /\ MemoryOK(mem, u)
      /\ FreeOK(hd, ls, mem, Append(bx, e))
      /\ BoxesOK(bx, ls, mem) /\ Placed(e, ls)
      /\ \A k \in 1 .. Len(bx) : Before(bx[k], e, ls)
  BY BoxesAppend DEF Inv
<1>2. n \in Small /\ \E p \in Positions(ls, n) : Holds(e, ls, n, p)
  BY <1>1, BoxPlace
<1>3. PICK p \in Positions(ls, n) : Holds(e, ls, n, p)
  BY <1>2
<1>4. PICK t \in Ends(ls, n) : FreeFrom(h, ls, mem, Append(bx, e), n, t)
  BY <1>1, <1>2 DEF FreeOK
<1>5. t = p + Slot(n) /\ ~Taken(bx, ls, n, p)
  BY <1>1, <1>2, <1>3, <1>4, NewestSlot
<1>6. /\ e.ptr = At(ls, n, p) /\ e.ptr \in Address /\ e.ptr \in Nat
      /\ Slot(n) \in Nat \ {0} /\ e.ptr + Slot(n) <= Start(u + 1)
      /\ Start(u + 1) \in Nat /\ p \in Nat /\ EndOf(ls, n) \in Nat
      /\ p + Slot(n) <= EndOf(ls, n) /\ p < EndOf(ls, n)
  BY <1>1, <1>2, <1>3, PositionAt DEF Holds
<1>7. /\ h \in Address \cup {0} /\ h \in Nat
      /\ h = IF t = EndOf(ls, n) THEN 0 ELSE At(ls, n, t)
  <2>1. h \in Address \cup {0} /\ h \in Nat
    BY <1>1, <1>2, <1>4, HeadOf
  <2>2. h = IF t = EndOf(ls, n) THEN 0 ELSE At(ls, n, t)
    BY <1>4 DEF FreeFrom
  <2> QED  BY <2>1, <2>2
<1>8. /\ mem2 \in [Address -> Address \cup {0, Data}] /\ mem2[e.ptr] = h
      /\ \A a \in Address : a # e.ptr => mem2[a] = mem[a]
  BY <1>1, <1>6, <1>7 DEF MemoryOK
<1> HIDE DEF mem2
<1>9. MemoryOK(mem2, u)
  BY <1>1, <1>6, <1>8 DEF MemoryOK
<1>10. ASSUME NEW m \in Small, NEW r \in Positions(ls, m),
              Bin(m) # Bin(n) \/ r # p
       PROVE  /\ mem2[At(ls, m, r)] = mem[At(ls, m, r)]
              /\ Taken(bx, ls, m, r) <=> Taken(Append(bx, e), ls, m, r)
              /\ e.ptr \notin Blocks(At(ls, m, r), m)
  <2>1. At(ls, m, r) \in Address
    BY <1>1, PositionAt
  <2>2. At(ls, m, r) # At(ls, n, p)
    BY <1>1, <1>2, <1>10, SlotsApart
  <2>3. ~Holds(e, ls, m, r)
    BY <1>6, <2>2 DEF Holds
  <2>4. Taken(Append(bx, e), ls, m, r) <=> Taken(bx, ls, m, r) \/ Holds(e, ls, m, r)
    BY TakenAppend
  <2>5. e.ptr \notin Blocks(At(ls, m, r), m)
    BY <1>1, <1>2, <1>6, <1>10, BlocksApart
  <2> QED  BY <1>6, <1>8, <2>1, <2>2, <2>3, <2>4, <2>5
<1>11. BoxesOK(bx, ls, mem2)
  <2>1. ASSUME NEW k \in 1 .. Len(bx)  PROVE Kept(bx[k], mem2)
    <3>1. SUFFICES ASSUME bx[k].ptr # 0,
                          NEW a \in Blocks(bx[k].ptr, bx[k].size)
                   PROVE  mem2[a] = Data
      BY DEF Kept
    <3>2. /\ bx[k] \in Box /\ Placed(bx[k], ls) /\ Kept(bx[k], mem)
      BY <1>1 DEF BoxesOK
    <3>3. /\ bx[k].size \in Small
          /\ \E r \in Positions(ls, bx[k].size) : Holds(bx[k], ls, bx[k].size, r)
      BY <1>1, <3>1, <3>2, BoxPlace
    <3>4. PICK r \in Positions(ls, bx[k].size) : Holds(bx[k], ls, bx[k].size, r)
      BY <3>3
    <3>5. Bin(bx[k].size) # Bin(n) \/ r # p
      <4>1. SUFFICES ASSUME Bin(bx[k].size) = Bin(n)  PROVE r # p
        OBVIOUS
      <4>2. Positions(ls, bx[k].size) = Positions(ls, n)
        BY <1>2, <3>3, <4>1, SameBin
      <4>3. Holds(bx[k], ls, n, r)
        BY <1>2, <3>3, <3>4, <4>1, SameBin DEF Holds
      <4>4. r # p
        BY <1>5, <4>3 DEF Taken
      <4> QED  BY <4>4
    <3>6. e.ptr \notin Blocks(bx[k].ptr, bx[k].size)
      BY <1>10, <3>3, <3>4, <3>5 DEF Holds
    <3>7. a \in Address /\ a # e.ptr /\ mem[a] = Data
      BY <3>1, <3>2, <3>6 DEF Blocks, Kept
    <3> QED  BY <1>8, <3>7
  <2> QED  BY <1>1, <2>1 DEF BoxesOK
<1>12. FreeFrom(e.ptr, ls, mem2, bx, n, p)
  <2>1. e.ptr = IF p = EndOf(ls, n) THEN 0 ELSE At(ls, n, p)
    BY <1>6
  <2>2. ASSUME NEW r \in Positions(ls, n), r < p
        PROVE  Taken(bx, ls, n, r)
    <3>1. r < t /\ r # p
      BY <1>1, <1>2, <1>5, <1>6, <2>2, PositionAt
    <3>2. Taken(Append(bx, e), ls, n, r)
      BY <1>4, <3>1 DEF FreeFrom
    <3> QED  BY <1>2, <1>10, <3>1, <3>2
  <2>3. ~Taken(bx, ls, n, p) /\ Link(ls, mem2, n, p)
    <3>1. CASE t = EndOf(ls, n)
      <4>1. Slot(n) <= BUFFER_SIZE
        BY <1>2, SlotFits DEF SlotSizes, BUFFER_SIZE
      <4>2. EndOf(ls, n) <= p + BUFFER_SIZE
        BY <1>5, <1>6, <3>1, <4>1 DEF BUFFER_SIZE
      <4> QED  BY <1>5, <1>6, <1>7, <1>8, <3>1, <4>2 DEF Link
    <3>2. CASE t # EndOf(ls, n)
      BY <1>5, <1>6, <1>7, <1>8, <3>2 DEF Link
    <3> QED  BY <3>1, <3>2
  <2>4. ASSUME NEW r \in Positions(ls, n), ~(r < p), r # p
        PROVE  ~Taken(bx, ls, n, r) /\ Link(ls, mem2, n, r)
    <3>1. r \in Nat /\ p < r /\ r \in Ends(ls, n)
      BY <1>1, <1>2, <1>6, <2>4, PositionAt DEF Ends
    <3>2. ~(r < t)
      BY <1>1, <1>2, <1>5, <1>6, <3>1, NextPosition
    <3>3. ~Taken(Append(bx, e), ls, n, r) /\ Link(ls, mem, n, r)
      BY <1>4, <3>2 DEF FreeFrom
    <3> QED  BY <1>2, <1>10, <2>4, <3>3 DEF Link
  <2> QED  BY <2>1, <2>2, <2>3, <2>4 DEF FreeFrom
<1>13. FreeOK([hd EXCEPT ![Bin(n)] = e.ptr], ls, mem2, bx)
  <2>1. p \in Ends(ls, n)
    BY DEF Ends
  <2>2. \A m \in Small : Bin(m) # Bin(n) => \A r \in Positions(ls, m) :
          /\ mem2[At(ls, m, r)] = mem[At(ls, m, r)]
          /\ Taken(bx, ls, m, r) <=> Taken(Append(bx, e), ls, m, r)
    BY <1>10
  <2> QED  BY <1>1, <1>2, <1>6, <1>12, <2>1, <2>2, FreeStep
<1> QED  BY <1>1, <1>9, <1>11, <1>13 DEF Inv, mem2

(* Where the list ends, alloc_bump finds the next slot of the buffer.      *)
LEMMA BumpStep ==
  ASSUME NEW u, NEW ls, Layout(ls, u), NEW n \in Small,
         NEW t \in Positions(ls, n), EndOf(ls, n) <= t + BUFFER_SIZE,
         NEW end, end = Start(ls[Bin(n)][Len(ls[Bin(n)])]) + BUFFER_SIZE
  PROVE  (IF At(ls, n, t) + 2 * Slot(n) <= end THEN At(ls, n, t) + Slot(n)
          ELSE 0)
           = (IF t + Slot(n) = EndOf(ls, n) THEN 0 ELSE At(ls, n, t + Slot(n)))
<1> PICK c : c = ls[Bin(n)]
  OBVIOUS
<1> PICK s : s = Slot(n)
  OBVIOUS
<1>1. /\ c \in Buffers(u) /\ u \in Nat /\ t \in PositionsIn(c, s)
      /\ s \in SlotSizes /\ s \in Nat
  BY SlotFits, SlotSizesNat, ArenaAssumption DEF Layout, Positions
<1>2. Len(c) \in Nat
  BY <1>1, BuffersOf
<1>3. PICK q \in 1 .. Len(c), d \in Nat : Spot(c, s, t, q, d)
  BY <1>1, SlotAt
<1>4. EndIn(c) = 1536 * (Len(c) + 1) /\ EndIn(c) <= t + 1536
  BY DEF EndIn, EndOf, BUFFER_SIZE
<1>5. /\ t = 1536 * q + d /\ d < 1536 /\ Multiple(d, s)
      /\ AddressIn(c, t) = Start(c[q]) + d
  BY <1>3 DEF Spot, BUFFER_SIZE
<1>6. q = Len(c)
  BY <1>2, <1>4, <1>5
<1>7. end = Start(c[q]) + 1536
  BY <1>6 DEF BUFFER_SIZE
<1>8. Start(c[q]) \in Nat
  <2>1. c[q] \in Nat
    BY <1>1, BuffersOf
  <2> QED  BY <2>1, StartNat
<1>9. CASE d + 2 * s <= 1536
  <2>1. d + s < 1536 /\ d + s \in Nat
    <3>1. s # 0
      BY <1>1 DEF SlotSizes
    <3> QED  BY <1>1, <1>9, <3>1
  <2>2. Multiple(d + s, s)
    BY <1>1, <1>5, Multiples
  <2>3. PICK x \in Nat : x = d + s
    BY <2>1
  <2>4. 1536 * q + x = t + s
    BY <1>1, <1>5, <2>3
  <2>5. AddressIn(c, t + s) = Start(c[q]) + x
    BY <1>1, <2>1, <2>2, <2>3, <2>4, PositionOf
  <2>6. t + s # EndIn(c)
    BY <1>2, <1>4, <1>5, <1>6, <2>1, <2>3, <2>4
  <2>7. AddressIn(c, t + s) = AddressIn(c, t) + s
    BY <1>1, <1>5, <1>8, <2>3, <2>5, <2>4
  <2>8. AddressIn(c, t) + 2 * s <= end
    BY <1>1, <1>5, <1>7, <1>8, <1>9
  <2> QED  BY <2>6, <2>7, <2>8 DEF EndOf, At
<1>10. CASE ~(d + 2 * s <= 1536)
  <2>1. ~(AddressIn(c, t) + 2 * s <= end)
    BY <1>1, <1>5, <1>7, <1>8, <1>10
  <2>2. t + s = EndIn(c)
    <3>1. t + s < EndIn(c) => t + s \in PositionsIn(c, s)
      BY <1>1, SlotAt
    <3>2. ASSUME t + s \in PositionsIn(c, s)  PROVE FALSE
      <4>1. (t + s) + s <= EndIn(c)
        BY <1>1, <3>2, SlotAt
      <4>2. PICK z \in Nat : z = 1536 * q
        OBVIOUS
      <4>3. EndIn(c) = z + 1536 /\ t = z + d
        BY <1>2, <1>4, <1>5, <1>6, <4>2
      <4> QED  BY <1>1, <1>10, <4>1, <4>3
    <3>3. t + s <= EndIn(c) /\ t \in Nat /\ EndIn(c) \in Nat
      BY <1>1, SlotAt
    <3> QED  BY <1>1, <3>1, <3>2, <3>3
  <2> QED  BY <2>1, <2>2 DEF EndOf, At
<1> QED  BY <1>9, <1>10

LEMMA PlaceStep ==
  ASSUME OneSize, NEW hd, NEW ls, NEW mem, NEW u, NEW bx,
         Inv(hd, ls, mem, bx, u), NEW n \in Small, NEW h, h = hd[Bin(n)],
         h # 0, NEW e \in Box, e.ptr = h, e.size = n, NEW end,
         end = Start(ls[Bin(n)][Len(ls[Bin(n)])]) + BUFFER_SIZE,
         NEW g, g = (IF mem[h] = 0
                     THEN IF h + 2 * Slot(n) <= end THEN h + Slot(n) ELSE 0
                     ELSE mem[h]),
         NEW mem2, mem2 = [a \in Address |->
                             IF a \in Blocks(h, n) THEN Data ELSE mem[a]]
  PROVE  Inv([hd EXCEPT ![Bin(n)] = g], ls, mem2, Append(bx, e), u)
<1>1. /\ Layout(ls, u) /\ MemoryOK(mem, u) /\ FreeOK(hd, ls, mem, bx)
      /\ BoxesOK(bx, ls, mem) /\ bx \in Seq(Box)
  BY DEF Inv, BoxesOK
<1>2. PICK t \in Ends(ls, n) : FreeFrom(h, ls, mem, bx, n, t)
  BY <1>1 DEF FreeOK
<1>3. /\ t \in Positions(ls, n) /\ h = At(ls, n, t) /\ Link(ls, mem, n, t)
  BY <1>1, <1>2, HeadOf
<1>4. /\ Slot(n) \in Nat \ {0} /\ t \in Nat /\ EndOf(ls, n) \in Nat
      /\ t + Slot(n) \in Ends(ls, n)
      /\ t + Slot(n) # EndOf(ls, n) => t + Slot(n) \in Positions(ls, n)
      /\ h \in Nat /\ h + Slot(n) <= Start(u + 1) /\ Start(u + 1) \in Nat
  BY <1>1, <1>3, PositionAt
<1>5. g = IF t + Slot(n) = EndOf(ls, n) THEN 0 ELSE At(ls, n, t + Slot(n))
  <2>1. CASE mem[h] = 0
    <3>1. EndOf(ls, n) <= t + BUFFER_SIZE
      <4>1. t + Slot(n) < EndOf(ls, n) => At(ls, n, t + Slot(n)) > 0
        BY <1>1, <1>4, PositionAt
      <4>2. ~(t + Slot(n) < EndOf(ls, n) /\ mem[h] = At(ls, n, t + Slot(n)))
        BY <2>1, <4>1
      <4> QED  BY <1>3, <4>2 DEF Link
    <3>2. g = IF h + 2 * Slot(n) <= end THEN h + Slot(n) ELSE 0
      BY <2>1
    <3> QED  BY <1>1, <1>3, <3>1, <3>2, BumpStep
  <2>2. CASE mem[h] # 0
    <3>1. /\ t + Slot(n) < EndOf(ls, n)
          /\ mem[h] = At(ls, n, t + Slot(n))
      BY <1>3, <2>2 DEF Link
    <3> QED  BY <1>4, <2>2, <3>1
  <2> QED  BY <2>1, <2>2
<1>6. /\ \A a \in Address : mem2[a] = IF a \in Blocks(h, n) THEN Data ELSE mem[a]
      /\ mem2 \in [Address -> Address \cup {0, Data}]
  BY <1>1 DEF MemoryOK
<1>7. MemoryOK(mem2, u)
  <2>1. n \in Nat /\ n <= Slot(n)
    BY SlotFits
  <2>2. ASSUME NEW a \in Blocks(h, n)  PROVE ~(a >= Start(u + 1))
    <3>1. a \in Nat
      BY AddressNat DEF Blocks
    <3> QED  BY <1>4, <2>1, <2>2, <3>1 DEF Blocks
  <2> QED  BY <1>1, <1>6, <2>2 DEF MemoryOK
<1>8. ASSUME NEW m \in Small, NEW r \in Positions(ls, m),
             Bin(m) # Bin(n) \/ r # t
      PROVE  /\ mem2[At(ls, m, r)] = mem[At(ls, m, r)]
             /\ Taken(Append(bx, e), ls, m, r) <=> Taken(bx, ls, m, r)
             /\ ~Holds(e, ls, m, r)
  <2>1. At(ls, m, r) \in Address
    BY <1>1, PositionAt
  <2>2. At(ls, m, r) # At(ls, n, t)
    BY <1>1, <1>3, <1>8, SlotsApart
  <2>3. At(ls, m, r) \notin Blocks(h, n)
    BY <1>1, <1>3, <1>8, BlocksApart
  <2>4. ~Holds(e, ls, m, r)
    BY <1>3, <2>2 DEF Holds
  <2>5. Taken(Append(bx, e), ls, m, r) <=> Taken(bx, ls, m, r) \/ Holds(e, ls, m, r)
    BY <1>1, TakenAppend
  <2> QED  BY <1>6, <2>1, <2>3, <2>4, <2>5
<1>9. BoxesOK(Append(bx, e), ls, mem2)
  <2>1. ASSUME NEW k \in 1 .. Len(bx)  PROVE Kept(bx[k], mem2)
    <3>1. Kept(bx[k], mem)
      BY <1>1 DEF BoxesOK
    <3>2. \A a \in Address : mem[a] = Data => mem2[a] = Data
      BY <1>6
    <3> QED  BY <3>1, <3>2 DEF Kept, Blocks
  <2>2. BoxesOK(bx, ls, mem2)
    BY <1>1, <2>1 DEF BoxesOK
  <2>3. Placed(e, ls)
    BY <1>3 DEF Placed, Small
  <2>4. Kept(e, mem2)
    BY <1>6 DEF Kept, Blocks
  <2>5. ASSUME NEW k \in 1 .. Len(bx)  PROVE Before(bx[k], e, ls)
    <3>1. SUFFICES ASSUME NEW m \in Small,
                          NEW p \in Positions(ls, m), NEW r \in Positions(ls, m),
                          Holds(bx[k], ls, m, p), Holds(e, ls, m, r)
                   PROVE  p < r
      BY DEF Before
    <3>2. Bin(m) = Bin(n) /\ r = t
      BY <1>8, <3>1
    <3>3. p \in Positions(ls, n) /\ Holds(bx[k], ls, n, p)
      BY <3>1, <3>2, SameBin DEF Holds
    <3>4. Taken(bx, ls, n, p)
      BY <3>3 DEF Taken
    <3> QED  BY <1>2, <3>2, <3>3, <3>4 DEF FreeFrom
  <2> QED  BY <1>1, <2>2, <2>3, <2>4, <2>5, BoxesAppend
<1>10. FreeFrom(g, ls, mem2, Append(bx, e), n, t + Slot(n))
  <2>1. ASSUME NEW r \in Positions(ls, n), r < t + Slot(n)
        PROVE  Taken(Append(bx, e), ls, n, r)
    <3>1. r \in Nat /\ r <= t
      <4>1. r \in Nat
        BY <1>1, PositionAt
      <4>2. t < r => t + Slot(n) <= r
        BY <1>1, <1>3, NextPosition DEF Ends
      <4> QED  BY <1>4, <2>1, <4>1, <4>2
    <3>2. CASE r = t
      <4>1. Holds(e, ls, n, t)
        BY <1>3 DEF Holds
      <4> QED  BY <1>1, <3>2, <4>1, TakenAppend
    <3>3. CASE r # t
      <4>1. r < t
        BY <1>4, <3>1, <3>3
      <4>2. Taken(bx, ls, n, r)
        BY <1>2, <4>1 DEF FreeFrom
      <4> QED  BY <1>1, <4>2, TakenAppend
    <3> QED  BY <3>2, <3>3
  <2>2. ASSUME NEW r \in Positions(ls, n), ~(r < t + Slot(n))
        PROVE  ~Taken(Append(bx, e), ls, n, r) /\ Link(ls, mem2, n, r)
    <3>1. r # t /\ ~(r < t)
      <4>1. r \in Nat
        BY <1>1, PositionAt
      <4> QED  BY <1>4, <2>2, <4>1
    <3>2. ~Taken(bx, ls, n, r) /\ Link(ls, mem, n, r)
      BY <1>2, <3>1 DEF FreeFrom
    <3> QED  BY <1>8, <3>1, <3>2 DEF Link
  <2> QED  BY <1>5, <2>1, <2>2 DEF FreeFrom
<1>11. g \in Nat
  BY <1>1, <1>4, <1>5, PositionAt
<1>12. FreeOK([hd EXCEPT ![Bin(n)] = g], ls, mem2, Append(bx, e))
  <2>1. \A m \in Small : Bin(m) # Bin(n) => \A r \in Positions(ls, m) :
          /\ mem2[At(ls, m, r)] = mem[At(ls, m, r)]
          /\ Taken(Append(bx, e), ls, m, r) <=> Taken(bx, ls, m, r)
    BY <1>8
  <2> QED  BY <1>1, <1>4, <1>10, <1>11, <2>1, FreeStep
<1> QED  BY <1>1, <1>7, <1>9, <1>12 DEF Inv

(* The buffers w are c and another one, v.                                 *)
Grown(c, w, v) == /\ Len(w) = Len(c) + 1 /\ w[Len(c) + 1] = v
                  /\ \A q \in 1 .. Len(c) : w[q] = c[q]

LEMMA AppendBuffer ==
  ASSUME NEW u \in Nat, NEW c \in Buffers(u)
  PROVE  /\ Append(c, u + 1) \in Buffers(u + 1) /\ c \in Buffers(u + 1)
         /\ Grown(c, Append(c, u + 1), u + 1)
<1>1. c \in Seq(1 .. u)
  BY DEF Buffers
<1>2. 1 .. u \subseteq 1 .. (u + 1) /\ u + 1 \in 1 .. (u + 1)
  OBVIOUS
<1> DEFINE S == 1 .. (u + 1)
<1>3. c \in Seq(S) /\ u + 1 \in S
  BY <1>1, <1>2
<1> HIDE DEF S
<1>4. /\ Append(c, u + 1) \in Seq(S)
      /\ Grown(c, Append(c, u + 1), u + 1)
  BY <1>3, AppendOnTop DEF Grown
<1> QED  BY <1>3, <1>4 DEF Buffers, S

(* Another buffer leaves the slots of the others as they are.              *)
LEMMA GrowBin ==
  ASSUME NEW s \in SlotSizes, NEW u \in Nat, NEW c \in Buffers(u),
         NEW v \in Nat, NEW w \in Buffers(v), Grown(c, w, v)
  PROVE  /\ EndIn(c) \in Nat /\ EndIn(w) = EndIn(c) + BUFFER_SIZE
         /\ \A p \in PositionsIn(c, s) :
              p \in PositionsIn(w, s) /\ AddressIn(w, p) = AddressIn(c, p)
         /\ EndIn(c) \in PositionsIn(w, s)
         /\ AddressIn(w, EndIn(c)) = Start(v)
         /\ \A p \in PositionsIn(w, s) :
              IF p < EndIn(c) THEN p \in PositionsIn(c, s)
              ELSE AddressIn(w, p) >= Start(v)
<1>1. Len(c) \in Nat /\ Len(w) = Len(c) + 1 /\ w[Len(c) + 1] = v
  BY BuffersOf DEF Grown
<1>2. /\ EndIn(c) = 1536 * (Len(c) + 1) /\ EndIn(w) = 1536 * (Len(c) + 2)
  BY <1>1 DEF EndIn, BUFFER_SIZE
<1>3. EndIn(c) \in Nat /\ EndIn(w) = EndIn(c) + BUFFER_SIZE
  BY <1>1, <1>2 DEF BUFFER_SIZE
<1>4. ASSUME NEW p \in PositionsIn(c, s)
      PROVE  p \in PositionsIn(w, s) /\ AddressIn(w, p) = AddressIn(c, p)
  <2>1. PICK q \in 1 .. Len(c), d \in Nat : Spot(c, s, p, q, d)
    BY SlotAt
  <2>2. /\ p = 1536 * q + d /\ d < 1536 /\ Multiple(d, s)
        /\ AddressIn(c, p) = Start(c[q]) + d
    BY <2>1 DEF Spot, BUFFER_SIZE
  <2>3. q \in 1 .. Len(w) /\ w[q] = c[q]
    BY <1>1 DEF Grown
  <2>4. p \in PositionsIn(w, s) /\ AddressIn(w, p) = Start(w[q]) + d
    <3>1. p = 1536 * q + d /\ d < 1536 /\ Multiple(d, s)
      BY <2>2
    <3>2. q \in 1 .. Len(w)
      BY <2>3
    <3> QED  BY <3>1, <3>2, PositionOf
  <2> QED  BY <2>2, <2>3, <2>4
<1>5. EndIn(c) \in PositionsIn(w, s) /\ AddressIn(w, EndIn(c)) = Start(v)
  <2>1. PICK q \in Nat : q = Len(c) + 1
    BY <1>1
  <2>2. q \in 1 .. Len(w) /\ w[q] = v
    BY <1>1, <2>1
  <2>3. PICK d \in Nat : d = 0 /\ Multiple(d, s) /\ d < 1536
    BY DEF Multiple, SlotSizes
  <2>4. 1536 * q + d = EndIn(c)
    BY <1>2, <2>1, <2>3
  <2>5. EndIn(c) \in PositionsIn(w, s) /\ AddressIn(w, EndIn(c)) = Start(w[q]) + d
    BY <1>1, <2>2, <2>3, <2>4, PositionOf
  <2>6. Start(v) + d = Start(v)
    BY <1>1, <2>3, StartNat
  <2> QED  BY <2>2, <2>5, <2>6
<1>6. ASSUME NEW p \in PositionsIn(w, s)
      PROVE  IF p < EndIn(c) THEN p \in PositionsIn(c, s)
             ELSE AddressIn(w, p) >= Start(v)
  <2>1. PICK q \in 1 .. Len(w), d \in Nat : Spot(w, s, p, q, d)
    BY <1>1, SlotAt
  <2>2. /\ p = 1536 * q + d /\ d < 1536 /\ Multiple(d, s)
        /\ AddressIn(w, p) = Start(w[q]) + d
    BY <2>1 DEF Spot, BUFFER_SIZE
  <2>3. CASE q = Len(w)
    <3>1. ~(p < EndIn(c))
      BY <1>1, <1>2, <2>2, <2>3
    <3>2. AddressIn(w, p) = Start(v) + d
      BY <1>1, <2>2, <2>3
    <3>3. Start(v) \in Nat
      BY <1>1, StartNat
    <3> QED  BY <3>1, <3>2, <3>3
  <2>4. CASE q # Len(w)
    <3>1. q \in 1 .. Len(c)
      BY <1>1, <2>4
    <3>2. p < EndIn(c)
      BY <1>1, <1>2, <2>2, <3>1
    <3>3. p \in PositionsIn(c, s)
      BY <2>2, <3>1, PositionOf
    <3> QED  BY <2>2, <3>2, <3>3
  <2> QED  BY <2>3, <2>4
<1> QED  BY <1>3, <1>4, <1>5, <1>6

LEMMA LayoutGrows ==
  ASSUME Layout(lists, used), NEW i \in Bins, used < MaxBuffers,
         lists' = [lists EXCEPT ![i] = Append(@, used + 1)]
  PROVE  /\ Layout(lists', used + 1) /\ Grown(lists[i], lists'[i], used + 1)
         /\ \A j \in Bins : j # i => lists'[j] = lists[j]
<1> PICK u : u = used
  OBVIOUS
<1> PICK ls : ls = lists
  OBVIOUS
<1> PICK ls2 : ls2 = lists'
  OBVIOUS
<1>1. /\ u \in Nat /\ u + 1 \in 0 .. MaxBuffers
      /\ \A j \in Bins : ls[j] \in Buffers(u)
  BY ArenaAssumption DEF Layout
<1>2. /\ DOMAIN ls2 = Bins /\ ls2 = [j \in Bins |-> ls2[j]]
      /\ ls2[i] = Append(ls[i], u + 1)
      /\ \A j \in Bins : j # i => ls2[j] = ls[j]
  BY DEF Layout
<1>3. \A j \in Bins : ls2[j] \in Buffers(u + 1)
  <2> TAKE j \in Bins
  <2>1. ls[j] \in Buffers(u + 1) /\ Append(ls[j], u + 1) \in Buffers(u + 1)
    BY <1>1, AppendBuffer
  <2> QED  BY <1>2, <2>1
<1>4. Grown(ls[i], ls2[i], u + 1)
  BY <1>1, <1>2, AppendBuffer
<1>5. ASSUME NEW j \in Bins, NEW q \in 1 .. Len(ls2[j])
      PROVE  \/ q \in 1 .. Len(ls[j]) /\ ls2[j][q] = ls[j][q] /\ ls[j][q] # u + 1
             \/ j = i /\ q = Len(ls[i]) + 1 /\ ls2[j][q] = u + 1
  <2>1. /\ Len(ls[j]) \in Nat
        /\ \A x \in 1 .. Len(ls[j]) : ls[j][x] \in 1 .. u
    BY <1>1, BuffersOf
  <2>2. CASE j # i
    BY <1>1, <1>2, <2>1, <2>2
  <2>3. CASE j = i
    <3>1. /\ Len(ls2[i]) = Len(ls[i]) + 1 /\ ls2[i][Len(ls[i]) + 1] = u + 1
          /\ \A x \in 1 .. Len(ls[i]) : ls2[i][x] = ls[i][x]
      BY <1>4 DEF Grown
    <3>2. q \in 1 .. Len(ls[i]) \/ q = Len(ls[i]) + 1
      BY <2>1, <2>3, <3>1
    <3> QED  BY <1>1, <2>1, <2>3, <3>1, <3>2
  <2> QED  BY <2>2, <2>3
<1>6. \A j, k \in Bins : \A q \in 1 .. Len(ls2[j]), r \in 1 .. Len(ls2[k]) :
        ls2[j][q] = ls2[k][r] => j = k /\ q = r
  BY <1>5 DEF Layout
<1> QED  BY <1>1, <1>2, <1>3, <1>6, <1>4 DEF Layout

(* The first half of extend_bin: the empty bin gets another buffer, whose  *)
(* first slot is at the head.                                              *)
LEMMA ExtendStep ==
  ASSUME OneSize, NEW hd, NEW ls, NEW mem, NEW u, NEW bx,
         Inv(hd, ls, mem, bx, u), NEW n \in Small, NEW i, i = Bin(n),
         hd[i] = 0, NEW v \in Nat, v = u + 1,
         NEW ls2, Layout(ls2, v), Grown(ls[i], ls2[i], v),
         \A j \in Bins : j # i => ls2[j] = ls[j]
  PROVE  Inv([hd EXCEPT ![i] = Start(v)], ls2, mem, bx, v) /\ Start(v) # 0
<1> DEFINE g == [hd EXCEPT ![i] = Start(v)]
<1>1. /\ Layout(ls, u) /\ MemoryOK(mem, u) /\ FreeOK(hd, ls, mem, bx)
      /\ BoxesOK(bx, ls, mem) /\ i \in Bins /\ u \in Nat
  BY SlotFits, ArenaAssumption DEF Inv, Layout
<1>2. /\ Start(v) \in Nat /\ Start(v) > 0 /\ v \in Nat
      /\ Start(v) <= Start(v + 1) /\ Start(v + 1) \in Nat
  <2>1. Start(v) = 3072 * v
    BY <1>1, StartOf
  <2>2. Start(v + 1) = 3072 * (v + 1)
    BY <1>1, StartOf
  <2> QED  BY <1>1, <2>1, <2>2
<1>3. MemoryOK(mem, v)
  <2>1. \A a \in Address : a >= Start(v + 1) => a >= Start(v)
    BY <1>2, AddressNat
  <2> QED  BY <1>1, <2>1 DEF MemoryOK
<1>4. ASSUME NEW m \in Small, Bin(m) # i
      PROVE  /\ Positions(ls2, m) = Positions(ls, m)
             /\ EndOf(ls2, m) = EndOf(ls, m) /\ Ends(ls2, m) = Ends(ls, m)
             /\ \A p : At(ls2, m, p) = At(ls, m, p)
  <2>1. ls2[Bin(m)] = ls[Bin(m)]
    BY <1>4, SlotFits
  <2> QED  BY <2>1 DEF Positions, EndOf, At, Ends
<1>5. ASSUME NEW m \in Small, Bin(m) = i
      PROVE  /\ EndOf(ls, m) \in Nat
             /\ EndOf(ls2, m) = EndOf(ls, m) + BUFFER_SIZE
             /\ \A p \in Positions(ls, m) :
                  p \in Positions(ls2, m) /\ At(ls2, m, p) = At(ls, m, p)
             /\ EndOf(ls, m) \in Positions(ls2, m)
             /\ At(ls2, m, EndOf(ls, m)) = Start(v)
             /\ \A p \in Positions(ls2, m) :
                  IF p < EndOf(ls, m) THEN p \in Positions(ls, m)
                  ELSE At(ls2, m, p) >= Start(v)
  <2>1. /\ Slot(m) \in SlotSizes /\ ls[i] \in Buffers(u)
        /\ ls2[i] \in Buffers(v)
    BY <1>1, SlotFits DEF Layout
  <2>2. PICK s : s = Slot(m)
    OBVIOUS
  <2>3. PICK c : c = ls[i]
    OBVIOUS
  <2>4. PICK w : w = ls2[i]
    OBVIOUS
  <2>5. /\ EndIn(c) \in Nat /\ EndIn(w) = EndIn(c) + BUFFER_SIZE
        /\ \A p \in PositionsIn(c, s) :
             p \in PositionsIn(w, s) /\ AddressIn(w, p) = AddressIn(c, p)
        /\ EndIn(c) \in PositionsIn(w, s)
        /\ AddressIn(w, EndIn(c)) = Start(v)
        /\ \A p \in PositionsIn(w, s) :
             IF p < EndIn(c) THEN p \in PositionsIn(c, s)
             ELSE AddressIn(w, p) >= Start(v)
    BY <1>1, <2>1, <2>2, <2>3, <2>4, GrowBin
  <2> QED  BY <1>5, <2>2, <2>3, <2>4, <2>5 DEF EndOf, Positions, At
<1>6. ASSUME NEW m \in Small, NEW p \in Positions(ls, m)
      PROVE  /\ p \in Positions(ls2, m) /\ At(ls2, m, p) = At(ls, m, p)
  BY <1>4, <1>5
(* The boxes hold no slot of the new buffer.                               *)
<1>7. ASSUME NEW k \in 1 .. Len(bx), NEW m \in Small,
             NEW p \in Positions(ls2, m)
      PROVE  Holds(bx[k], ls2, m, p)
               <=> p \in Positions(ls, m) /\ Holds(bx[k], ls, m, p)
  <2>1. p \in Positions(ls, m) => At(ls2, m, p) = At(ls, m, p)
    BY <1>6
  <2>2. ASSUME p \notin Positions(ls, m), Holds(bx[k], ls2, m, p)
        PROVE  FALSE
    <3>1. At(ls2, m, p) >= Start(v)
      BY <1>4, <1>5, <2>2
    <3>2. bx[k] \in Box /\ Placed(bx[k], ls) /\ bx[k].ptr = At(ls2, m, p)
      BY <1>1, <2>2 DEF BoxesOK, Holds
    <3>3. bx[k].ptr # 0
      BY <3>2, PositionAt
    <3>4. bx[k].size \in Small /\
          \E r \in Positions(ls, bx[k].size) : Holds(bx[k], ls, bx[k].size, r)
      BY <1>1, <3>2, <3>3, BoxPlace
    <3>5. PICK r \in Positions(ls, bx[k].size) : Holds(bx[k], ls, bx[k].size, r)
      BY <3>4
    <3>6. /\ bx[k].ptr \in Nat /\ Slot(bx[k].size) \in Nat \ {0}
          /\ bx[k].ptr + Slot(bx[k].size) <= Start(v)
      BY <1>1, <3>4, <3>5, PositionAt DEF Holds
    <3> QED  BY <1>2, <3>1, <3>2, <3>6
  <2> QED  BY <2>1, <2>2 DEF Holds
<1>8. BoxesOK(bx, ls2, mem)
  <2>1. ASSUME NEW k \in 1 .. Len(bx)  PROVE Placed(bx[k], ls2)
    <3>1. Placed(bx[k], ls) /\ bx[k].size \in Sizes
      <4>1. bx[k] \in Box /\ Placed(bx[k], ls)
        BY <1>1 DEF BoxesOK
      <4> QED  BY <4>1 DEF Box
    <3>2. CASE OnHeap(bx[k].size)
      BY <3>1, <3>2 DEF Placed
    <3>3. CASE ~OnHeap(bx[k].size)
      <4>1. bx[k].size \in Small
        BY <3>1, <3>3 DEF Small
      <4> QED  BY <1>6, <3>1, <3>3, <4>1 DEF Placed
    <3> QED  BY <3>2, <3>3
  <2>2. ASSUME NEW k \in 1 .. Len(bx), NEW l \in 1 .. Len(bx), k < l
        PROVE  Before(bx[k], bx[l], ls2)
    <3>1. Before(bx[k], bx[l], ls)
      BY <1>1, <2>2 DEF BoxesOK
    <3> QED  BY <1>7, <3>1 DEF Before
  <2> QED  BY <1>1, <2>1, <2>2 DEF BoxesOK
<1>9. ASSUME NEW m \in Small, NEW p \in Positions(ls2, m)
       PROVE  Taken(bx, ls2, m, p)
                <=> p \in Positions(ls, m) /\ Taken(bx, ls, m, p)
  BY <1>7 DEF Taken
<1>10. /\ g \in [Bins -> Nat] /\ g[i] = Start(v)
       /\ \A j \in Bins : j # i => g[j] = hd[j]
  BY <1>1, <1>2 DEF FreeOK
<1> HIDE DEF g
<1>11. \A j \in Bins : (\A m \in Small : Bin(m) # j) => g[j] = 0
  BY <1>1, <1>10 DEF FreeOK
<1>12. ASSUME NEW m \in Small
       PROVE  \E t \in Ends(ls2, m) : FreeFrom(g[Bin(m)], ls2, mem, bx, m, t)
  <2>1. PICK t \in Ends(ls, m) : FreeFrom(hd[Bin(m)], ls, mem, bx, m, t)
    BY <1>1 DEF FreeOK
  <2>2. CASE Bin(m) # i
    <3>1. g[Bin(m)] = hd[Bin(m)]
      BY <1>10, <2>2, SlotFits
    <3>2. \A p \in Positions(ls2, m) :
            /\ Taken(bx, ls2, m, p) <=> Taken(bx, ls, m, p)
            /\ Link(ls2, mem, m, p) <=> Link(ls, mem, m, p)
      BY <1>4, <1>9, <2>2 DEF Link
    <3>3. FreeFrom(g[Bin(m)], ls2, mem, bx, m, t)
      BY <1>4, <2>1, <2>2, <3>1, <3>2 DEF FreeFrom
    <3> QED  BY <1>4, <2>1, <2>2, <3>3
  <2>3. CASE Bin(m) = i
    <3>1. hd[Bin(m)] = 0
      BY <2>3
    <3>2. t = EndOf(ls, m)
      BY <1>1, <2>1, <3>1, HeadOf
    <3>3. \A p \in Positions(ls, m) : Taken(bx, ls, m, p)
      <4>1. \A p \in Positions(ls, m) : p < t
        BY <1>1, <3>2, PositionAt
      <4> QED  BY <2>1, <4>1 DEF FreeFrom
    <3>4. t # EndOf(ls2, m) /\ t \in Positions(ls2, m)
      <4>1. t \in Positions(ls2, m)
        BY <1>5, <2>3, <3>2
      <4>2. t < EndOf(ls2, m) /\ t \in Nat
        BY <4>1, PositionAt
      <4> QED  BY <4>1, <4>2
    <3>5. g[Bin(m)] = At(ls2, m, t)
      BY <1>5, <1>10, <2>3, <3>2
    <3>6. ASSUME NEW p \in Positions(ls2, m)
          PROVE  IF p < t THEN Taken(bx, ls2, m, p)
                 ELSE ~Taken(bx, ls2, m, p) /\ Link(ls2, mem, m, p)
      <4>1. CASE p < t
        BY <1>5, <1>9, <2>3, <3>2, <3>3, <4>1
      <4>2. CASE ~(p < t)
        <5>1. p \notin Positions(ls, m)
          BY <1>1, <3>2, <4>2, PositionAt
        <5>2. At(ls2, m, p) \in Address /\ At(ls2, m, p) >= Start(v)
          BY <1>5, <2>3, <3>2, <4>2, PositionAt
        <5>3. mem[At(ls2, m, p)] = 0
          BY <1>1, <5>2 DEF MemoryOK
        <5>4. EndOf(ls2, m) <= p + BUFFER_SIZE
          <6>1. p \in Nat /\ t \in Nat /\ EndOf(ls2, m) = t + BUFFER_SIZE
            BY <1>5, <2>3, <3>2, PositionAt
          <6> QED  BY <4>2, <6>1 DEF BUFFER_SIZE
        <5> QED  BY <1>9, <4>2, <5>1, <5>3, <5>4 DEF Link
      <4> QED  BY <4>1, <4>2
    <3>7. FreeFrom(g[Bin(m)], ls2, mem, bx, m, t)
      BY <3>4, <3>5, <3>6 DEF FreeFrom
    <3> QED  BY <3>4, <3>7 DEF Ends
  <2> QED  BY <2>2, <2>3
<1>13. FreeOK(g, ls2, mem, bx)
  BY <1>10, <1>11, <1>12 DEF FreeOK
<1>14. Start(v) # 0
  BY <1>2
<1> QED  BY <1>3, <1>8, <1>13, <1>14 DEF Inv, g

------------------------------------------------------------------------------
(* Theorems                                                                *)

LEMMA InitInv == ASSUME Init PROVE ArenaInv
<1>1. 0 \in 0 .. MaxBuffers /\ Data # 0
  BY ArenaAssumption DEF Data
<1>2. <<>> \in Buffers(0) /\ Len(<<>>) = 0
  BY DEF Buffers
<1>3. lists \in [Bins -> Buffers(0)] /\ \A i \in Bins : Len(lists[i]) = 0
  BY <1>2 DEF Init
<1>4. Layout(lists, used)
  BY <1>1, <1>3 DEF Layout, Init
<1>5. MemoryOK(memory, used)
  BY DEF MemoryOK, Init
<1>6. boxes \in Seq(Box) /\ Len(boxes) = 0
  BY DEF Init
<1>7. BoxesOK(boxes, lists, memory)
  BY <1>6 DEF BoxesOK
<1>8. ASSUME NEW n \in Small
      PROVE  FreeFrom(head[Bin(n)], lists, memory, boxes, n, EndOf(lists, n))
  <2>1. head[Bin(n)] = 0 /\ Len(lists[Bin(n)]) = 0
    BY <1>3, SlotFits DEF Init
  <2>2. Positions(lists, n) = {}
    BY <2>1 DEF Positions, PositionsIn, EndIn, BUFFER_SIZE
  <2> QED  BY <2>1, <2>2 DEF FreeFrom
<1>9. FreeOK(head, lists, memory, boxes)
  BY <1>8 DEF FreeOK, Ends, Init
<1> QED  BY <1>4, <1>5, <1>7, <1>9 DEF ArenaInv, Inv

(* Place, from a state in which the slot h is at the head of its bin.      *)
LEMMA PlaceInv ==
  ASSUME OneSize, NEW n \in Small, NEW h, NEW hd, h # 0, hd[Bin(n)] = h,
         \A x : [hd EXCEPT ![Bin(n)] = x] = [head EXCEPT ![Bin(n)] = x],
         Inv(hd, lists', memory, boxes, used'), Place(n, h)
  PROVE  ArenaInv'
<1>1. PICK next \in NextOf(h) :
        head' = [head EXCEPT ![Bin(n)] = IF next = 0 THEN Bump(h, Bin(n), Slot(n))
                                         ELSE next]
  BY DEF Place
<1>2. PICK t \in Ends(lists', n) : FreeFrom(h, lists', memory, boxes, n, t)
  BY DEF Inv, FreeOK
<1>3. h \in Address /\ memory[h] # Data /\ h \in Nat
  BY <1>2, HeadOf DEF Inv
<1>4. next = memory[h]
  BY <1>1, <1>3 DEF NextOf
<1>5. PICK e \in Box : e = [ptr |-> h, size |-> n]
  BY <1>3 DEF Box, Small
<1>6. e.ptr = h /\ e.size = n /\ boxes' = Append(boxes, e)
  BY <1>5 DEF Place
<1>7. PICK end : end = Start(lists'[Bin(n)][Len(lists'[Bin(n)])]) + BUFFER_SIZE
  OBVIOUS
<1>8. PICK g : g = (IF memory[h] = 0
                    THEN IF h + 2 * Slot(n) <= end THEN h + Slot(n) ELSE 0
                    ELSE memory[h])
  OBVIOUS
<1>9. head' = [hd EXCEPT ![Bin(n)] = g]
  BY <1>1, <1>4, <1>7, <1>8 DEF Bump, End, Current
<1>10. memory' = [a \in Address |-> IF a \in Blocks(h, n) THEN Data
                                    ELSE memory[a]]
  BY DEF Place
<1>11. Inv([hd EXCEPT ![Bin(n)] = g], lists', memory', Append(boxes, e), used')
  BY <1>6, <1>7, <1>8, <1>10, PlaceStep
<1> QED  BY <1>6, <1>9, <1>11 DEF ArenaInv

LEMMA NextInv ==
  ASSUME OneSize, ArenaInv, [Next]_vars
  PROVE  ArenaInv'
<1>1. Inv(head, lists, memory, boxes, used) /\ boxes \in Seq(Box)
  BY DEF ArenaInv, Inv, BoxesOK
<1>2. ASSUME NEW n \in Sizes, AllocHeap(n)  PROVE ArenaInv'
  <2>1. PICK e \in Box : e = [ptr |-> 0, size |-> n]
    BY DEF Box
  <2>2. e.ptr = 0 /\ OnHeap(e.size) /\ boxes' = Append(boxes, e)
    BY <1>2, <2>1 DEF AllocHeap
  <2>3. Inv(head, lists, memory, Append(boxes, e), used)
    BY <1>1, <2>2, HeapStep
  <2> QED  BY <1>2, <2>2, <2>3 DEF ArenaInv, AllocHeap
<1>3. ASSUME NEW n \in Sizes, AllocSlot(n)  PROVE ArenaInv'
  <2>1. n \in Small /\ head[Bin(n)] # 0 /\ Place(n, head[Bin(n)])
    BY <1>3 DEF AllocSlot, Small
  <2>2. Inv(head, lists', memory, boxes, used')
    BY <1>1, <1>3 DEF AllocSlot
  <2> QED  BY <2>1, <2>2, PlaceInv
<1>4. ASSUME NEW n \in Sizes, AllocExtend(n)  PROVE ArenaInv'
  <2>1. /\ n \in Small /\ Bin(n) \in Bins /\ Place(n, Start(used + 1))
        /\ head[Bin(n)] = 0 /\ used < MaxBuffers /\ used' = used + 1
        /\ lists' = [lists EXCEPT ![Bin(n)] = Append(@, used + 1)]
    BY <1>4, SlotFits DEF AllocExtend, Small
  <2>2. Layout(lists, used) /\ used' \in Nat
    BY <1>1, <2>1, ArenaAssumption DEF Inv, Layout
  <2>3. PICK i \in Bins : i = Bin(n)
    BY <2>1
  <2>4. /\ Layout(lists', used + 1) /\ Grown(lists[i], lists'[i], used + 1)
        /\ \A j \in Bins : j # i => lists'[j] = lists[j]
    BY <2>1, <2>2, <2>3, LayoutGrows
  <2>5. PICK v \in Nat : v = used + 1
    BY <2>1, <2>2
  <2>6. PICK ls : ls = lists'
    OBVIOUS
  <2>7. /\ Layout(ls, v) /\ Grown(lists[i], ls[i], v)
        /\ \A j \in Bins : j # i => ls[j] = lists[j]
    BY <2>4, <2>5, <2>6
  <2>8. Inv(head, lists, memory, boxes, used) /\ n \in Small /\ head[i] = 0
    BY <1>1, <2>1, <2>3
  <2>9. PICK hd : hd = [head EXCEPT ![i] = Start(v)]
    OBVIOUS
  <2>10. Inv([head EXCEPT ![i] = Start(v)], ls, memory, boxes, v) /\ Start(v) # 0
    BY <2>3, <2>5, <2>7, <2>8, ExtendStep
  <2>11. Inv(hd, lists', memory, boxes, used') /\ Start(used') # 0
    BY <2>1, <2>5, <2>6, <2>9, <2>10
  <2>12. /\ hd[Bin(n)] = Start(used')
         /\ \A x : [hd EXCEPT ![Bin(n)] = x] = [head EXCEPT ![Bin(n)] = x]
    BY <1>1, <2>1, <2>3, <2>5, <2>9 DEF Inv, FreeOK
  <2>13. Place(n, Start(used'))
    BY <2>1
  <2> QED  BY <2>1, <2>11, <2>12, <2>13, PlaceInv
<1>5. ASSUME Release  PROVE ArenaInv'
  <2>1. boxes # <<>> /\ boxes' = Older(boxes) /\ UNCHANGED <<lists, used>>
    BY <1>5 DEF Release
  <2>2. PICK e \in Box : e = Newest(boxes)
    BY <1>1, <2>1, OlderProperties
  <2>3. /\ Older(boxes) \in Seq(Box) /\ boxes = Append(Older(boxes), e)
    BY <1>1, <2>1, <2>2, OlderProperties, NewestOnOlder
  <2>4. Inv(head, lists, memory, Append(Older(boxes), e), used)
    BY <1>1, <2>3
  <2>5. CASE e.ptr = 0
    <3>1. OnHeap(e.size)
      <4>1. Layout(lists, used) /\ Placed(e, lists)
        BY <2>3, <2>4, BoxesAppend DEF Inv
      <4> QED  BY <2>5, <4>1, BoxPlace
    <3>2. Inv(head, lists, memory, Older(boxes), used)
      BY <2>3, <2>4, <2>5, <3>1, HeapStep
    <3> QED  BY <1>5, <2>1, <2>2, <2>5, <3>2 DEF ArenaInv, Release
  <2>6. CASE e.ptr # 0
    <3>1. /\ memory' = [memory EXCEPT ![e.ptr] = head[Bin(e.size)]]
          /\ head' = [head EXCEPT ![Bin(e.size)] = e.ptr]
      BY <1>5, <2>2, <2>6 DEF Release
    <3>2. Inv([head EXCEPT ![Bin(e.size)] = e.ptr], lists,
              [memory EXCEPT ![e.ptr] = head[Bin(e.size)]], Older(boxes), used)
      BY <2>3, <2>4, <2>6, ReleaseStep
    <3> QED  BY <2>1, <3>1, <3>2 DEF ArenaInv
  <2> QED  BY <2>5, <2>6
<1>6. CASE UNCHANGED vars
  BY <1>6 DEF vars, ArenaInv
<1> QED  BY <1>2, <1>3, <1>4, <1>5, <1>6 DEF Next

(* The free list of a bin, its boxes and its buffers fit together: the     *)
(* invariant of alloc, extend_bin and dealloc.                             *)
THEOREM ArenaInvariance == ASSUME OneSize PROVE Spec => []ArenaInv
<1>1. Init => ArenaInv
  BY InitInv
<1>2. ArenaInv /\ [Next]_vars => ArenaInv'
  BY NextInv
<1> QED  BY <1>1, <1>2, PTL DEF Spec

(* alloc never hands out memory that is in use: the boxes of any types, in *)
(* any order of allocations and releases, share no byte, and each lies in  *)
(* one buffer.                                                             *)
THEOREM BoxesApart == ASSUME OneSize PROVE Spec => []NoOverlap
<1>1. ASSUME ArenaInv  PROVE NoOverlap
  <2>1. /\ Layout(lists, used) /\ boxes \in Seq(Box)
        /\ BoxesOK(boxes, lists, memory) /\ used \in Nat
    BY <1>1, ArenaAssumption DEF ArenaInv, Inv, BoxesOK, Layout
  <2>2. ASSUME NEW k \in Live
        PROVE  /\ boxes[k].size \in Small /\ k \in 1 .. Len(boxes)
               /\ \E p \in Positions(lists, boxes[k].size) :
                    Holds(boxes[k], lists, boxes[k].size, p)
    <3>1. /\ k \in 1 .. Len(boxes) /\ boxes[k] \in Box
          /\ Placed(boxes[k], lists) /\ boxes[k].ptr # 0
      BY <2>1 DEF BoxesOK, Live
    <3> QED  BY <2>1, <3>1, BoxPlace
  <2>3. ASSUME NEW k \in Live
        PROVE  \E b \in 1 .. used :
                 /\ Start(b) <= boxes[k].ptr
                 /\ boxes[k].ptr + boxes[k].size <= Start(b) + BUFFER_SIZE
    <3>1. PICK n \in Small : n = boxes[k].size
      BY <2>2
    <3>2. PICK p \in Positions(lists, n) : Holds(boxes[k], lists, n, p)
      BY <2>2, <3>1
    <3>3. PICK c : c = lists[Bin(n)]
      OBVIOUS
    <3>4. /\ c \in Buffers(used) /\ p \in PositionsIn(c, Slot(n))
          /\ Slot(n) \in SlotSizes /\ n \in Nat /\ n <= Slot(n)
          /\ Slot(n) \in Nat
      BY <2>1, <3>3, SlotFits, SlotSizesNat DEF Layout, Positions
    <3>5. PICK q \in 1 .. Len(c), d \in Nat : Spot(c, Slot(n), p, q, d)
      BY <2>1, <3>4, SlotAt
    <3>6. /\ d + Slot(n) <= 1536 /\ AddressIn(c, p) = Start(c[q]) + d
      BY <3>5 DEF Spot
    <3>7. PICK b \in 1 .. used : b = c[q]
      BY <2>1, <3>4, BuffersOf
    <3>8. Start(b) \in Nat
      <4>1. b \in Nat
        BY <2>1
      <4> QED  BY <4>1, StartNat
    <3>9. boxes[k].ptr = Start(b) + d
      BY <3>2, <3>3, <3>6, <3>7 DEF Holds, At
    <3>10. d + n <= 1536
      BY <3>4, <3>6
    <3> QED  BY <3>1, <3>4, <3>8, <3>9, <3>10 DEF BUFFER_SIZE
  <2>4. ASSUME NEW k \in Live, NEW l \in Live \ {k}
        PROVE  \/ boxes[k].ptr + boxes[k].size <= boxes[l].ptr
               \/ boxes[l].ptr + boxes[l].size <= boxes[k].ptr
    <3>1. PICK n \in Small : n = boxes[k].size
      BY <2>2
    <3>2. PICK m \in Small : m = boxes[l].size
      BY <2>2
    <3>3. PICK p \in Positions(lists, n) : Holds(boxes[k], lists, n, p)
      BY <2>2, <3>1
    <3>4. PICK r \in Positions(lists, m) : Holds(boxes[l], lists, m, r)
      BY <2>2, <3>2
    <3>5. Bin(n) # Bin(m) \/ p # r
      <4>1. SUFFICES ASSUME Bin(n) = Bin(m)  PROVE p # r
        OBVIOUS
      <4>2. r \in Positions(lists, n) /\ Holds(boxes[l], lists, n, r)
        BY <3>4, <4>1, SameBin DEF Holds
      <4>3. /\ k \in 1 .. Len(boxes) /\ l \in 1 .. Len(boxes) /\ k # l
            /\ k \in Nat /\ l \in Nat
        BY <2>1, <2>2
      <4>4. Before(boxes[k], boxes[l], lists) \/ Before(boxes[l], boxes[k], lists)
        BY <2>1, <4>3 DEF BoxesOK
      <4>5. p < r \/ r < p
        BY <3>3, <4>2, <4>4 DEF Before
      <4>6. p \in Nat
        BY <2>1, PositionAt
      <4> QED  BY <4>5, <4>6
    <3>6. Apart(At(lists, n, p), Slot(n), At(lists, m, r), Slot(m))
      BY <2>1, <3>5, SlotsApart
    <3>7. /\ boxes[k].ptr = At(lists, n, p) /\ boxes[l].ptr = At(lists, m, r)
      BY <3>3, <3>4 DEF Holds
    <3>8. /\ At(lists, n, p) \in Nat /\ Slot(n) \in Nat /\ n \in Nat
          /\ n <= Slot(n)
      BY <2>1, PositionAt, SlotFits
    <3>9. /\ At(lists, m, r) \in Nat /\ Slot(m) \in Nat /\ m \in Nat
          /\ m <= Slot(m)
      BY <2>1, PositionAt, SlotFits
    <3> QED  BY <3>1, <3>2, <3>6, <3>7, <3>8, <3>9 DEF Apart
  <2> QED  BY <2>3, <2>4 DEF NoOverlap
<1> QED  BY <1>1, ArenaInvariance, PTL

(* No box's value is overwritten by a link of a free list or by another    *)
(* value, and alloc never takes a value for a link.                        *)
THEOREM ValuesKept == ASSUME OneSize PROVE Spec => []ValuesIntact
<1>1. ASSUME ArenaInv  PROVE ValuesIntact
  <2>1. /\ Layout(lists, used) /\ MemoryOK(memory, used)
        /\ BoxesOK(boxes, lists, memory) /\ FreeOK(head, lists, memory, boxes)
    BY <1>1 DEF ArenaInv, Inv
  <2>2. \A k \in Live : \A a \in Blocks(boxes[k].ptr, boxes[k].size) :
          memory[a] = Data
    BY <2>1 DEF BoxesOK, Kept, Live
  <2>3. ASSUME NEW i \in Bins, head[i] \in Address
        PROVE  memory[head[i]] # Data
    <3>1. head[i] # 0
      <4>1. PICK b \in 1 .. MaxBuffers, k \in InBuffer :
              head[i] = Start(b) + Granule * k
        BY <2>3 DEF Address
      <4>2. /\ b \in Nat /\ b > 0 /\ k \in Nat /\ Granule \in Nat
        BY <4>1, ArenaAssumption DEF InBuffer, BUFFER_SIZE
      <4>3. Start(b) = 3072 * b /\ Granule * k \in Nat
        BY <4>2, StartOf
      <4>4. Start(b) \in Nat /\ Start(b) > 0
        BY <4>2, <4>3
      <4> QED  BY <4>1, <4>3, <4>4
    <3>2. PICK n \in Small : Bin(n) = i
      BY <2>1, <3>1 DEF FreeOK
    <3>3. PICK t \in Ends(lists, n) :
            FreeFrom(head[i], lists, memory, boxes, n, t)
      BY <2>1, <3>2 DEF FreeOK
    <3> QED  BY <2>1, <3>1, <3>3, HeadOf
  <2> QED  BY <2>2, <2>3 DEF ValuesIntact
<1> QED  BY <1>1, ArenaInvariance, PTL

(* A bin gets a new buffer only when every slot of its buffers is in use.  *)
THEOREM NoSlotIsLost == ASSUME OneSize PROVE Spec => NoSlotLost
<1>1. ASSUME ArenaInv, [Next]_vars, NEW n \in Sizes, AllocExtend(n),
             NEW q \in 1 .. Len(lists[Bin(n)]), NEW d \in Offsets(Slot(n))
      PROVE  \E k \in Live : boxes[k].ptr = Start(lists[Bin(n)][q]) + d
  <2>1. /\ Layout(lists, used) /\ MemoryOK(memory, used)
        /\ FreeOK(head, lists, memory, boxes) /\ used \in Nat
    BY <1>1, ArenaAssumption DEF ArenaInv, Inv, Layout
  <2>2. n \in Small /\ Bin(n) \in Bins /\ Slot(n) \in SlotSizes /\ head[Bin(n)] = 0
    BY <1>1, SlotFits DEF AllocExtend, Small
  <2>3. PICK t \in Ends(lists, n) :
          FreeFrom(head[Bin(n)], lists, memory, boxes, n, t)
    BY <2>1, <2>2 DEF FreeOK
  <2>4. t = EndOf(lists, n)
    BY <2>1, <2>2, <2>3, HeadOf
  <2>5. PICK c : c = lists[Bin(n)]
    OBVIOUS
  <2>6. PICK x \in 1 .. Len(c) : x = q
    BY <2>5
  <2>7. c \in Buffers(used)
    BY <2>1, <2>2, <2>5 DEF Layout
  <2>8. x \in Nat /\ d \in Nat /\ d < 1536 /\ Multiple(d, Slot(n))
    BY <2>1, <2>7, BuffersOf DEF Offsets, BUFFER_SIZE
  <2>9. PICK p \in Nat : p = 1536 * x + d
    BY <2>8
  <2>10. p \in PositionsIn(c, Slot(n)) /\ AddressIn(c, p) = Start(c[x]) + d
    BY <2>1, <2>2, <2>7, <2>8, <2>9, PositionOf
  <2>11. p \in Positions(lists, n) /\ At(lists, n, p) = Start(lists[Bin(n)][q]) + d
    BY <2>5, <2>6, <2>10 DEF Positions, At
  <2>12. p < t /\ At(lists, n, p) > 0
    BY <2>1, <2>2, <2>4, <2>11, PositionAt
  <2>13. PICK k \in 1 .. Len(boxes) : Holds(boxes[k], lists, n, p)
    BY <2>3, <2>11, <2>12 DEF FreeFrom, Taken
  <2>14. k \in Live
    BY <2>12, <2>13 DEF Live, Holds
  <2> QED  BY <2>11, <2>13, <2>14 DEF Holds
<1> DEFINE A == \A n \in Sizes : AllocExtend(n) =>
             \A q \in 1 .. Len(lists[Bin(n)]), d \in Offsets(Slot(n)) :
               \E k \in Live :
                 boxes[k].ptr = Start(lists[Bin(n)][q]) + d
<1>2. ArenaInv /\ [Next]_vars => [A]_vars
  BY <1>1
<1> QED  BY <1>2, ArenaInvariance, PTL DEF Spec, NoSlotLost
==============================================================================
