-------------------------------- MODULE Arena --------------------------------
(***************************************************************************)
(* The arena of the feature unsafe_arena (src/lace/src/arena/unsafe.rs): a *)
(* worker's allocator of task inputs.  Each bin cuts 1536-byte buffers     *)
(* into slots of one size; the free slots of a bin form a list threaded    *)
(* through their first word, at whose end a word 0 means that the slots    *)
(* behind it have never been used.  Memory is modelled word by word, so    *)
(* that a write to a live box that hits the list, or the reverse, shows.   *)
(*                                                                         *)
(* Boxes are released as Lace does: spawn allocates, the sync of the same  *)
(* task releases, and tasks are synced newest first.                       *)
(***************************************************************************)
EXTENDS Integers, Sequences, Stacks

CONSTANTS Sizes,        \* the sizes in bytes of the types that are allocated
          Granule,      \* memory is modelled in blocks of this many bytes
          MaxBuffers,   \* bound on the buffers
          MaxBoxes      \* bound on the boxes alive

BUFFER_SIZE == 1536

(* bin(): the slot size and the index of the bin, per range of sizes.      *)
BinSizes == <<8, 16, 24, 32, 48, 64, 96, 128, 192, 256, 384, 512, 768>>
BinIndex == <<0,  1,  2,  3,  4,  5,  6,   7,   8,   9,   9,  10,  11>>

Bins == 0 .. 11

OnHeap(n) == n > 768
Row(n)    == CHOOSE k \in 1 .. Len(BinSizes) :
               n <= BinSizes[k] /\ (k > 1 => n > BinSizes[k - 1])
Slot(n)   == BinSizes[Row(n)]
Bin(n)    == BinIndex[Row(n)]

ASSUME ArenaAssumption ==
  /\ Sizes \subseteq Nat /\ MaxBuffers \in Nat /\ MaxBoxes \in Nat
  /\ Granule \in Nat \ {0}
  /\ \A n \in Sizes : ~OnHeap(n) =>
       \E k \in 1 .. Slot(n) : Slot(n) = Granule * k

(* Buffers lie apart from each other; no address is 0.                     *)
Start(b) == 2 * BUFFER_SIZE * b
InBuffer == {k \in 0 .. BUFFER_SIZE : Granule * k < BUFFER_SIZE}
Address  == {Start(b) + Granule * k : b \in 1 .. MaxBuffers, k \in InBuffer}
Blocks(p, size) == {a \in Address : p <= a /\ a < p + size}

Data == -1    \* a block holding part of a value

VARIABLES head,     \* the next free slot of each bin, 0: extend the bin
          lists,    \* the buffers of each bin, the current one last
          memory,   \* the first word of each block
          boxes,    \* the boxes alive, oldest first; ptr 0 is on the heap
          used      \* how many buffers have been allocated

vars == <<head, lists, memory, boxes, used>>

Init == /\ head = [i \in Bins |-> 0]
        /\ lists = [i \in Bins |-> <<>>]
        /\ memory = [a \in Address |-> 0]
        /\ boxes = <<>>
        /\ used = 0

Current(i) == lists[i][Len(lists[i])]
End(i)     == Start(Current(i)) + BUFFER_SIZE

(* Mutant of Bump: the next slot may begin where the buffer ends.          *)
BumpOver(h, i, size) == IF h + size <= End(i)' THEN h + size ELSE 0

(* alloc_bump: the slot after h, if that fits into the current buffer.     *)
Bump(h, i, size) == IF h + 2 * size <= End(i)' THEN h + size ELSE 0

(* The first word of the slot h: a value there, or whatever lies outside   *)
(* of the buffers, is read as some address.                                *)
NextOf(h) == IF h \notin Address \/ memory[h] = Data THEN Address
             ELSE {memory[h]}

(* alloc puts the value into slot h and moves the head on.                 *)
Place(n, h) ==
  LET i == Bin(n)
  IN  /\ \E next \in NextOf(h) :
           head' = [head EXCEPT ![i] = IF next = 0 THEN Bump(h, i, Slot(n))
                                       ELSE next]
      /\ memory' = [a \in Address |-> IF a \in Blocks(h, n) THEN Data
                                      ELSE memory[a]]
      /\ boxes' = Append(boxes, [ptr |-> h, size |-> n])

AllocHeap(n) ==
  /\ OnHeap(n) /\ Len(boxes) < MaxBoxes
  /\ boxes' = Append(boxes, [ptr |-> 0, size |-> n])
  /\ UNCHANGED <<head, lists, memory, used>>

(* alloc with a free slot *)
AllocSlot(n) ==
  /\ ~OnHeap(n) /\ Len(boxes) < MaxBoxes
  /\ head[Bin(n)] # 0
  /\ UNCHANGED <<lists, used>>
  /\ Place(n, head[Bin(n)])

(* alloc with extend_bin (and init_bin): a zeroed buffer in front of the   *)
(* others.                                                                 *)
AllocExtend(n) ==
  /\ ~OnHeap(n) /\ Len(boxes) < MaxBoxes
  /\ head[Bin(n)] = 0 /\ used < MaxBuffers
  /\ used' = used + 1
  /\ lists' = [lists EXCEPT ![Bin(n)] = Append(@, used + 1)]
  /\ Place(n, Start(used + 1))

(* Mutants of Release: the slot is not linked to the rest of the list, or  *)
(* it is not put back.                                                     *)
ReleaseUnlinked ==
  /\ boxes # <<>>
  /\ LET box == Newest(boxes)
     IN  /\ boxes' = Older(boxes)
         /\ head' = IF box.ptr = 0 THEN head
                    ELSE [head EXCEPT ![Bin(box.size)] = box.ptr]
  /\ UNCHANGED <<lists, memory, used>>

ReleaseLeaks ==
  /\ boxes # <<>>
  /\ boxes' = Older(boxes)
  /\ UNCHANGED <<head, lists, memory, used>>

(* dealloc, take: the newest box goes in front of the free list.           *)
Release ==
  /\ boxes # <<>>
  /\ LET box == Newest(boxes)
         i   == Bin(box.size)
     IN  /\ boxes' = Older(boxes)
         /\ IF box.ptr = 0 THEN UNCHANGED <<head, memory>>
            ELSE /\ memory' = [memory EXCEPT ![box.ptr] = head[i]]
                 /\ head' = [head EXCEPT ![i] = box.ptr]
  /\ UNCHANGED <<lists, used>>

Next == \/ \E n \in Sizes : AllocHeap(n) \/ AllocSlot(n) \/ AllocExtend(n)
        \/ Release

Spec == Init /\ [][Next]_vars

------------------------------------------------------------------------------
(* Properties                                                              *)

Live == {k \in 1 .. Len(boxes) : boxes[k].ptr # 0}

(* No two boxes share a byte, and each lies inside one buffer.             *)
NoOverlap ==
  \A k \in Live :
    /\ \E b \in 1 .. used :
         /\ Start(b) <= boxes[k].ptr
         /\ boxes[k].ptr + boxes[k].size <= Start(b) + BUFFER_SIZE
    /\ \A l \in Live \ {k} :
         \/ boxes[k].ptr + boxes[k].size <= boxes[l].ptr
         \/ boxes[l].ptr + boxes[l].size <= boxes[k].ptr

(* The values of all live boxes are still as written, and the free list is *)
(* never read from a value.                                                *)
ValuesIntact ==
  /\ \A k \in Live : \A a \in Blocks(boxes[k].ptr, boxes[k].size) :
       memory[a] = Data
  /\ \A i \in Bins : head[i] \in Address => memory[head[i]] # Data

(* A bin gets another buffer only when every slot of those it has is in    *)
(* use: releasing leaks no slot, bumping skips none.                       *)
Multiple(d, size) == d % size = 0
Offsets(size)     == {d \in 0 .. BUFFER_SIZE - 1 : Multiple(d, size)}

NoSlotLost ==
  [][ \A n \in Sizes : AllocExtend(n) =>
        \A q \in 1 .. Len(lists[Bin(n)]), d \in Offsets(Slot(n)) :
          \E k \in Live :
            boxes[k].ptr = Start(lists[Bin(n)][q]) + d ]_vars
==============================================================================
