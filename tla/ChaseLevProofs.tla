---------------------------- MODULE ChaseLevProofs ----------------------------
(***************************************************************************)
(* Proofs about ChaseLev, for any number of thieves, boxes, slots and      *)
(* tokens.  ChaseInv is inductive: the deque is the newest part of the     *)
(* tokens, and each token below it is with one thief or finished.          *)
(***************************************************************************)
EXTENDS ChaseLev, TLAPS

LEMMA NoneIsNoEntry == None \notin Entry /\ None.box \notin Boxes
BY NamesAssumption DEF None, Entry

(* How many tokens, entries and stolen tokens there are.                   *)
LEMMA Counts ==
  ASSUME TypeOK, TokenInv
  PROVE  /\ Len(tokens) \in Nat /\ Len(queue) \in Nat /\ Gone \in Nat
         /\ Gone + Len(queue) = Len(tokens)
         /\ \A i \in 1 .. Len(tokens) :
              tokens[i] \in Entry /\ tokens[i].box \in Boxes
                                  /\ tokens[i].slot \in Slots
<1>1. tokens \in Seq(Entry) /\ queue \in Seq(Entry)
  BY DEF TypeOK
<1>2. Len(tokens) \in Nat /\ Len(queue) \in Nat
  BY <1>1
<1>3. Gone \in Nat /\ Gone + Len(queue) = Len(tokens)
  BY <1>2 DEF Gone, TokenInv
<1>4. \A i \in 1 .. Len(tokens) : tokens[i] \in Entry
  BY <1>1
<1> QED  BY <1>2, <1>3, <1>4 DEF Entry

(* What a thief has is one stolen token, and of no other thief.            *)
LEMMA LootIsStolen ==
  ASSUME ChaseInv, NEW p \in Thieves, loot[p] # None
  PROVE  /\ \E i \in 1 .. Gone : loot[p] = tokens[i]
         /\ loot[p] \in Entry /\ loot[p].box \in Boxes /\ loot[p].slot \in Slots
         /\ tpc[p] \in {"announce", "input", "run", "finish"}
         /\ flag[loot[p].slot] \in {THIEF_NONE, p}
         /\ flag[loot[p].slot] # THIEF_FINISHED
         /\ \A i \in 1 .. Len(tokens) :
              \/ tokens[i].slot = loot[p].slot
              \/ tokens[i].box = loot[p].box
              => loot[p] = tokens[i] /\ i \in 1 .. Gone
         /\ \A q \in Thieves \ {p} : loot[q] # None =>
              loot[q].slot # loot[p].slot /\ loot[q].box # loot[p].box
<1>0. TypeOK /\ TokenInv /\ ThiefInv
  BY DEF ChaseInv
<1>1. PICK k \in 1 .. Gone : loot[p] = tokens[k]
  BY <1>0 DEF ThiefInv
<1>2. k \in 1 .. Len(tokens) /\ Gone \in Nat
  BY <1>0, <1>1, Counts
<1>3. /\ loot[p] \in Entry /\ loot[p].box \in Boxes /\ loot[p].slot \in Slots
  BY <1>0, <1>1, <1>2, Counts
<1>4. tpc[p] \in {"announce", "input", "run", "finish"}
  BY <1>0 DEF TypeOK, ThiefPC, ThiefInv
<1>5. /\ flag[loot[p].slot] \in {THIEF_NONE, p}
      /\ flag[loot[p].slot] # THIEF_FINISHED
  BY <1>0, <1>4, NamesAssumption DEF ThiefInv
<1>6. ASSUME NEW i \in 1 .. Len(tokens),
             \/ tokens[i].slot = loot[p].slot
             \/ tokens[i].box = loot[p].box
      PROVE  loot[p] = tokens[i] /\ i \in 1 .. Gone
  <2>1. i = k
    BY <1>0, <1>1, <1>2, <1>6 DEF TokenInv
  <2> QED  BY <1>1, <2>1
<1>7. ASSUME NEW q \in Thieves \ {p}, loot[q] # None
      PROVE  loot[q].slot # loot[p].slot /\ loot[q].box # loot[p].box
  <2>1. PICK j \in 1 .. Gone : loot[q] = tokens[j]
    BY <1>0, <1>7 DEF ThiefInv
  <2>2. loot[q] # loot[p]
    BY <1>0, <1>7 DEF ThiefInv
  <2>3. j \in 1 .. Len(tokens)
    BY <1>0, Counts
  <2> QED  BY <1>6, <2>1, <2>2, <2>3
<1> QED  BY <1>1, <1>3, <1>4, <1>5, <1>6, <1>7

------------------------------------------------------------------------------
(* The owner                                                               *)

(* A new token goes to the end of tokens and deque.                        *)
LEMMA PushFacts ==
  ASSUME ChaseInv, NEW b \in Boxes, NEW s \in Slots, Push(b, s)
  PROVE  LET e == [box |-> b, slot |-> s]
         IN  /\ e \in Entry
             /\ tokens' \in Seq(Entry) /\ queue' \in Seq(Entry)
             /\ Len(tokens') = Len(tokens) + 1 /\ Len(queue') = Len(queue) + 1
             /\ tokens'[Len(tokens) + 1] = e /\ queue'[Len(queue) + 1] = e
             /\ \A i \in 1 .. Len(tokens) : tokens'[i] = tokens[i]
             /\ \A i \in 1 .. Len(queue) : queue'[i] = queue[i]
             /\ Gone' = Gone
             /\ io[b] = "free" /\ io'[b] = "input"
             /\ \A c \in Boxes : c # b => io'[c] = io[c]
             /\ io' \in [Boxes -> {"free", "input", "empty", "output"}]
<1> DEFINE e == [box |-> b, slot |-> s]
<1>1. e \in Entry /\ tokens \in Seq(Entry) /\ queue \in Seq(Entry)
  BY DEF ChaseInv, TypeOK, Entry
<1>2. tokens' = Append(tokens, e) /\ queue' = Append(queue, e)
  BY DEF Push
<1> HIDE DEF e
<1>3. /\ tokens' \in Seq(Entry) /\ queue' \in Seq(Entry)
      /\ Len(tokens') = Len(tokens) + 1 /\ Len(queue') = Len(queue) + 1
      /\ tokens'[Len(tokens) + 1] = e /\ queue'[Len(queue) + 1] = e
      /\ \A i \in 1 .. Len(tokens) : tokens'[i] = tokens[i]
      /\ \A i \in 1 .. Len(queue) : queue'[i] = queue[i]
      /\ Len(tokens) \in Nat /\ Len(queue) \in Nat
  BY <1>1, <1>2, AppendOnTop
<1>4. Gone' = Gone
  BY <1>3 DEF Gone
<1>5. /\ io[b] = "free" /\ io'[b] = "input"
      /\ \A c \in Boxes : c # b => io'[c] = io[c]
      /\ io' \in [Boxes -> {"free", "input", "empty", "output"}]
  BY DEF Push, ChaseInv, TypeOK
<1> QED  BY <1>1, <1>3, <1>4, <1>5 DEF e

(* spawn, with a slot nobody knows whose flag nobody has written.          *)
LEMMA SpawnStep ==
  ASSUME ChaseInv, NEW b \in Boxes, NEW s \in Slots, Push(b, s),
         opc = "idle", Len(tokens) < Capacity,
         \A i \in 1 .. Len(tokens) : tokens[i].slot # s,
         \A i \in 1 .. Len(recycle') : recycle'[i] # s,
         recycle' \in Seq(Slots), Len(recycle') <= Len(recycle),
         \A i \in 1 .. Len(recycle') : recycle'[i] = recycle[i],
         flag'[s] = THIEF_NONE, \A r \in Slots : r # s => flag'[r] = flag[r],
         flag' \in [Slots -> Thieves \cup {THIEF_NONE, THIEF_FINISHED}],
         UNCHANGED <<owner, thieves>>
  PROVE  ChaseInv'
<1> DEFINE e == [box |-> b, slot |-> s]
           n == Len(tokens) + 1
<1>0. TypeOK /\ TokenInv /\ SlotInv /\ ThiefInv /\ OwnerInv
  BY DEF ChaseInv
<1>f. /\ e \in Entry
      /\ tokens' \in Seq(Entry) /\ queue' \in Seq(Entry)
      /\ Len(tokens') = n /\ Len(queue') = Len(queue) + 1
      /\ tokens'[n] = e /\ queue'[Len(queue) + 1] = e
      /\ \A i \in 1 .. Len(tokens) : tokens'[i] = tokens[i]
      /\ \A i \in 1 .. Len(queue) : queue'[i] = queue[i]
      /\ Gone' = Gone
      /\ io[b] = "free" /\ io'[b] = "input"
      /\ \A c \in Boxes : c # b => io'[c] = io[c]
      /\ io' \in [Boxes -> {"free", "input", "empty", "output"}]
  BY PushFacts
<1>g. /\ e.box = b /\ e.slot = s
      /\ UNCHANGED <<opc, taken, acquired, waiting, tpc, loot>>
  BY DEF owner, thieves
<1>n. /\ Len(tokens) \in Nat /\ Len(queue) \in Nat /\ Gone \in Nat
      /\ Gone + Len(queue) = Len(tokens) /\ Capacity \in Nat
  BY <1>0, Counts, CapacityAssumption
<1>b. /\ \A i \in 1 .. Len(tokens) : tokens[i].box \in Boxes \ {b}
      /\ \A i \in 1 .. Len(tokens) : tokens[i].slot \in Slots \ {s}
  <2>1. \A i \in 1 .. Len(tokens) :
          tokens[i].box \in Boxes /\ tokens[i].slot \in Slots
    BY <1>0, Counts
  <2>2. \A i \in 1 .. Len(tokens) : io[tokens[i].box] # "free"
    BY <1>0 DEF TokenInv
  <2> QED  BY <1>f, <2>1, <2>2
<1> HIDE DEF e
<1>1. TypeOK'
  BY <1>0, <1>f, <1>g DEF TypeOK
<1>2. TokenInv'
  <2>1. ASSUME NEW i \in 1 .. Len(queue')  PROVE queue'[i] = tokens'[Gone' + i]
    <3>1. CASE i = Len(queue) + 1
      BY <1>f, <1>n, <3>1
    <3>2. CASE i # Len(queue) + 1
      <4>1. i \in 1 .. Len(queue) /\ Gone + i \in 1 .. Len(tokens)
        BY <1>f, <1>n, <3>2
      <4> QED  BY <1>0, <1>f, <4>1 DEF TokenInv
    <3> QED  BY <3>1, <3>2
  <2>2. ASSUME NEW i \in 1 .. Len(tokens')
        PROVE  \/ i = n /\ tokens'[i] = e
               \/ i \in 1 .. Len(tokens) /\ tokens'[i] = tokens[i]
    <3>1. i = n \/ i \in 1 .. Len(tokens)
      BY <1>f, <1>n
    <3> QED  BY <1>f, <3>1
  <2>3. ASSUME NEW i \in 1 .. Len(tokens'), NEW j \in 1 .. Len(tokens'), i # j
        PROVE  tokens'[i].box # tokens'[j].box /\ tokens'[i].slot # tokens'[j].slot
    <3>1. CASE i = n
      <4>1. j \in 1 .. Len(tokens) /\ tokens'[j] = tokens[j]
        BY <2>2, <2>3, <3>1
      <4> QED  BY <1>b, <1>f, <1>g, <3>1, <4>1
    <3>2. CASE j = n
      <4>1. i \in 1 .. Len(tokens) /\ tokens'[i] = tokens[i]
        BY <2>2, <2>3, <3>2
      <4> QED  BY <1>b, <1>f, <1>g, <3>2, <4>1
    <3>3. CASE i # n /\ j # n
      <4>1. /\ i \in 1 .. Len(tokens) /\ tokens'[i] = tokens[i]
            /\ j \in 1 .. Len(tokens) /\ tokens'[j] = tokens[j]
        BY <2>2, <3>3
      <4> QED  BY <1>0, <2>3, <4>1 DEF TokenInv
    <3> QED  BY <3>1, <3>2, <3>3
  <2>4. ASSUME NEW i \in 1 .. Len(tokens')  PROVE io'[tokens'[i].box] # "free"
    BY <1>0, <1>b, <1>f, <1>g, <2>2 DEF TokenInv
  <2> QED  BY <1>f, <1>n, <2>1, <2>3, <2>4 DEF TokenInv
<1>3. SlotInv'
  <2>1. ASSUME NEW i \in 1 .. Len(recycle')
        PROVE  /\ flag'[recycle'[i]] = THIEF_NONE
               /\ \A j \in 1 .. Len(tokens') : tokens'[j].slot # recycle'[i]
               /\ \A j \in 1 .. Len(recycle') : i # j => recycle'[i] # recycle'[j]
    <3>1. i \in 1 .. Len(recycle) /\ recycle'[i] = recycle[i] /\ recycle[i] \in Slots
      BY <1>0, <1>1 DEF TypeOK
    <3>2. recycle[i] # s
      BY <3>1
    <3>3. ASSUME NEW j \in 1 .. Len(tokens')  PROVE tokens'[j].slot # recycle'[i]
      BY <1>0, <1>f, <1>g, <1>n, <3>1, <3>2 DEF SlotInv, Slotted
    <3>4. ASSUME NEW j \in 1 .. Len(recycle'), i # j  PROVE recycle'[i] # recycle'[j]
      <4>1. j \in 1 .. Len(recycle)
        BY <1>0, <1>1 DEF TypeOK
      <4> QED  BY <1>0, <3>1, <3>4, <4>1 DEF SlotInv
    <3> QED  BY <1>0, <3>1, <3>2, <3>3, <3>4 DEF SlotInv
  <2>2. ASSUME NEW i \in 1 .. Len(tokens'), ~Stolen(i)'
        PROVE  flag'[tokens'[i].slot] = THIEF_NONE /\ io'[tokens'[i].box] = "input"
    <3>1. CASE i = n
      BY <1>f, <1>g, <3>1
    <3>2. CASE i # n
      <4>1. i \in 1 .. Len(tokens)
        BY <1>f, <1>n, <3>2
      <4>2. ~Stolen(i) /\ tokens'[i] = tokens[i]
        BY <1>f, <2>2, <4>1 DEF Stolen
      <4>3. flag[tokens[i].slot] = THIEF_NONE /\ io[tokens[i].box] = "input"
        BY <1>0, <4>1, <4>2 DEF SlotInv
      <4> QED  BY <1>b, <1>f, <4>1, <4>2, <4>3
    <3> QED  BY <3>1, <3>2
  <2> QED  BY <2>1, <2>2 DEF SlotInv, Slotted
<1>4. ThiefInv'
  <2>1. ASSUME NEW i \in 1 .. Len(tokens'), Stolen(i)'
        PROVE  \/ \E p \in Thieves : loot'[p] = tokens'[i]
               \/ /\ flag'[tokens'[i].slot] = THIEF_FINISHED
                  /\ io'[tokens'[i].box] = "output"
    <3>1. i \in 1 .. Len(tokens) /\ Stolen(i) /\ tokens'[i] = tokens[i]
      BY <1>f, <1>n, <2>1 DEF Stolen
    <3> QED  BY <1>0, <1>b, <1>f, <1>g, <3>1 DEF ThiefInv
  <2>2. ASSUME NEW p \in Thieves, loot[p] # None
        PROVE  /\ flag'[loot[p].slot] = flag[loot[p].slot]
               /\ io'[loot[p].box] = io[loot[p].box]
               /\ \E i \in 1 .. Gone' : loot[p] = tokens'[i]
    <3>1. PICK i \in 1 .. Gone : loot[p] = tokens[i]
      BY <2>2, LootIsStolen
    <3>2. i \in 1 .. Len(tokens)
      BY <1>n
    <3> QED  BY <1>b, <1>f, <3>1, <3>2
  <2> QED  BY <1>0, <1>g, <2>1, <2>2 DEF ThiefInv
<1>5. OwnerInv'
  <2>1. taken = None
    BY <1>0 DEF OwnerInv
  <2>2. ASSUME NEW r \in waiting
        PROVE  /\ flag'[r] # THIEF_NONE
               /\ \E i \in 1 .. Gone' : tokens'[i].slot = r
    <3>1. PICK i \in 1 .. Gone : tokens[i].slot = r
      BY <1>0 DEF OwnerInv
    <3>2. i \in 1 .. Len(tokens)
      BY <1>n
    <3>3. flag[r] # THIEF_NONE
      BY <1>0 DEF OwnerInv
    <3> QED  BY <1>b, <1>f, <3>1, <3>2, <3>3
  <2> QED  BY <1>0, <1>g, <2>1, <2>2 DEF OwnerInv
<1> QED  BY <1>1, <1>2, <1>3, <1>4, <1>5 DEF ChaseInv

(* The two kinds of slots a spawn uses.                                    *)
LEMMA SpawnSteps ==
  ASSUME ChaseInv, SpawnRecycled \/ SpawnFresh
  PROVE  ChaseInv'
<1>0. TypeOK /\ SlotInv
  BY DEF ChaseInv
<1>1. CASE SpawnRecycled
  <2>1. PICK b \in Boxes : Push(b, Newest(recycle))
    BY <1>1 DEF SpawnRecycled
  <2>2. /\ Len(recycle) \in Nat \ {0} /\ Newest(recycle) \in Slots
        /\ recycle' \in Seq(Slots) /\ Len(recycle') = Len(recycle) - 1
        /\ \A i \in 1 .. Len(recycle) - 1 : recycle'[i] = recycle[i]
    <3>1. recycle \in Seq(Slots) /\ recycle # <<>> /\ recycle' = Older(recycle)
      BY <1>0, <1>1 DEF SpawnRecycled, TypeOK
    <3> QED  BY <3>1, OlderProperties
  <2>3. \A i \in 1 .. Len(tokens) : tokens[i].slot # Newest(recycle)
    BY <1>0, <2>2 DEF SlotInv, Slotted, Newest
  <2>4. \A i \in 1 .. Len(recycle') : recycle'[i] # Newest(recycle)
    BY <1>0, <2>2 DEF SlotInv, Newest
  <2>5. flag' = flag /\ flag[Newest(recycle)] = THIEF_NONE
    BY <1>0, <1>1, <2>2 DEF SpawnRecycled, SlotInv, Newest
  <2>6. /\ opc = "idle" /\ Len(tokens) < Capacity
        /\ UNCHANGED <<owner, thieves>>
        /\ flag \in [Slots -> Thieves \cup {THIEF_NONE, THIEF_FINISHED}]
    BY <1>0, <1>1 DEF SpawnRecycled, TypeOK
  <2>7. Len(recycle') <= Len(recycle)
    BY <2>2
  <2> QED  BY <2>1, <2>2, <2>3, <2>4, <2>5, <2>6, <2>7, SpawnStep
<1>2. CASE SpawnFresh
  <2>1. PICK b \in Boxes, s \in Slots :
          Unused(s) /\ Push(b, s) /\ flag' = [flag EXCEPT ![s] = THIEF_NONE]
    BY <1>2 DEF SpawnFresh
  <2>2. /\ recycle' = recycle /\ recycle \in Seq(Slots)
        /\ Len(recycle) \in Nat
    BY <1>0, <1>2 DEF SpawnFresh, TypeOK
  <2>3. /\ \A i \in 1 .. Len(tokens) : tokens[i].slot # s
        /\ \A i \in 1 .. Len(recycle') : recycle'[i] # s
    BY <2>1, <2>2 DEF Unused
  <2>4. /\ flag'[s] = THIEF_NONE /\ \A r \in Slots : r # s => flag'[r] = flag[r]
        /\ flag' \in [Slots -> Thieves \cup {THIEF_NONE, THIEF_FINISHED}]
    BY <1>0, <2>1 DEF TypeOK
  <2>5. /\ opc = "idle" /\ Len(tokens) < Capacity
        /\ UNCHANGED <<owner, thieves>>
    BY <1>2 DEF SpawnFresh
  <2>6. /\ Len(recycle') <= Len(recycle)
        /\ \A i \in 1 .. Len(recycle') : recycle'[i] = recycle[i]
    BY <2>2
  <2> QED  BY <2>1, <2>2, <2>3, <2>4, <2>5, <2>6, SpawnStep
<1> QED  BY <1>1, <1>2

(* The newest token, when it is still in the deque.                        *)
LEMMA PopFacts ==
  ASSUME ChaseInv, tokens # <<>>
  PROVE  /\ Newest(tokens) = tokens[Len(tokens)] /\ Newest(tokens) \in Entry
         /\ Newest(tokens).slot \in Slots /\ Newest(tokens).box \in Boxes
         /\ Len(tokens) \in Nat \ {0}
         /\ Older(tokens) \in Seq(Entry) /\ Len(Older(tokens)) = Len(tokens) - 1
         /\ \A i \in 1 .. Len(tokens) - 1 :
              /\ Older(tokens)[i] = tokens[i]
              /\ tokens[i].slot # Newest(tokens).slot
              /\ tokens[i].box # Newest(tokens).box
         /\ queue # <<>> =>
              /\ Newest(queue) = Newest(tokens)
              /\ Older(queue) \in Seq(Entry) /\ Len(queue) \in Nat \ {0}
              /\ Len(Older(queue)) = Len(queue) - 1
              /\ \A i \in 1 .. Len(queue) - 1 : Older(queue)[i] = queue[i]
<1>0. TypeOK /\ TokenInv
  BY DEF ChaseInv
<1>1. tokens \in Seq(Entry) /\ queue \in Seq(Entry)
  BY <1>0 DEF TypeOK
<1>2. /\ Len(tokens) \in Nat \ {0} /\ Newest(tokens) \in Entry
      /\ Older(tokens) \in Seq(Entry) /\ Len(Older(tokens)) = Len(tokens) - 1
      /\ \A i \in 1 .. Len(tokens) - 1 : Older(tokens)[i] = tokens[i]
  BY <1>1, OlderProperties
<1>3. Newest(tokens) = tokens[Len(tokens)]
  BY DEF Newest
<1>4. Newest(tokens).slot \in Slots /\ Newest(tokens).box \in Boxes
  BY <1>2 DEF Entry
<1>5. ASSUME NEW i \in 1 .. Len(tokens) - 1
      PROVE  /\ tokens[i].slot # Newest(tokens).slot
             /\ tokens[i].box # Newest(tokens).box
  <2>1. i \in 1 .. Len(tokens) /\ Len(tokens) \in 1 .. Len(tokens) /\ i # Len(tokens)
    BY <1>2
  <2> QED  BY <1>0, <1>3, <2>1 DEF TokenInv
<1>6. ASSUME queue # <<>>
      PROVE  /\ Newest(queue) = Newest(tokens)
             /\ Older(queue) \in Seq(Entry) /\ Len(queue) \in Nat \ {0}
             /\ Len(Older(queue)) = Len(queue) - 1
             /\ \A i \in 1 .. Len(queue) - 1 : Older(queue)[i] = queue[i]
  <2>1. /\ Older(queue) \in Seq(Entry) /\ Len(queue) \in Nat \ {0}
        /\ Len(Older(queue)) = Len(queue) - 1
        /\ \A i \in 1 .. Len(queue) - 1 : Older(queue)[i] = queue[i]
    BY <1>1, <1>6, OlderProperties
  <2>2. queue[Len(queue)] = tokens[Gone + Len(queue)]
    BY <1>0, <2>1 DEF TokenInv
  <2>3. Gone + Len(queue) = Len(tokens)
    BY <1>0, Counts
  <2> QED  BY <1>3, <2>1, <2>2, <2>3 DEF Newest
<1> QED  BY <1>2, <1>3, <1>4, <1>5, <1>6

(* The owner takes back what nobody stole.                                 *)
LEMMA SyncPoppedStep ==
  ASSUME ChaseInv, SyncPopped
  PROVE  ChaseInv'
<1> DEFINE e == Newest(tokens)
<1>0. TypeOK /\ TokenInv /\ SlotInv /\ ThiefInv /\ OwnerInv
  BY DEF ChaseInv
<1>g. /\ tokens # <<>> /\ queue # <<>> /\ opc = "idle" /\ e.slot \notin waiting
      /\ tokens' = Older(tokens) /\ queue' = Older(queue)
      /\ recycle' = Append(recycle, e.slot)
      /\ io' = [io EXCEPT ![e.box] = "free"]
      /\ UNCHANGED <<flag, opc, taken, acquired, waiting, tpc, loot>>
  BY DEF SyncPopped, CanSync, owner, thieves
<1>f. /\ e = tokens[Len(tokens)] /\ e \in Entry
      /\ e.slot \in Slots /\ e.box \in Boxes
      /\ Len(tokens) \in Nat \ {0}
      /\ tokens' \in Seq(Entry) /\ Len(tokens') = Len(tokens) - 1
      /\ Len(queue) \in Nat \ {0} /\ queue' \in Seq(Entry)
      /\ Len(queue') = Len(queue) - 1
      /\ \A i \in 1 .. Len(queue') : queue'[i] = queue[i]
  BY <1>g, PopFacts
<1>t. ASSUME NEW i \in 1 .. Len(tokens')
      PROVE  /\ i \in 1 .. Len(tokens) /\ tokens'[i] = tokens[i]
             /\ tokens[i].slot # e.slot /\ tokens[i].box # e.box
             /\ tokens[i].box \in Boxes
  <2>1. i \in 1 .. Len(tokens) - 1 /\ i \in 1 .. Len(tokens)
    BY <1>f
  <2> QED  BY <1>0, <1>g, <2>1, PopFacts, Counts
<1>n. /\ Gone \in Nat /\ Gone' = Gone /\ Gone + Len(queue) = Len(tokens)
      /\ Gone <= Len(tokens')
  BY <1>0, <1>f, Counts DEF Gone
<1>i. /\ io'[e.box] = "free" /\ \A c \in Boxes : c # e.box => io'[c] = io[c]
      /\ io' \in [Boxes -> {"free", "input", "empty", "output"}]
  BY <1>0, <1>f, <1>g DEF TypeOK
<1>r. /\ recycle' \in Seq(Slots) /\ Len(recycle) \in Nat
      /\ Len(recycle') = Len(recycle) + 1
      /\ recycle'[Len(recycle) + 1] = e.slot
      /\ \A i \in 1 .. Len(recycle) : recycle'[i] = recycle[i]
  BY <1>0, <1>f, <1>g, AppendOnTop DEF TypeOK
<1> HIDE DEF e
<1>1. TypeOK'
  BY <1>0, <1>f, <1>g, <1>i, <1>r DEF TypeOK
<1>2. TokenInv'
  <2>1. ASSUME NEW i \in 1 .. Len(queue')  PROVE queue'[i] = tokens'[Gone' + i]
    <3>1. i \in 1 .. Len(queue) /\ Gone + i \in 1 .. Len(tokens')
      BY <1>f, <1>n
    <3> QED  BY <1>0, <1>f, <1>n, <1>t, <3>1 DEF TokenInv
  <2>2. ASSUME NEW i \in 1 .. Len(tokens'), NEW j \in 1 .. Len(tokens'), i # j
        PROVE  tokens'[i].box # tokens'[j].box /\ tokens'[i].slot # tokens'[j].slot
    BY <1>0, <1>t, <2>2 DEF TokenInv
  <2>3. ASSUME NEW i \in 1 .. Len(tokens')  PROVE io'[tokens'[i].box] # "free"
    BY <1>0, <1>t, <1>i DEF TokenInv
  <2>4. Len(tokens') <= Capacity /\ Len(queue') <= Len(tokens')
    BY <1>0, <1>f, CapacityAssumption DEF TokenInv
  <2> QED  BY <2>1, <2>2, <2>3, <2>4 DEF TokenInv
<1>3. SlotInv'
  <2>0. /\ flag[e.slot] = THIEF_NONE
        /\ \A j \in 1 .. Len(recycle) : recycle[j] # e.slot
    <3>1. Len(tokens) \in 1 .. Len(tokens) /\ ~Stolen(Len(tokens))
      BY <1>f, <1>n DEF Stolen
    <3> QED  BY <1>0, <1>f, <3>1 DEF SlotInv, Slotted
  <2>1. ASSUME NEW i \in 1 .. Len(recycle')
        PROVE  /\ flag[recycle'[i]] = THIEF_NONE
               /\ \A j \in 1 .. Len(tokens') : tokens'[j].slot # recycle'[i]
    <3>1. CASE i = Len(recycle) + 1
      BY <1>r, <1>t, <2>0, <3>1
    <3>2. CASE i # Len(recycle) + 1
      <4>1. i \in 1 .. Len(recycle) /\ recycle'[i] = recycle[i]
        BY <1>r, <3>2
      <4> QED  BY <1>0, <1>t, <4>1 DEF SlotInv, Slotted
    <3> QED  BY <3>1, <3>2
  <2>2. ASSUME NEW i \in 1 .. Len(recycle'), NEW j \in 1 .. Len(recycle'), i # j
        PROVE  recycle'[i] # recycle'[j]
    <3>1. \A k \in 1 .. Len(recycle') : k # Len(recycle) + 1 =>
            k \in 1 .. Len(recycle) /\ recycle'[k] = recycle[k]
      BY <1>r
    <3> QED  BY <1>0, <1>r, <2>0, <2>2, <3>1 DEF SlotInv
  <2>3. ASSUME NEW i \in 1 .. Len(tokens'), ~Stolen(i)'
        PROVE  flag[tokens'[i].slot] = THIEF_NONE /\ io'[tokens'[i].box] = "input"
    <3>1. ~Stolen(i)
      BY <1>n, <2>3 DEF Stolen
    <3> QED  BY <1>0, <1>i, <1>t, <3>1 DEF SlotInv
  <2> QED  BY <1>g, <2>1, <2>2, <2>3 DEF SlotInv, Slotted
<1>4. ThiefInv'
  <2>1. ASSUME NEW i \in 1 .. Len(tokens'), Stolen(i)'
        PROVE  \/ \E p \in Thieves : loot'[p] = tokens'[i]
               \/ /\ flag'[tokens'[i].slot] = THIEF_FINISHED
                  /\ io'[tokens'[i].box] = "output"
    <3>1. Stolen(i)
      BY <1>n, <2>1 DEF Stolen
    <3> QED  BY <1>0, <1>g, <1>i, <1>t, <3>1 DEF ThiefInv
  <2>2. ASSUME NEW p \in Thieves, loot[p] # None
        PROVE  /\ io'[loot[p].box] = io[loot[p].box]
               /\ \E i \in 1 .. Gone' : loot[p] = tokens'[i]
    <3>1. PICK i \in 1 .. Gone : loot[p] = tokens[i]
      BY <2>2, LootIsStolen
    <3>2. i \in 1 .. Len(tokens')
      BY <1>f, <1>n
    <3> QED  BY <1>i, <1>n, <1>t, <3>1, <3>2
  <2> QED  BY <1>0, <1>g, <2>1, <2>2 DEF ThiefInv
<1>5. OwnerInv'
  <2>1. taken = None
    BY <1>0, <1>g DEF OwnerInv
  <2>2. ASSUME NEW r \in waiting
        PROVE  \E i \in 1 .. Gone' : tokens'[i].slot = r
    <3>1. PICK i \in 1 .. Gone : tokens[i].slot = r
      BY <1>0 DEF OwnerInv
    <3>2. i \in 1 .. Len(tokens')
      BY <1>f, <1>n
    <3> QED  BY <1>n, <1>t, <3>1, <3>2
  <2> QED  BY <1>0, <1>g, <2>1, <2>2 DEF OwnerInv
<1> QED  BY <1>1, <1>2, <1>3, <1>4, <1>5 DEF ChaseInv

(* pop finds nothing, and the flag is read.                                *)
LEMMA LoadStep ==
  ASSUME ChaseInv, SyncStolen \/ LoadFirst \/ LoadAgain
  PROVE  ChaseInv'
<1> DEFINE e == Newest(tokens)
<1>0. TypeOK /\ TokenInv /\ SlotInv /\ ThiefInv /\ OwnerInv
  BY DEF ChaseInv
<1>g. UNCHANGED <<queue, flag, io, tokens, recycle, taken, tpc, loot>>
  BY DEF SyncStolen, LoadFirst, LoadAgain, thieves
<1>u. UNCHANGED <<Gone, Slotted>> /\ \A i : Stolen(i)' <=> Stolen(i)
  BY <1>g DEF Gone, Slotted, Stolen
<1>k. TokenInv' /\ SlotInv' /\ ThiefInv'
  BY <1>0, <1>g, <1>u DEF TokenInv, SlotInv, ThiefInv
<1>t. tokens # <<>>
  BY <1>0 DEF SyncStolen, CanSync, LoadFirst, LoadAgain, OwnerInv
<1>e. /\ e.slot \in Slots /\ e = tokens[Len(tokens)]
      /\ Len(tokens) \in Nat \ {0} /\ Gone \in Nat
      /\ Gone + Len(queue) = Len(tokens) /\ Len(queue) \in Nat
  BY <1>0, <1>t, PopFacts, Counts
<1>q. queue = <<>> => Gone = Len(tokens)
  BY <1>e
<1>1. CASE SyncStolen
  <2>1. TypeOK'
    BY <1>0, <1>g, <1>1 DEF SyncStolen, TypeOK, OwnerPC
  <2>2. OwnerInv'
    BY <1>0, <1>g, <1>u, <1>1 DEF SyncStolen, CanSync, OwnerInv
  <2> QED  BY <1>k, <2>1, <2>2 DEF ChaseInv
<1>2. CASE LoadFirst
  <2>0. opc = "spin" /\ queue = <<>> /\ e.slot \notin waiting /\ taken = None
    BY <1>0, <1>2 DEF LoadFirst, OwnerInv
  <2>1. CASE flag[e.slot] = THIEF_NONE /\ UNCHANGED <<opc, waiting, acquired>>
    BY <1>0, <1>g, <1>k, <1>u, <2>1 DEF ChaseInv, TypeOK, OwnerInv
  <2>2. CASE /\ flag[e.slot] = THIEF_FINISHED /\ opc' = "reset"
             /\ acquired' = ~WeakLoads /\ UNCHANGED waiting
    <3>1. TypeOK'
      BY <1>0, <1>g, <2>2 DEF TypeOK, OwnerPC
    <3>2. OwnerInv'
      BY <1>0, <1>g, <1>t, <1>u, <2>0, <2>2 DEF OwnerInv
    <3> QED  BY <1>k, <3>1, <3>2 DEF ChaseInv
  <2>3. CASE /\ flag[e.slot] \in Thieves /\ opc' = "idle"
             /\ waiting' = waiting \cup {e.slot} /\ UNCHANGED acquired
    <3>1. TypeOK'
      BY <1>0, <1>e, <1>g, <2>3 DEF TypeOK, OwnerPC
    <3>2. ASSUME NEW s \in waiting'
          PROVE  /\ flag[s] # THIEF_NONE
                 /\ \E i \in 1 .. Gone : tokens[i].slot = s
      <4>1. CASE s = e.slot
        <5>1. Len(tokens) \in 1 .. Gone
          BY <1>e, <1>q, <2>0
        <5> QED  BY <1>e, <2>3, <4>1, <5>1, NamesAssumption
      <4>2. CASE s \in waiting
        BY <1>0, <4>2 DEF OwnerInv
      <4> QED  BY <2>3, <4>1, <4>2
    <3>3. OwnerInv'
      BY <1>0, <1>g, <1>u, <2>0, <2>3, <3>2 DEF OwnerInv
    <3> QED  BY <1>k, <3>1, <3>3 DEF ChaseInv
  <2> QED  BY <1>2, <2>1, <2>2, <2>3 DEF LoadFirst
<1>3. CASE LoadAgain
  <2>0. /\ opc = "idle" /\ e.slot \in waiting /\ opc' = "reset"
        /\ acquired' = TRUE /\ flag[e.slot] = THIEF_FINISHED
        /\ waiting' = waiting \ {e.slot}
    BY <1>3 DEF LoadAgain
  <2>1. queue = <<>>
    <3>1. PICK i \in 1 .. Gone : tokens[i].slot = e.slot
      BY <1>0, <2>0 DEF OwnerInv
    <3>2. i \in 1 .. Len(tokens) /\ Len(tokens) \in 1 .. Len(tokens)
      BY <1>e
    <3>3. i = Len(tokens)
      BY <1>0, <1>e, <3>1, <3>2 DEF TokenInv
    <3>4. queue \in Seq(Entry) /\ Len(queue) = 0
      BY <1>0, <1>e, <3>1, <3>3 DEF TypeOK
    <3> QED  BY <3>4
  <2>2. TypeOK'
    BY <1>0, <1>g, <2>0 DEF TypeOK, OwnerPC
  <2>3. OwnerInv'
    BY <1>0, <1>g, <1>t, <1>u, <2>0, <2>1 DEF OwnerInv
  <2> QED  BY <1>k, <2>2, <2>3 DEF ChaseInv
<1> QED  BY <1>1, <1>2, <1>3

(* The newest token, its thief having finished, is given up.               *)
LEMMA ResetStep ==
  ASSUME ChaseInv, Reset
  PROVE  ChaseInv'
<1> DEFINE e == Newest(tokens)
<1>0. TypeOK /\ TokenInv /\ SlotInv /\ ThiefInv /\ OwnerInv
  BY DEF ChaseInv
<1>g. /\ opc = "reset" /\ opc' = "output" /\ taken' = e
      /\ flag' = [flag EXCEPT ![e.slot] = THIEF_NONE]
      /\ tokens' = Older(tokens)
      /\ UNCHANGED <<queue, io, recycle, acquired, waiting, tpc, loot>>
  BY DEF Reset, thieves
<1>o. /\ tokens # <<>> /\ queue = <<>> /\ e.slot \notin waiting
      /\ flag[e.slot] = THIEF_FINISHED /\ taken = None
  BY <1>0, <1>g DEF OwnerInv
<1>f. /\ e = tokens[Len(tokens)] /\ e \in Entry
      /\ e.slot \in Slots /\ e.box \in Boxes
      /\ Len(tokens) \in Nat \ {0}
      /\ tokens' \in Seq(Entry) /\ Len(tokens') = Len(tokens) - 1
      /\ \A i \in 1 .. Len(tokens') : tokens'[i] = tokens[i]
  BY <1>g, <1>o, PopFacts
<1>t. ASSUME NEW i \in 1 .. Len(tokens')
      PROVE  /\ i \in 1 .. Len(tokens) /\ tokens'[i] = tokens[i]
             /\ tokens[i].slot # e.slot /\ tokens[i].box # e.box
             /\ tokens[i].slot \in Slots
  <2>1. i \in 1 .. Len(tokens) - 1 /\ i \in 1 .. Len(tokens)
    BY <1>f
  <2> QED  BY <1>0, <1>f, <1>o, <2>1, PopFacts, Counts
<1>n. Gone = Len(tokens) /\ Gone' = Len(tokens') /\ Len(queue) = 0
  <2>1. Len(queue) = 0
    BY <1>o
  <2> QED  BY <1>f, <1>g, <2>1 DEF Gone
<1>l. \A p \in Thieves : loot[p] # None =>
        loot[p].slot # e.slot /\ loot[p] # e
  <2>1. ASSUME NEW p \in Thieves, loot[p] # None  PROVE loot[p].slot # e.slot
    BY <1>o, <2>1, LootIsStolen
  <2> QED  BY <2>1
<1>i. /\ flag'[e.slot] = THIEF_NONE
      /\ \A r \in Slots : r # e.slot => flag'[r] = flag[r]
      /\ flag' \in [Slots -> Thieves \cup {THIEF_NONE, THIEF_FINISHED}]
  BY <1>0, <1>f, <1>g DEF TypeOK
<1>b. io[e.box] = "output"
  <2>1. Len(tokens) \in 1 .. Len(tokens) /\ Stolen(Len(tokens))
    BY <1>f, <1>n DEF Stolen
  <2>2. ~ \E p \in Thieves : loot[p] = e
    BY <1>f, <1>l, NoneIsNoEntry
  <2> QED  BY <1>0, <1>f, <2>1, <2>2 DEF ThiefInv
<1> HIDE DEF e
<1>1. TypeOK'
  BY <1>0, <1>f, <1>g, <1>i DEF TypeOK, OwnerPC
<1>2. TokenInv'
  <2>1. ASSUME NEW i \in 1 .. Len(tokens'), NEW j \in 1 .. Len(tokens'), i # j
        PROVE  tokens'[i].box # tokens'[j].box /\ tokens'[i].slot # tokens'[j].slot
    BY <1>0, <1>t, <2>1 DEF TokenInv
  <2>2. ASSUME NEW i \in 1 .. Len(tokens')  PROVE io[tokens'[i].box] # "free"
    BY <1>0, <1>t DEF TokenInv
  <2>3. Len(tokens') <= Capacity /\ Len(queue) <= Len(tokens')
    BY <1>0, <1>f, <1>n, CapacityAssumption DEF TokenInv
  <2> QED  BY <1>g, <1>n, <2>1, <2>2, <2>3 DEF TokenInv
<1>3. SlotInv'
  <2>1. ASSUME NEW i \in 1 .. Len(recycle)
        PROVE  /\ flag'[recycle[i]] = THIEF_NONE
               /\ \A j \in 1 .. Len(tokens') : tokens'[j].slot # recycle[i]
    <3>1. recycle[i] \in Slots /\ recycle[i] # e.slot
      BY <1>0, <1>f DEF TypeOK, SlotInv, Slotted
    <3> QED  BY <1>0, <1>i, <1>t, <3>1 DEF SlotInv, Slotted
  <2>2. \A i \in 1 .. Len(tokens') : Stolen(i)'
    BY <1>n DEF Stolen
  <2> QED  BY <1>0, <1>g, <2>1, <2>2 DEF SlotInv, Slotted
<1>4. ThiefInv'
  <2>1. ASSUME NEW i \in 1 .. Len(tokens'), Stolen(i)'
        PROVE  \/ \E p \in Thieves : loot'[p] = tokens'[i]
               \/ /\ flag'[tokens'[i].slot] = THIEF_FINISHED
                  /\ io'[tokens'[i].box] = "output"
    <3>1. Stolen(i)
      BY <1>n, <1>t DEF Stolen
    <3> QED  BY <1>0, <1>g, <1>i, <1>t, <3>1 DEF ThiefInv
  <2>2. ASSUME NEW p \in Thieves, loot[p] # None
        PROVE  /\ flag'[loot[p].slot] = flag[loot[p].slot]
               /\ \E i \in 1 .. Gone' : loot[p] = tokens'[i]
    <3>1. PICK i \in 1 .. Gone : loot[p] = tokens[i]
      BY <2>2, LootIsStolen
    <3>2. i # Len(tokens)
      BY <1>f, <1>l, <2>2, <3>1
    <3>3. i \in 1 .. Len(tokens')
      BY <1>f, <1>n, <3>2
    <3>4. loot[p].slot \in Slots /\ loot[p].slot # e.slot
      BY <1>t, <3>1, <3>3
    <3> QED  BY <1>i, <1>n, <1>t, <3>1, <3>3, <3>4
  <2> QED  BY <1>0, <1>g, <2>1, <2>2 DEF ThiefInv
<1>5. OwnerInv'
  <2>1. ASSUME NEW r \in waiting
        PROVE  /\ flag'[r] # THIEF_NONE
               /\ \E i \in 1 .. Gone' : tokens'[i].slot = r
    <3>1. PICK i \in 1 .. Gone : tokens[i].slot = r
      BY <1>0 DEF OwnerInv
    <3>2. i # Len(tokens)
      BY <1>f, <1>o, <3>1
    <3>3. i \in 1 .. Len(tokens')
      BY <1>f, <1>n, <3>2
    <3>4. r \in Slots /\ r # e.slot /\ flag[r] # THIEF_NONE
      BY <1>0, <1>t, <3>1, <3>3 DEF OwnerInv
    <3> QED  BY <1>i, <1>n, <1>t, <3>1, <3>3, <3>4
  <2>2. taken' # None
    BY <1>f, <1>g, NoneIsNoEntry
  <2> QED  BY <1>0, <1>b, <1>f, <1>g, <1>t, <2>1, <2>2 DEF OwnerInv
<1> QED  BY <1>1, <1>2, <1>3, <1>4, <1>5 DEF ChaseInv

(* The output leaves its box.                                              *)
LEMMA TakeOutputStep ==
  ASSUME ChaseInv, TakeOutput
  PROVE  ChaseInv'
<1>0. TypeOK /\ TokenInv /\ SlotInv /\ ThiefInv /\ OwnerInv
  BY DEF ChaseInv
<1>g. /\ opc = "output" /\ opc' \in {"idle", "panicked"}
      /\ io' = [io EXCEPT ![taken.box] = "free"]
      /\ taken' = None /\ acquired' = FALSE
      /\ UNCHANGED <<queue, flag, tokens, recycle, waiting, tpc, loot>>
  BY DEF TakeOutput, thieves
<1>u. UNCHANGED <<Gone, Slotted>> /\ \A i : Stolen(i)' <=> Stolen(i)
  BY <1>g DEF Gone, Slotted, Stolen
<1>t. /\ taken # None /\ taken.box \in Boxes /\ io[taken.box] = "output"
      /\ \A i \in 1 .. Len(tokens) : tokens[i].box # taken.box
  BY <1>0, <1>g DEF OwnerInv, TypeOK, Entry
<1>i. /\ \A c \in Boxes : c # taken.box => io'[c] = io[c]
      /\ io' \in [Boxes -> {"free", "input", "empty", "output"}]
  BY <1>0, <1>g, <1>t DEF TypeOK
<1>b. \A i \in 1 .. Len(tokens) : io'[tokens[i].box] = io[tokens[i].box]
  BY <1>0, <1>i, <1>t, Counts
<1>l. \A p \in Thieves : loot[p] # None => io'[loot[p].box] = io[loot[p].box]
  <2>1. ASSUME NEW p \in Thieves, loot[p] # None
        PROVE  io'[loot[p].box] = io[loot[p].box]
    <3>1. PICK i \in 1 .. Gone : loot[p] = tokens[i]
      BY <2>1, LootIsStolen
    <3>2. i \in 1 .. Len(tokens)
      BY <1>0, Counts
    <3> QED  BY <1>b, <3>1, <3>2
  <2> QED  BY <2>1
<1>1. TypeOK'
  BY <1>0, <1>g, <1>i DEF TypeOK, OwnerPC
<1>2. TokenInv' /\ SlotInv'
  BY <1>0, <1>b, <1>g, <1>u DEF TokenInv, SlotInv
<1>3. ThiefInv'
  BY <1>0, <1>b, <1>g, <1>l, <1>u DEF ThiefInv
<1>4. ~WeakLoads => opc' # "panicked"
  BY <1>0, <1>g, <1>t DEF OwnerInv, TakeOutput, Readable
<1>5. OwnerInv'
  BY <1>0, <1>4, <1>g, <1>u DEF OwnerInv
<1> QED  BY <1>1, <1>2, <1>3, <1>5 DEF ChaseInv

------------------------------------------------------------------------------
(* The thieves                                                             *)

(* The oldest entry goes from the deque to one thief.                      *)
LEMMA StealStep ==
  ASSUME ChaseInv, NEW p \in Thieves, Steal(p)
  PROVE  ChaseInv'
<1> DEFINE e == tokens[Gone + 1]
<1>0. TypeOK /\ TokenInv /\ SlotInv /\ ThiefInv /\ OwnerInv
  BY DEF ChaseInv
<1>g. /\ queue # <<>> /\ tpc[p] = "idle"
      /\ tpc' = [tpc EXCEPT ![p] = "announce"]
      /\ loot' = [loot EXCEPT ![p] = Head(queue)] /\ queue' = Tail(queue)
      /\ UNCHANGED <<flag, io, tokens, recycle, opc, taken, acquired, waiting>>
  BY DEF Steal, ThiefAt, owner
<1>f. /\ queue \in Seq(Entry) /\ Len(queue) \in Nat \ {0}
      /\ Head(queue) = queue[1] /\ queue' \in Seq(Entry)
      /\ Len(queue') = Len(queue) - 1
      /\ \A i \in 1 .. Len(queue') : queue'[i] = queue[i + 1]
  <2>1. queue \in Seq(Entry)
    BY <1>0 DEF TypeOK
  <2> QED  BY <1>g, <2>1
<1>n. /\ Gone \in Nat /\ Gone + Len(queue) = Len(tokens)
      /\ Len(tokens) \in Nat /\ Gone' = Gone + 1 /\ Gone' <= Len(tokens)
  BY <1>0, <1>f, <1>g, Counts DEF Gone
<1>e. /\ Head(queue) = e /\ e \in Entry /\ e # None
      /\ e.slot \in Slots /\ e.box \in Boxes
      /\ flag[e.slot] = THIEF_NONE /\ io[e.box] = "input"
  <2>1. 1 \in 1 .. Len(queue) /\ Gone + 1 \in 1 .. Len(tokens)
    BY <1>f, <1>n
  <2>2. ~Stolen(Gone + 1)
    BY <1>n DEF Stolen
  <2>3. Head(queue) = e
    BY <1>0, <1>f, <2>1 DEF TokenInv
  <2> QED  BY <1>0, <2>1, <2>2, <2>3, Counts, NoneIsNoEntry DEF SlotInv
<1>l. /\ loot[p] = None /\ loot'[p] = e /\ tpc'[p] = "announce"
      /\ \A q \in Thieves \ {p} : loot'[q] = loot[q] /\ tpc'[q] = tpc[q]
  BY <1>0, <1>e, <1>g DEF TypeOK, ThiefInv
<1>o. ASSUME NEW q \in Thieves \ {p}, loot[q] # None  PROVE loot[q] # e
  <2>1. PICK i \in 1 .. Gone : loot[q] = tokens[i]
    BY <1>o, LootIsStolen
  <2>2. i # Gone + 1 /\ i \in 1 .. Len(tokens) /\ Gone + 1 \in 1 .. Len(tokens)
    BY <1>f, <1>n
  <2> QED  BY <1>0, <2>1, <2>2 DEF TokenInv
<1>s. \A i : i \in 1 .. Gone' <=> i \in 1 .. Gone \/ i = Gone + 1
  BY <1>n
<1> HIDE DEF e
<1>1. TypeOK'
  BY <1>0, <1>e, <1>f, <1>g DEF TypeOK, ThiefPC
<1>2. TokenInv'
  <2>1. ASSUME NEW i \in 1 .. Len(queue')  PROVE queue'[i] = tokens[Gone' + i]
    <3>1. i + 1 \in 1 .. Len(queue) /\ Gone + (i + 1) = Gone' + i
      BY <1>f, <1>n
    <3>2. queue[i + 1] = tokens[Gone + (i + 1)]
      BY <1>0, <3>1 DEF TokenInv
    <3> QED  BY <1>f, <3>1, <3>2
  <2>2. Len(queue') <= Len(tokens)
    BY <1>f, <1>n
  <2> QED  BY <1>0, <1>g, <2>1, <2>2 DEF TokenInv
<1>3. SlotInv'
  <2>1. ASSUME NEW i \in 1 .. Len(tokens), ~Stolen(i)'  PROVE ~Stolen(i)
    BY <1>s, <2>1 DEF Stolen
  <2> QED  BY <1>0, <1>g, <2>1 DEF SlotInv, Slotted
<1>4. ThiefInv'
  <2>1. ASSUME NEW i \in 1 .. Len(tokens), Stolen(i)'
        PROVE  \/ \E q \in Thieves : loot'[q] = tokens[i]
               \/ flag[tokens[i].slot] = THIEF_FINISHED /\ io[tokens[i].box] = "output"
    <3>1. CASE i = Gone + 1
      BY <1>l, <3>1 DEF e
    <3>2. CASE i # Gone + 1
      <4>1. Stolen(i)
        BY <1>s, <2>1, <3>2 DEF Stolen
      <4>2. CASE flag[tokens[i].slot] = THIEF_FINISHED /\ io[tokens[i].box] = "output"
        BY <4>2
      <4>3. CASE \E q \in Thieves : loot[q] = tokens[i]
        <5>1. PICK q \in Thieves : loot[q] = tokens[i]
          BY <4>3
        <5>2. tokens[i] # None
          BY <1>0, Counts, NoneIsNoEntry
        <5>3. q # p
          BY <1>l, <5>1, <5>2
        <5> QED  BY <1>l, <5>1, <5>3
      <4> QED  BY <1>0, <4>1, <4>2, <4>3 DEF ThiefInv
    <3> QED  BY <3>1, <3>2
  <2>2. \E i \in 1 .. Gone' : loot'[p] = tokens[i]
    BY <1>l, <1>s DEF e
  <2>3. ASSUME NEW q \in Thieves \ {p}
        PROVE  /\ tpc'[q] = "idle" <=> loot'[q] = None
               /\ loot'[q] # None => \E i \in 1 .. Gone' : loot'[q] = tokens[i]
               /\ tpc'[q] = "announce" => flag[loot'[q].slot] = THIEF_NONE
               /\ tpc'[q] \in {"input", "run", "finish"} => flag[loot'[q].slot] = q
               /\ tpc'[q] \in {"announce", "input"} => io[loot'[q].box] = "input"
               /\ tpc'[q] = "run" => io[loot'[q].box] = "empty"
               /\ tpc'[q] = "finish" => io[loot'[q].box] = "output"
    BY <1>0, <1>l, <1>s DEF ThiefInv
  <2>4. ASSUME NEW q \in Thieves, NEW r \in Thieves \ {q}, loot'[q] # None
        PROVE  loot'[r] # loot'[q]
    <3>1. CASE q = p
      BY <1>e, <1>l, <1>o, <2>4, <3>1
    <3>2. CASE r = p
      BY <1>e, <1>l, <1>o, <2>4, <3>2
    <3>3. CASE q # p /\ r # p
      BY <1>0, <1>l, <2>4, <3>3 DEF ThiefInv
    <3> QED  BY <3>1, <3>2, <3>3
  <2>5. ASSUME NEW q \in Thieves
        PROVE  /\ tpc'[q] = "idle" <=> loot'[q] = None
               /\ loot'[q] # None => \E i \in 1 .. Gone' : loot'[q] = tokens[i]
               /\ tpc'[q] = "announce" => flag[loot'[q].slot] = THIEF_NONE
               /\ tpc'[q] \in {"input", "run", "finish"} => flag[loot'[q].slot] = q
               /\ tpc'[q] \in {"announce", "input"} => io[loot'[q].box] = "input"
               /\ tpc'[q] = "run" => io[loot'[q].box] = "empty"
               /\ tpc'[q] = "finish" => io[loot'[q].box] = "output"
    <3>1. CASE q = p
      BY <1>e, <1>l, <2>2, <3>1
    <3> QED  BY <2>3, <3>1
  <2> QED  BY <1>g, <2>1, <2>4, <2>5 DEF ThiefInv
<1>5. OwnerInv'
  <2>1. opc \notin {"spin", "reset"}
    BY <1>0, <1>g DEF OwnerInv
  <2>2. ASSUME NEW r \in waiting
        PROVE  flag[r] # THIEF_NONE /\ \E i \in 1 .. Gone' : tokens[i].slot = r
    BY <1>0, <1>s DEF OwnerInv
  <2> QED  BY <1>0, <1>g, <2>1, <2>2 DEF OwnerInv
<1> QED  BY <1>1, <1>2, <1>3, <1>4, <1>5 DEF ChaseInv

(* A thief that works on its loot changes its flag and its box only.       *)
LEMMA WorkStep ==
  ASSUME ChaseInv, NEW p \in Thieves, loot[p] # None,
         UNCHANGED <<queue, tokens, recycle, owner, loot>>,
         flag' \in [Slots -> Thieves \cup {THIEF_NONE, THIEF_FINISHED}],
         io' \in [Boxes -> {"free", "input", "empty", "output"}],
         \A s \in Slots : s # loot[p].slot => flag'[s] = flag[s],
         \A b \in Boxes : b # loot[p].box => io'[b] = io[b],
         tpc' \in [Thieves -> ThiefPC],
         \A q \in Thieves \ {p} : tpc'[q] = tpc[q],
         flag'[loot[p].slot] = p, io'[loot[p].box] # "free",
         tpc'[p] \in {"input", "run", "finish"},
         tpc'[p] = "input" => io'[loot[p].box] = "input",
         tpc'[p] = "run" => io'[loot[p].box] = "empty",
         tpc'[p] = "finish" => io'[loot[p].box] = "output"
  PROVE  ChaseInv'
<1>0. TypeOK /\ TokenInv /\ SlotInv /\ ThiefInv /\ OwnerInv
  BY DEF ChaseInv
<1>g. UNCHANGED <<queue, tokens, recycle, opc, taken, acquired, waiting, loot>>
  BY DEF owner
<1>u. UNCHANGED <<Gone, Slotted>> /\ \A i : Stolen(i)' <=> Stolen(i)
  BY <1>g DEF Gone, Slotted, Stolen
<1>l. /\ loot[p].slot \in Slots /\ loot[p].box \in Boxes
      /\ flag[loot[p].slot] # THIEF_FINISHED
      /\ \E i \in 1 .. Gone : loot[p] = tokens[i]
      /\ \A i \in 1 .. Len(tokens) :
           tokens[i].slot = loot[p].slot \/ tokens[i].box = loot[p].box =>
             loot[p] = tokens[i] /\ i \in 1 .. Gone
      /\ \A q \in Thieves \ {p} : loot[q] # None =>
           /\ loot[q].slot # loot[p].slot /\ loot[q].box # loot[p].box
           /\ loot[q].slot \in Slots /\ loot[q].box \in Boxes
  BY LootIsStolen
<1>t. /\ \A i \in 1 .. Len(tokens) :
           tokens[i].slot \in Slots /\ tokens[i].box \in Boxes
      /\ Gone \in Nat /\ Gone <= Len(tokens) /\ Len(tokens) \in Nat
      /\ Len(queue) \in Nat /\ Gone + Len(queue) = Len(tokens)
  BY <1>0, Counts
<1>1. TypeOK'
  BY <1>0, <1>g DEF TypeOK
<1>2. TokenInv'
  <2>1. \A i \in 1 .. Len(tokens) : io'[tokens[i].box] # "free"
    BY <1>0, <1>t DEF TokenInv
  <2> QED  BY <1>0, <1>g, <1>u, <2>1 DEF TokenInv
<1>3. SlotInv'
  <2>1. ASSUME NEW i \in 1 .. Len(recycle)  PROVE flag'[recycle[i]] = THIEF_NONE
    <3>1. PICK k \in 1 .. Gone : loot[p] = tokens[k]
      BY <1>l
    <3>2. k \in 1 .. Len(tokens)
      BY <1>t
    <3>3. recycle[i] # loot[p].slot /\ recycle[i] \in Slots
      BY <1>0, <3>1, <3>2 DEF SlotInv, Slotted, TypeOK
    <3> QED  BY <1>0, <3>3 DEF SlotInv
  <2>2. ASSUME NEW i \in 1 .. Len(tokens), ~Stolen(i)
        PROVE  flag'[tokens[i].slot] = THIEF_NONE /\ io'[tokens[i].box] = "input"
    <3>1. tokens[i].slot # loot[p].slot /\ tokens[i].box # loot[p].box
      BY <1>l, <2>2 DEF Stolen
    <3> QED  BY <1>0, <1>t, <2>2, <3>1 DEF SlotInv
  <2> QED  BY <1>0, <1>g, <1>u, <2>1, <2>2 DEF SlotInv
<1>4. ThiefInv'
  <2>1. ASSUME NEW i \in 1 .. Len(tokens), Stolen(i)
        PROVE  \/ \E q \in Thieves : loot[q] = tokens[i]
               \/ flag'[tokens[i].slot] = THIEF_FINISHED /\ io'[tokens[i].box] = "output"
    <3>1. CASE tokens[i].slot = loot[p].slot \/ tokens[i].box = loot[p].box
      BY <1>l, <3>1
    <3>2. CASE ~(tokens[i].slot = loot[p].slot \/ tokens[i].box = loot[p].box)
      BY <1>0, <1>t, <2>1, <3>2 DEF ThiefInv
    <3> QED  BY <3>1, <3>2
  <2>2. ASSUME NEW q \in Thieves
        PROVE  /\ tpc'[q] = "idle" <=> loot[q] = None
               /\ loot[q] # None => \E i \in 1 .. Gone : loot[q] = tokens[i]
               /\ tpc'[q] = "announce" => flag'[loot[q].slot] = THIEF_NONE
               /\ tpc'[q] \in {"input", "run", "finish"} => flag'[loot[q].slot] = q
               /\ tpc'[q] \in {"announce", "input"} => io'[loot[q].box] = "input"
               /\ tpc'[q] = "run" => io'[loot[q].box] = "empty"
               /\ tpc'[q] = "finish" => io'[loot[q].box] = "output"
    <3>1. CASE q = p
      BY <1>l, <3>1
    <3>2. CASE q # p /\ loot[q] # None
      BY <1>0, <1>l, <3>2 DEF ThiefInv
    <3>3. CASE q # p /\ loot[q] = None
      BY <1>0, <3>3 DEF ThiefInv
    <3> QED  BY <3>1, <3>2, <3>3
  <2> QED  BY <1>0, <1>g, <1>u, <2>1, <2>2 DEF ThiefInv
<1>5. OwnerInv'
  <2>1. ASSUME NEW r \in waiting  PROVE flag'[r] # THIEF_NONE
    <3>1. r \in Slots /\ flag[r] # THIEF_NONE
      BY <1>0 DEF OwnerInv, TypeOK
    <3> QED  BY <3>1, NamesAssumption
  <2>2. ASSUME opc = "reset"  PROVE flag'[Newest(tokens).slot] = THIEF_FINISHED
    <3>1. tokens # <<>> /\ flag[Newest(tokens).slot] = THIEF_FINISHED
      BY <1>0, <2>2 DEF OwnerInv
    <3>2. Newest(tokens).slot \in Slots
      BY <3>1, PopFacts
    <3> QED  BY <1>l, <3>1, <3>2
  <2>3. ASSUME taken # None  PROVE io'[taken.box] = "output"
    <3>1. taken.box \in Boxes
      BY <1>0, <2>3 DEF TypeOK, Entry
    <3>2. taken.box # loot[p].box
      BY <1>0, <1>l, <1>t, <2>3 DEF OwnerInv
    <3> QED  BY <1>0, <2>3, <3>1, <3>2 DEF OwnerInv
  <2> QED  BY <1>0, <1>g, <1>u, <2>1, <2>2, <2>3 DEF OwnerInv
<1> QED  BY <1>1, <1>2, <1>3, <1>4, <1>5 DEF ChaseInv

(* Announcing itself, taking the input and writing the output are work.    *)
LEMMA WorkSteps ==
  ASSUME ChaseInv, NEW p \in Thieves,
         Announce(p) \/ TakeInput(p) \/ WriteOutput(p)
  PROVE  ChaseInv'
<1>0. TypeOK /\ ThiefInv
  BY DEF ChaseInv
<1>1. loot[p] # None /\ tpc[p] \in {"announce", "input", "run"}
  BY <1>0 DEF Announce, TakeInput, WriteOutput, ThiefAt, ThiefInv
<1>2. loot[p].slot \in Slots /\ loot[p].box \in Boxes
  BY <1>1, LootIsStolen
<1>3. CASE Announce(p)
  BY <1>0, <1>1, <1>2, <1>3, WorkStep
  DEF Announce, ThiefAt, TypeOK, ThiefPC, ThiefInv
<1>4. CASE TakeInput(p)
  <2>1. /\ UNCHANGED <<queue, tokens, recycle, owner, loot, flag>>
        /\ flag \in [Slots -> Thieves \cup {THIEF_NONE, THIEF_FINISHED}]
        /\ flag[loot[p].slot] = p
    BY <1>0, <1>4 DEF TakeInput, ThiefAt, TypeOK, ThiefInv
  <2>2. /\ io' \in [Boxes -> {"free", "input", "empty", "output"}]
        /\ io'[loot[p].box] = "empty"
        /\ \A b \in Boxes : b # loot[p].box => io'[b] = io[b]
    BY <1>0, <1>2, <1>4 DEF TakeInput, TypeOK
  <2>3. /\ tpc' \in [Thieves -> ThiefPC] /\ tpc'[p] = "run"
        /\ \A q \in Thieves \ {p} : tpc'[q] = tpc[q]
    BY <1>0, <1>4 DEF TakeInput, ThiefAt, TypeOK, ThiefPC
  <2> QED  BY <1>1, <2>1, <2>2, <2>3, WorkStep
<1>5. CASE WriteOutput(p)
  <2>1. /\ UNCHANGED <<queue, tokens, recycle, owner, loot, flag>>
        /\ flag \in [Slots -> Thieves \cup {THIEF_NONE, THIEF_FINISHED}]
        /\ flag[loot[p].slot] = p
    BY <1>0, <1>5 DEF WriteOutput, ThiefAt, TypeOK, ThiefInv
  <2>2. /\ io' \in [Boxes -> {"free", "input", "empty", "output"}]
        /\ io'[loot[p].box] = "output"
        /\ \A b \in Boxes : b # loot[p].box => io'[b] = io[b]
    BY <1>0, <1>2, <1>5 DEF WriteOutput, TypeOK
  <2>3. /\ tpc' \in [Thieves -> ThiefPC] /\ tpc'[p] = "finish"
        /\ \A q \in Thieves \ {p} : tpc'[q] = tpc[q]
    BY <1>0, <1>5 DEF WriteOutput, ThiefAt, TypeOK, ThiefPC
  <2> QED  BY <1>1, <2>1, <2>2, <2>3, WorkStep
<1> QED  BY <1>3, <1>4, <1>5

(* FINISHED: the token's task is done, and the thief has nothing left.     *)
LEMMA FinishStep ==
  ASSUME ChaseInv, NEW p \in Thieves, Finish(p)
  PROVE  ChaseInv'
<1> DEFINE e == loot[p]
<1>0. TypeOK /\ TokenInv /\ SlotInv /\ ThiefInv /\ OwnerInv
  BY DEF ChaseInv
<1>g. /\ tpc[p] = "finish" /\ tpc' = [tpc EXCEPT ![p] = "idle"]
      /\ flag' = [flag EXCEPT ![e.slot] = THIEF_FINISHED]
      /\ loot' = [loot EXCEPT ![p] = None]
      /\ UNCHANGED <<queue, io, tokens, recycle, opc, taken, acquired, waiting>>
  BY DEF Finish, ThiefAt, owner
<1>u. UNCHANGED <<Gone, Slotted>> /\ \A i : Stolen(i)' <=> Stolen(i)
  BY <1>g DEF Gone, Slotted, Stolen
<1>l. /\ e # None /\ e.slot \in Slots /\ e.box \in Boxes
      /\ flag[e.slot] # THIEF_FINISHED /\ io[e.box] = "output"
      /\ \E i \in 1 .. Gone : e = tokens[i]
      /\ \A i \in 1 .. Len(tokens) :
           tokens[i].slot = e.slot => e = tokens[i] /\ i \in 1 .. Gone
      /\ \A q \in Thieves \ {p} : loot[q] # None =>
           loot[q].slot # e.slot /\ loot[q].slot \in Slots
  BY <1>0, <1>g, LootIsStolen DEF ThiefInv
<1>t. /\ \A i \in 1 .. Len(tokens) : tokens[i].slot \in Slots
      /\ Gone \in Nat /\ Gone <= Len(tokens) /\ Len(tokens) \in Nat
  BY <1>0, Counts
<1>i. /\ flag'[e.slot] = THIEF_FINISHED
      /\ \A s \in Slots : s # e.slot => flag'[s] = flag[s]
      /\ flag' \in [Slots -> Thieves \cup {THIEF_NONE, THIEF_FINISHED}]
  BY <1>0, <1>g, <1>l DEF TypeOK
<1>p. /\ loot'[p] = None /\ tpc'[p] = "idle"
      /\ \A q \in Thieves \ {p} : loot'[q] = loot[q] /\ tpc'[q] = tpc[q]
  BY <1>0, <1>g DEF TypeOK
<1> HIDE DEF e
<1>1. TypeOK'
  BY <1>0, <1>g, <1>i DEF TypeOK, ThiefPC
<1>2. TokenInv'
  BY <1>0, <1>g, <1>u DEF TokenInv
<1>3. SlotInv'
  <2>1. ASSUME NEW i \in 1 .. Len(recycle)  PROVE flag'[recycle[i]] = THIEF_NONE
    <3>1. PICK k \in 1 .. Gone : e = tokens[k]
      BY <1>l
    <3>2. k \in 1 .. Len(tokens)
      BY <1>t
    <3>3. recycle[i] # e.slot /\ recycle[i] \in Slots
      BY <1>0, <3>1, <3>2 DEF SlotInv, Slotted, TypeOK
    <3> QED  BY <1>0, <1>i, <3>3 DEF SlotInv
  <2>2. ASSUME NEW i \in 1 .. Len(tokens), ~Stolen(i)
        PROVE  flag'[tokens[i].slot] = THIEF_NONE
    <3>1. tokens[i].slot # e.slot
      BY <1>l, <2>2 DEF Stolen
    <3> QED  BY <1>0, <1>i, <1>t, <2>2, <3>1 DEF SlotInv
  <2> QED  BY <1>0, <1>g, <1>u, <2>1, <2>2 DEF SlotInv
<1>4. ThiefInv'
  <2>1. ASSUME NEW i \in 1 .. Len(tokens), Stolen(i)
        PROVE  \/ \E q \in Thieves : loot'[q] = tokens[i]
               \/ flag'[tokens[i].slot] = THIEF_FINISHED /\ io[tokens[i].box] = "output"
    <3>1. CASE tokens[i].slot = e.slot
      <4>1. tokens[i] = e
        BY <1>l, <3>1
      <4> QED  BY <1>i, <1>l, <3>1, <4>1
    <3>2. CASE tokens[i].slot # e.slot
      <4>1. CASE flag[tokens[i].slot] = THIEF_FINISHED /\ io[tokens[i].box] = "output"
        BY <1>i, <1>t, <3>2, <4>1
      <4>2. CASE \E q \in Thieves : loot[q] = tokens[i]
        <5>1. PICK q \in Thieves : loot[q] = tokens[i]
          BY <4>2
        <5>2. q # p
          BY <3>2, <5>1 DEF e
        <5> QED  BY <1>p, <5>1, <5>2
      <4> QED  BY <1>0, <2>1, <4>1, <4>2 DEF ThiefInv
    <3> QED  BY <3>1, <3>2
  <2>2. ASSUME NEW q \in Thieves
        PROVE  /\ tpc'[q] = "idle" <=> loot'[q] = None
               /\ loot'[q] # None => \E i \in 1 .. Gone : loot'[q] = tokens[i]
               /\ tpc'[q] = "announce" => flag'[loot'[q].slot] = THIEF_NONE
               /\ tpc'[q] \in {"input", "run", "finish"} => flag'[loot'[q].slot] = q
               /\ tpc'[q] \in {"announce", "input"} => io[loot'[q].box] = "input"
               /\ tpc'[q] = "run" => io[loot'[q].box] = "empty"
               /\ tpc'[q] = "finish" => io[loot'[q].box] = "output"
    <3>1. CASE q = p
      BY <1>p, <3>1
    <3>2. CASE q # p /\ loot[q] # None
      BY <1>0, <1>i, <1>l, <1>p, <3>2 DEF ThiefInv
    <3>3. CASE q # p /\ loot[q] = None
      BY <1>0, <1>p, <3>3 DEF ThiefInv
    <3> QED  BY <3>1, <3>2, <3>3
  <2>3. ASSUME NEW q \in Thieves, NEW r \in Thieves \ {q}, loot'[q] # None
        PROVE  loot'[r] # loot'[q]
    BY <1>0, <1>p, <2>3 DEF ThiefInv
  <2> QED  BY <1>g, <1>u, <2>1, <2>2, <2>3 DEF ThiefInv
<1>5. OwnerInv'
  <2>1. ASSUME NEW r \in waiting  PROVE flag'[r] # THIEF_NONE
    <3>1. r \in Slots /\ flag[r] # THIEF_NONE
      BY <1>0 DEF OwnerInv, TypeOK
    <3> QED  BY <1>i, <3>1, NamesAssumption
  <2>2. ASSUME opc = "reset"  PROVE flag'[Newest(tokens).slot] = THIEF_FINISHED
    <3>1. tokens # <<>> /\ flag[Newest(tokens).slot] = THIEF_FINISHED
      BY <1>0, <2>2 DEF OwnerInv
    <3>2. Newest(tokens).slot \in Slots
      BY <3>1, PopFacts
    <3> QED  BY <1>i, <3>1, <3>2
  <2> QED  BY <1>0, <1>g, <1>u, <2>1, <2>2 DEF OwnerInv
<1> QED  BY <1>1, <1>2, <1>3, <1>4, <1>5 DEF ChaseInv

------------------------------------------------------------------------------
(* The invariant and what it gives                                         *)

(* Nothing is spawned or stolen at the beginning.                          *)
LEMMA ChaseInvInit == Init => ChaseInv
<1> SUFFICES ASSUME Init  PROVE ChaseInv
  OBVIOUS
<1>1. Gone = 0 /\ Slotted = {}
  BY DEF Init, Gone, Slotted
<1>2. TypeOK
  <2>1. queue \in Seq(Entry) /\ tokens \in Seq(Entry) /\ recycle \in Seq(Slots)
    BY DEF Init
  <2>2. /\ flag \in [Slots -> Thieves \cup {THIEF_NONE, THIEF_FINISHED}]
        /\ io \in [Boxes -> {"free", "input", "empty", "output"}]
    BY DEF Init
  <2>3. tpc \in [Thieves -> ThiefPC] /\ loot \in [Thieves -> Entry \cup {None}]
    BY DEF Init, ThiefPC
  <2> QED  BY <2>1, <2>2, <2>3 DEF Init, TypeOK, OwnerPC
<1>3. TokenInv /\ SlotInv
  BY <1>1, CapacityAssumption DEF Init, TokenInv, SlotInv
<1>4. ThiefInv /\ OwnerInv
  BY <1>1 DEF Init, ThiefInv, OwnerInv
<1> QED  BY <1>2, <1>3, <1>4 DEF ChaseInv

(* Every step of the owner and of a thief keeps the invariant.             *)
LEMMA ChaseInvStep == ChaseInv /\ [Next]_vars => ChaseInv'
<1> SUFFICES ASSUME ChaseInv, [Next]_vars  PROVE ChaseInv'
  OBVIOUS
<1>1. CASE UNCHANGED vars
  <2>1. /\ TypeOK' /\ TokenInv' /\ OwnerInv'
        /\ UNCHANGED <<Gone, Slotted>> /\ \A i : Stolen(i)' <=> Stolen(i)
    BY <1>1 DEF vars, owner, thieves, ChaseInv, TypeOK, TokenInv, OwnerInv,
                Gone, Slotted, Stolen
  <2>2. SlotInv' /\ ThiefInv'
    BY <1>1, <2>1 DEF vars, owner, thieves, ChaseInv, SlotInv, ThiefInv
  <2> QED  BY <2>1, <2>2 DEF ChaseInv
<1>2. CASE SpawnRecycled \/ SpawnFresh
  BY <1>2, SpawnSteps
<1>3. CASE OwnerInside \/ Sync
  BY <1>3, LoadStep, ResetStep, TakeOutputStep, SyncPoppedStep
  DEF OwnerInside, Sync
<1>4. ASSUME NEW p \in Thieves, Steal(p) \/ ThiefInside(p)
      PROVE  ChaseInv'
  BY <1>4, StealStep, WorkSteps, FinishStep DEF ThiefInside
<1> QED  BY <1>1, <1>2, <1>3, <1>4 DEF Next, StealNothing

(* Tokens, deque, flags and boxes agree in every state.                    *)
THEOREM ChaseInvariance == Spec => []ChaseInv
BY ChaseInvInit, ChaseInvStep, PTL DEF Spec

(* The assertion of sync holds, and a sync that finds nothing to pop has a *)
(* thief to wait for.                                                      *)
THEOREM ChaseSyncsOwnTask == Spec => []SyncFindsOwnTask
<1>1. ASSUME ChaseInv, CanSync  PROVE SyncFindsOwnTask
  <2>0. TypeOK /\ TokenInv /\ SlotInv /\ ThiefInv
    BY <1>1 DEF ChaseInv
  <2>1. tokens # <<>> /\ Newest(tokens) = tokens[Len(tokens)]
        /\ Len(tokens) \in 1 .. Len(tokens)
    BY <1>1, PopFacts DEF CanSync
  <2>2. Len(queue) \in Nat /\ Gone \in Nat /\ Gone + Len(queue) = Len(tokens)
    BY <2>0, Counts
  <2>3. CASE queue # <<>>
    <3>1. Newest(queue) = Newest(tokens) /\ Len(queue) # 0
      BY <1>1, <2>1, <2>3, PopFacts
    <3>2. ~Stolen(Len(tokens))
      BY <2>2, <3>1 DEF Stolen
    <3> QED  BY <2>0, <2>1, <2>3, <3>1, <3>2 DEF SlotInv, SyncFindsOwnTask
  <2>4. CASE queue = <<>>
    <3>1. Stolen(Len(tokens))
      BY <2>1, <2>2, <2>4 DEF Stolen
    <3> QED  BY <2>0, <2>1, <2>4, <3>1 DEF ThiefInv, SyncFindsOwnTask
  <2> QED  BY <2>3, <2>4
<1>2. ChaseInv => SyncFindsOwnTask
  BY <1>1 DEF SyncFindsOwnTask
<1> QED  BY <1>2, ChaseInvariance, PTL

(* Nobody else touches the box a thief works in.                           *)
THEOREM ChaseBoxIsExclusive == Spec => []BoxExclusive
<1>1. ASSUME ChaseInv  PROVE BoxExclusive
  <2>0. TypeOK /\ TokenInv /\ OwnerInv
    BY <1>1 DEF ChaseInv
  <2>n. /\ Gone \in Nat /\ Len(queue) \in Nat /\ Len(tokens) \in Nat
        /\ Gone + Len(queue) = Len(tokens)
    BY <2>0, Counts
  <2>1. ASSUME NEW p \in Thieves, loot[p] # None
        PROVE  /\ io[loot[p].box] # "free"
               /\ \A i \in 1 .. Len(queue) : queue[i].box # loot[p].box
               /\ taken.box # loot[p].box
               /\ \A q \in Thieves \ {p} : loot[q].box # loot[p].box
    <3>1. PICK k \in 1 .. Gone : loot[p] = tokens[k]
      BY <1>1, <2>1, LootIsStolen
    <3>2. k \in 1 .. Len(tokens) /\ loot[p].box \in Boxes
      BY <1>1, <2>1, <2>n, LootIsStolen
    <3>3. io[loot[p].box] # "free"
      BY <2>0, <3>1, <3>2 DEF TokenInv
    <3>4. ASSUME NEW i \in 1 .. Len(queue)  PROVE queue[i].box # loot[p].box
      <4>1. Gone + i \in 1 .. Len(tokens) /\ Gone + i # k
        BY <2>n
      <4> QED  BY <2>0, <3>1, <3>2, <4>1 DEF TokenInv
    <3>5. taken.box # loot[p].box
      BY <2>0, <3>1, <3>2, NoneIsNoEntry DEF OwnerInv
    <3>6. ASSUME NEW q \in Thieves \ {p}  PROVE loot[q].box # loot[p].box
      BY <1>1, <2>1, <3>2, LootIsStolen, NoneIsNoEntry
    <3> QED  BY <3>3, <3>4, <3>5, <3>6
  <2> QED  BY <2>1 DEF BoxExclusive
<1> QED  BY <1>1, ChaseInvariance, PTL

(* If loads stay in order, take_output always finds the output.            *)
THEOREM ChaseOutputThere ==
  ASSUME ~WeakLoads  PROVE Spec => []OutputThere
<1>1. ChaseInv => OutputThere
  BY DEF ChaseInv, OwnerInv, OutputThere
<1> QED  BY <1>1, ChaseInvariance, PTL

------------------------------------------------------------------------------
(* Refinement: the tokens are the abstract stack.                          *)

(* A step that keeps tokens, deque and which of the stolen tokens' flags   *)
(* are FINISHED is invisible to the users of the deque.                    *)
LEMMA Invisible ==
  ASSUME TypeOK, TokenInv, UNCHANGED <<tokens, queue>>,
         \A i \in 1 .. Len(tokens) : Stolen(i) =>
           (flag'[tokens[i].slot] = THIEF_FINISHED
              <=> flag[tokens[i].slot] = THIEF_FINISHED)
  PROVE  UNCHANGED Abstract!absVars
<1>1. \A i : Stolen(i)' <=> Stolen(i)
  BY DEF Stolen, Gone
<1>2. ASSUME NEW i \in Index  PROVE StatusOf(i)' = StatusOf(i)
  <2>1. i >= Len(tokens) \/ i + 1 \in 1 .. Len(tokens)
    BY Counts, CapacityAssumption DEF Index
  <2> QED  BY <1>1, <2>1 DEF StatusOf
<1>3. \A i \in Index : BoxOf(i)' = BoxOf(i)
  BY DEF BoxOf
<1>4. UNCHANGED <<AbsTasks, AbsStatuses>>
  BY <1>2, <1>3 DEF AbsTasks, AbsStatuses
<1> QED  BY <1>4 DEF Abstract!absVars

(* A spawn pushes.                                                         *)
LEMMA SpawnIsPush ==
  ASSUME ChaseInv, NEW b \in Boxes, NEW s \in Slots, Push(b, s),
         Len(tokens) < Capacity,
         \A i \in 1 .. Len(tokens) : flag'[tokens[i].slot] = flag[tokens[i].slot]
  PROVE  Abstract!AbsPush(b)
<1> DEFINE n == Len(tokens)
<1>0. TypeOK /\ TokenInv
  BY DEF ChaseInv
<1>1. /\ n \in Nat /\ Gone \in Nat /\ Gone <= n /\ Capacity \in Nat
      /\ n \in Index /\ Len(queue) \in Nat
  BY <1>0, Counts, CapacityAssumption DEF Index
<1>2. /\ Len(tokens') = n + 1 /\ Gone' = Gone /\ tokens'[n + 1].box = b
      /\ \A i \in 1 .. n : tokens'[i] = tokens[i]
  <2> DEFINE e == [box |-> b, slot |-> s]
  <2>1. /\ Len(tokens') = n + 1 /\ Gone' = Gone /\ tokens'[n + 1] = e
        /\ \A i \in 1 .. n : tokens'[i] = tokens[i]
    BY PushFacts
  <2>2. e.box = b
    OBVIOUS
  <2> QED  BY <2>1, <2>2
<1>3. ASSUME NEW i \in Index
      PROVE  /\ BoxOf(i)' = IF i = n THEN b ELSE BoxOf(i)
             /\ StatusOf(i)' = IF i = n THEN "ready" ELSE StatusOf(i)
  <2>1. CASE i = n
    <3>1. ~(i >= Len(tokens')) /\ i < Len(tokens') /\ ~Stolen(i + 1)'
      BY <1>1, <1>2, <2>1 DEF Stolen
    <3> QED  BY <1>2, <2>1, <3>1 DEF BoxOf, StatusOf
  <2>2. CASE i < n
    <3>1. /\ i + 1 \in 1 .. n /\ tokens'[i + 1] = tokens[i + 1] /\ i # n
          /\ ~(i >= Len(tokens')) /\ i < Len(tokens')
          /\ ~(i >= Len(tokens)) /\ (Stolen(i + 1)' <=> Stolen(i + 1))
      BY <1>1, <1>2, <2>2 DEF Stolen, Index
    <3>2. flag'[tokens[i + 1].slot] = flag[tokens[i + 1].slot]
      BY <3>1
    <3> QED  BY <2>2, <3>1, <3>2 DEF BoxOf, StatusOf
  <2>3. CASE i > n
    <3>1. /\ i >= Len(tokens') /\ ~(i < Len(tokens')) /\ i # n
          /\ i >= Len(tokens) /\ ~(i < Len(tokens))
      BY <1>1, <1>2, <2>3 DEF Index
    <3> QED  BY <3>1 DEF BoxOf, StatusOf
  <2> QED  BY <1>1, <2>1, <2>2, <2>3 DEF Index
<1>4. AbsTasks' = [AbsTasks EXCEPT ![n] = b]
  BY <1>1, <1>3 DEF AbsTasks
<1>5. AbsStatuses' = [AbsStatuses EXCEPT ![n] = "ready"]
  BY <1>1, <1>3 DEF AbsStatuses
<1> QED  BY <1>2, <1>4, <1>5 DEF Abstract!AbsPush

(* A step in which the newest token, whose status is st, goes settles it.  *)
LEMMA PopIsSettle ==
  ASSUME ChaseInv, tokens # <<>>, tokens' = Older(tokens),
         NEW st, StatusOf(Len(tokens) - 1) = st,
         \A i \in 1 .. Len(tokens) - 1 : Stolen(i)' <=> Stolen(i),
         \A i \in 1 .. Len(tokens) - 1 :
           flag'[tokens[i].slot] = flag[tokens[i].slot]
  PROVE  Abstract!Settle(st)
<1> DEFINE n == Len(tokens) - 1
<1>0. TypeOK /\ TokenInv
  BY DEF ChaseInv
<1>1. /\ Len(tokens) \in Nat \ {0} /\ Capacity \in Nat /\ n \in Nat
      /\ n \in Index /\ Len(tokens') = n
      /\ \A i \in 1 .. n : tokens'[i] = tokens[i]
  BY <1>0, PopFacts, CapacityAssumption DEF Index, TokenInv
<1>2. ASSUME NEW i \in Index
      PROVE  /\ BoxOf(i)' = IF i = n THEN NoBox ELSE BoxOf(i)
             /\ StatusOf(i)' = IF i = n THEN "free" ELSE StatusOf(i)
  <2>1. CASE i < n
    <3>1. /\ i + 1 \in 1 .. n /\ tokens'[i + 1] = tokens[i + 1] /\ i # n
          /\ ~(i >= Len(tokens')) /\ i < Len(tokens')
          /\ ~(i >= Len(tokens)) /\ i < Len(tokens)
      BY <1>1, <2>1 DEF Index
    <3>2. /\ flag'[tokens[i + 1].slot] = flag[tokens[i + 1].slot]
          /\ Stolen(i + 1)' <=> Stolen(i + 1)
      BY <3>1
    <3> QED  BY <3>1, <3>2 DEF BoxOf, StatusOf
  <2>2. CASE i = n
    <3>1. i >= Len(tokens') /\ ~(i < Len(tokens'))
      BY <1>1, <2>2
    <3> QED  BY <2>2, <3>1 DEF BoxOf, StatusOf
  <2>3. CASE i > n
    <3>1. /\ i >= Len(tokens') /\ ~(i < Len(tokens')) /\ i # n
          /\ i >= Len(tokens) /\ ~(i < Len(tokens))
      BY <1>1, <2>3 DEF Index
    <3> QED  BY <3>1 DEF BoxOf, StatusOf
  <2> QED  BY <1>1, <2>1, <2>2, <2>3 DEF Index
<1>3. AbsTasks' = [AbsTasks EXCEPT ![n] = NoBox]
  BY <1>1, <1>2 DEF AbsTasks
<1>4. AbsStatuses' = [AbsStatuses EXCEPT ![n] = "free"]
  BY <1>1, <1>2 DEF AbsStatuses
<1>5. AbsStatuses[n] = st
  BY <1>1 DEF AbsStatuses
<1> QED  BY <1>1, <1>3, <1>4, <1>5 DEF Abstract!Settle

(* What changes the status of place k only, from one value to another.     *)
LEMMA OneStatus ==
  ASSUME NEW k \in Index, NEW new, UNCHANGED tokens,
         \A i \in Index : StatusOf(i)' = IF i = k THEN new ELSE StatusOf(i)
  PROVE  /\ AbsStatuses' = [AbsStatuses EXCEPT ![k] = new]
         /\ UNCHANGED <<Len(tokens), AbsTasks>>
BY DEF AbsStatuses, AbsTasks, BoxOf

(* A steal takes the oldest ready token.                                   *)
LEMMA StealIsSteal ==
  ASSUME ChaseInv, NEW p \in Thieves, Steal(p)
  PROVE  Abstract!AbsSteal
<1>0. TypeOK /\ TokenInv /\ SlotInv
  BY DEF ChaseInv
<1>1. /\ Gone \in Nat /\ Gone + Len(queue) = Len(tokens) /\ Len(tokens) \in Nat
      /\ Len(queue) \in Nat /\ Capacity \in Nat
  BY <1>0, Counts, CapacityAssumption
<1>2. /\ queue \in Seq(Entry) /\ queue # <<>> /\ queue' = Tail(queue)
      /\ UNCHANGED <<tokens, flag>>
  BY <1>0 DEF Steal, TypeOK
<1>3. Len(queue) # 0 /\ Len(queue') = Len(queue) - 1
  BY <1>2
<1>4. Gone' = Gone + 1 /\ Gone \in Index /\ Gone < Len(tokens)
  BY <1>0, <1>1, <1>2, <1>3 DEF Gone, Index, TokenInv
<1>5. StatusOf(Gone) = "ready" /\ flag[tokens[Gone + 1].slot] = THIEF_NONE
  <2>1. Gone + 1 \in 1 .. Len(tokens) /\ ~Stolen(Gone + 1)
    BY <1>1, <1>4 DEF Stolen
  <2> QED  BY <1>0, <1>1, <1>4, <2>1 DEF StatusOf, SlotInv
<1>6. ASSUME NEW i \in Index
      PROVE  StatusOf(i)' = IF i = Gone THEN "stolen" ELSE StatusOf(i)
  <2>1. CASE i = Gone
    <3>1. Stolen(i + 1)' /\ ~(i >= Len(tokens'))
      BY <1>1, <1>2, <1>4, <2>1 DEF Stolen
    <3> QED  BY <1>2, <1>5, <2>1, <3>1, NamesAssumption DEF StatusOf
  <2>2. CASE i # Gone
    <3>1. Stolen(i + 1)' <=> Stolen(i + 1)
      BY <1>1, <1>4, <2>2 DEF Stolen, Index
    <3> QED  BY <1>2, <2>2, <3>1 DEF StatusOf
  <2> QED  BY <2>1, <2>2
<1>7. ASSUME NEW j \in 0 .. Gone - 1  PROVE AbsStatuses[j] # "ready"
  <2>1. j \in Index /\ Stolen(j + 1) /\ ~(j >= Len(tokens))
    BY <1>1, <1>4 DEF Index, Stolen
  <2> QED  BY <2>1 DEF AbsStatuses, StatusOf
<1>8. /\ AbsStatuses' = [AbsStatuses EXCEPT ![Gone] = "stolen"]
      /\ UNCHANGED <<Len(tokens), AbsTasks>>
  BY <1>2, <1>4, <1>6, OneStatus
<1>9. AbsStatuses[Gone] = "ready"
  BY <1>4, <1>5 DEF AbsStatuses
<1> QED  BY <1>4, <1>7, <1>8, <1>9 DEF Abstract!AbsSteal, Abstract!Places, Index

(* FINISHED finishes one stolen token.                                     *)
LEMMA FinishIsFinish ==
  ASSUME ChaseInv, NEW p \in Thieves, Finish(p)
  PROVE  Abstract!AbsFinish
<1>0. TypeOK /\ TokenInv /\ ThiefInv
  BY DEF ChaseInv
<1>1. loot[p] # None
  BY <1>0 DEF Finish, ThiefAt, ThiefInv
<1>2. PICK k \in 1 .. Gone : loot[p] = tokens[k]
  BY <1>1, LootIsStolen
<1>3. /\ k \in 1 .. Len(tokens) /\ Gone \in Nat /\ Len(tokens) \in Nat
      /\ tokens[k].slot \in Slots /\ k - 1 \in Index /\ Stolen(k)
      /\ (k - 1) + 1 = k /\ ~(k - 1 >= Len(tokens))
  BY <1>0, <1>2, Counts, CapacityAssumption DEF TokenInv, Index, Stolen
<1>4. /\ flag' = [flag EXCEPT ![tokens[k].slot] = THIEF_FINISHED]
      /\ UNCHANGED <<tokens, queue>>
  BY <1>2 DEF Finish
<1>5. flag[tokens[k].slot] # THIEF_FINISHED
  BY <1>1, <1>2, LootIsStolen
<1>6. \A i : Stolen(i)' <=> Stolen(i)
  BY <1>4 DEF Stolen, Gone
<1>7. ASSUME NEW i \in Index
      PROVE  StatusOf(i)' = IF i = k - 1 THEN "done" ELSE StatusOf(i)
  <2>1. CASE i = k - 1
    <3>1. flag'[tokens[k].slot] = THIEF_FINISHED
      BY <1>0, <1>3, <1>4 DEF TypeOK
    <3> QED  BY <1>3, <1>4, <1>6, <2>1, <3>1 DEF StatusOf
  <2>2. CASE i # k - 1 /\ ~(i >= Len(tokens))
    <3>1. i + 1 \in 1 .. Len(tokens) /\ i + 1 # k
      BY <1>3, <2>2 DEF Index
    <3>2. flag'[tokens[i + 1].slot] = flag[tokens[i + 1].slot]
      BY <1>0, <1>3, <1>4, <3>1, Counts DEF TokenInv, TypeOK
    <3> QED  BY <1>4, <1>6, <2>2, <3>2 DEF StatusOf
  <2>3. CASE i # k - 1 /\ i >= Len(tokens)
    BY <1>4, <2>3 DEF StatusOf
  <2> QED  BY <2>1, <2>2, <2>3
<1>8. /\ AbsStatuses' = [AbsStatuses EXCEPT ![k - 1] = "done"]
      /\ UNCHANGED <<Len(tokens), AbsTasks>>
  BY <1>3, <1>4, <1>7, OneStatus
<1>9. AbsStatuses[k - 1] = "stolen"
  <2>1. StatusOf(k - 1) = "stolen"
    BY <1>3, <1>5 DEF StatusOf
  <2> QED  BY <1>3, <2>1 DEF AbsStatuses
<1> QED  BY <1>3, <1>8, <1>9 DEF Abstract!AbsFinish, Abstract!Places, Index

(* For its owner and its thieves the deque of crossbeam with the thief     *)
(* slots is what the split deque is: WorkDeque.                            *)
THEOREM ChaseImplementsWorkDeque == Spec => ImplementsWorkDeque
<1>1. Init => Abstract!AbsInit
  <2> SUFFICES ASSUME Init  PROVE Abstract!AbsInit
    OBVIOUS
  <2>1. Len(tokens) = 0
    BY DEF Init
  <2>2. \A i \in Index : BoxOf(i) = NoBox /\ StatusOf(i) = "free"
    BY <2>1, CapacityAssumption DEF BoxOf, StatusOf, Index
  <2> QED  BY <2>1, <2>2
           DEF Abstract!AbsInit, AbsTasks, AbsStatuses, Index, Abstract!Places
<1>2. ASSUME ChaseInv, [Next]_vars
      PROVE  [Abstract!AbsNext]_(Abstract!absVars)
  <2>0. TypeOK /\ TokenInv /\ SlotInv /\ ThiefInv /\ OwnerInv
    BY <1>2 DEF ChaseInv
  <2>1. CASE SpawnRecycled
    <3>1. PICK b \in Boxes : Push(b, Newest(recycle))
      BY <2>1 DEF SpawnRecycled
    <3>2. Newest(recycle) \in Slots /\ flag' = flag /\ Len(tokens) < Capacity
      BY <2>0, <2>1, OlderProperties DEF SpawnRecycled, TypeOK
    <3>3. Abstract!AbsPush(b)
      BY <1>2, <3>1, <3>2, SpawnIsPush
    <3> QED  BY <3>3 DEF Abstract!AbsNext
  <2>2. CASE SpawnFresh
    <3>1. PICK b \in Boxes, s \in Slots :
            Unused(s) /\ Push(b, s) /\ flag' = [flag EXCEPT ![s] = THIEF_NONE]
      BY <2>2 DEF SpawnFresh
    <3>2. \A i \in 1 .. Len(tokens) :
            flag'[tokens[i].slot] = flag[tokens[i].slot]
      BY <2>0, <3>1, Counts DEF Unused, TypeOK
    <3>3. Len(tokens) < Capacity
      BY <2>2 DEF SpawnFresh
    <3>4. Abstract!AbsPush(b)
      BY <1>2, <3>1, <3>2, <3>3, SpawnIsPush
    <3> QED  BY <3>4 DEF Abstract!AbsNext
  <2>3. CASE SyncPopped
    <3>1. /\ tokens # <<>> /\ queue # <<>> /\ tokens' = Older(tokens)
          /\ queue' = Older(queue) /\ flag' = flag
      BY <2>3 DEF SyncPopped, CanSync
    <3>2. /\ Len(tokens) \in Nat \ {0} /\ Len(queue) \in Nat \ {0}
          /\ Gone \in Nat /\ Gone + Len(queue) = Len(tokens)
          /\ Len(tokens') = Len(tokens) - 1 /\ Len(queue') = Len(queue) - 1
      BY <1>2, <2>0, <3>1, PopFacts, Counts
    <3>3. Gone' = Gone
      BY <3>2 DEF Gone
    <3>4. \A i : Stolen(i)' <=> Stolen(i)
      BY <3>3 DEF Stolen
    <3>5. StatusOf(Len(tokens) - 1) = "ready"
      <4>1. ~Stolen((Len(tokens) - 1) + 1) /\ ~(Len(tokens) - 1 >= Len(tokens))
        BY <3>2 DEF Stolen
      <4> QED  BY <4>1 DEF StatusOf
    <3>6. Abstract!Settle("ready")
      BY <1>2, <3>1, <3>4, <3>5, PopIsSettle
    <3> QED  BY <3>6 DEF Abstract!AbsNext, Abstract!AbsTake
  <2>4. CASE Reset
    <3>1. /\ tokens # <<>> /\ queue = <<>> /\ queue' = queue
          /\ tokens' = Older(tokens)
          /\ flag' = [flag EXCEPT ![Newest(tokens).slot] = THIEF_NONE]
          /\ flag[Newest(tokens).slot] = THIEF_FINISHED
      BY <2>0, <2>4 DEF Reset, OwnerInv
    <3>2. /\ Len(tokens) \in Nat \ {0} /\ Len(queue) = 0
          /\ Len(tokens') = Len(tokens) - 1
          /\ Newest(tokens) = tokens[Len(tokens)]
          /\ \A i \in 1 .. Len(tokens) - 1 : tokens[i].slot # Newest(tokens).slot
      BY <1>2, <3>1, PopFacts
    <3>3. Gone = Len(tokens) /\ Gone' = Len(tokens) - 1
      BY <3>1, <3>2 DEF Gone
    <3>4. \A i \in 1 .. Len(tokens) - 1 : Stolen(i)' <=> Stolen(i)
      BY <3>2, <3>3 DEF Stolen
    <3>5. StatusOf(Len(tokens) - 1) = "done"
      <4>1. /\ (Len(tokens) - 1) + 1 = Len(tokens) /\ Stolen(Len(tokens))
            /\ ~(Len(tokens) - 1 >= Len(tokens))
        BY <3>2, <3>3 DEF Stolen
      <4> QED  BY <3>1, <3>2, <4>1 DEF StatusOf
    <3>6. ASSUME NEW i \in 1 .. Len(tokens) - 1
          PROVE  flag'[tokens[i].slot] = flag[tokens[i].slot]
      <4>1. i \in 1 .. Len(tokens)
        BY <3>2
      <4>2. tokens[i].slot \in Slots /\ tokens[i].slot # Newest(tokens).slot
        BY <2>0, <3>2, <4>1, Counts
      <4> QED  BY <2>0, <3>1, <4>2 DEF TypeOK
    <3>7. Abstract!Settle("done")
      BY <1>2, <3>1, <3>4, <3>5, <3>6, PopIsSettle
    <3> QED  BY <3>7 DEF Abstract!AbsNext, Abstract!AbsReclaim
  <2>5. CASE LoadFirst \/ TakeOutput \/ SyncStolen \/ LoadAgain \/ UNCHANGED vars
    <3>1. UNCHANGED <<tokens, queue, flag>>
      BY <2>5 DEF LoadFirst, TakeOutput, SyncStolen, LoadAgain, vars
    <3> QED  BY <2>0, <3>1, Invisible
  <2>6. ASSUME NEW p \in Thieves, Steal(p)  PROVE Abstract!AbsNext
    BY <1>2, <2>6, StealIsSteal DEF Abstract!AbsNext
  <2>7. ASSUME NEW p \in Thieves, Finish(p)  PROVE Abstract!AbsNext
    BY <1>2, <2>7, FinishIsFinish DEF Abstract!AbsNext
  <2>8. ASSUME NEW p \in Thieves, TakeInput(p) \/ WriteOutput(p)
        PROVE  UNCHANGED Abstract!absVars
    <3>1. UNCHANGED <<tokens, queue, flag>>
      BY <2>8 DEF TakeInput, WriteOutput
    <3> QED  BY <2>0, <3>1, Invisible
  <2>9. ASSUME NEW p \in Thieves, Announce(p)
        PROVE  UNCHANGED Abstract!absVars
    <3>1. UNCHANGED <<tokens, queue>> /\ loot[p] # None
      BY <2>0, <2>9 DEF Announce, ThiefAt, ThiefInv
    <3>2. /\ flag' = [flag EXCEPT ![loot[p].slot] = p]
          /\ flag[loot[p].slot] # THIEF_FINISHED
      BY <1>2, <2>9, <3>1, LootIsStolen DEF Announce
    <3>3. \A i \in 1 .. Len(tokens) :
            flag'[tokens[i].slot] = THIEF_FINISHED
              <=> flag[tokens[i].slot] = THIEF_FINISHED
      BY <2>0, <3>2, Counts, NamesAssumption DEF TypeOK
    <3> QED  BY <2>0, <3>1, <3>3, Invisible
  <2> QED
    BY <1>2, <2>1, <2>2, <2>3, <2>4, <2>5, <2>6, <2>7, <2>8, <2>9
    DEF Next, OwnerInside, Sync, ThiefInside, StealNothing
<1> QED  BY <1>1, <1>2, ChaseInvariance, PTL
         DEF Spec, ImplementsWorkDeque, Abstract!AbsSpec
==============================================================================
