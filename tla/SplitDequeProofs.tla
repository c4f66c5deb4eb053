-------------------------- MODULE SplitDequeProofs --------------------------
(***************************************************************************)
(* IndInv is an inductive invariant of SplitDeque, for every number of     *)
(* thieves, every buffer size and both ways of stealing, and implies the   *)
(* safety properties of SplitDeque; and SplitDeque implements WorkDeque.   *)
(***************************************************************************)
EXTENDS SplitDeque, TLAPS

(* Rounding: grow_shared rounds up and shares at least one task,           *)
(* shrink_shared rounds down and takes at least one back.                  *)
LEMMA Midpoint ==
  ASSUME NEW a \in Nat, NEW b \in Nat, a < b
  PROVE  /\ (a + b) \div 2 \in Nat
         /\ a <= (a + b) \div 2
         /\ (a + b) \div 2 < b
         /\ (a + b + 1) \div 2 \in Nat
         /\ a < (a + b + 1) \div 2
         /\ (a + b + 1) \div 2 <= b
  BY SMT

(* The stolen depths are among the pushed ones.                            *)
LEMMA StolenBelowRange ==
  ASSUME TypeOK, OwnerInv
  PROVE  StolenBelow \in 0 .. head
  BY SizeAssumption DEF TypeOK, OwnerInv, StolenBelow, Bound

(* A thief that holds a slot holds one below head, not finished.           *)
LEMMA HeldSlot ==
  ASSUME IndInv, NEW p \in Thieves, Holding(p)
  PROVE  /\ tt[p] \in Index /\ tt[p] < head /\ tt[p] < StolenBelow
         /\ flag[tt[p]] # THIEF_FINISHED
<1>1. StolenBelow \in 0 .. head
  BY StolenBelowRange DEF IndInv
<1> QED
  BY <1>1, SizeAssumption, FlagAssumption
     DEF IndInv, TypeOK, ThiefInv, ThiefOK, Index, Bound

(* A stolen depth whose flag is FINISHED holds the output of its task.     *)
LEMMA FinishedSlot ==
  ASSUME IndInv, NEW i \in Index, i < StolenBelow, flag[i] = THIEF_FINISHED
  PROVE  Finished(i)
<1>1. ~ \E p \in Thieves : Holding(p) /\ tt[p] = i
  BY HeldSlot
<1> QED
  BY <1>1 DEF IndInv, SlotInv

(* An exchange on the word can only succeed on the oldest ready task, and  *)
(* never while the owner has moved split below tail or is about to publish.*)
LEMMA CasHitsOldestReady ==
  ASSUME IndInv, NEW p \in Thieves, StealCas(p)
  PROVE  /\ tail < split /\ tail < head /\ StolenBelow = tail
         /\ StolenBelow' = tail + 1
         /\ ~Shifting /\ opc # "publish" /\ opc # "reclaim"
         /\ tail \in Index /\ tt[p] = tail
<1>1. tail < split
  BY DEF IndInv, TypeOK, ThiefInv, ThiefOK, StealCas, ThiefAt, Bound
<1>2. /\ tail < head /\ ~Shifting /\ opc # "publish" /\ opc # "reclaim"
  BY <1>1, SizeAssumption
     DEF IndInv, TypeOK, OwnerInv, Shifting, Acking, Bound, OwnerPC
<1>3. StolenBelow = tail /\ tail \in Index /\ tt[p] = tail
  BY <1>2, SizeAssumption
     DEF IndInv, TypeOK, StolenBelow, StealCas, Bound, Index
<1>4. StolenBelow' = tail + 1
  BY <1>2 DEF IndInv, TypeOK, StolenBelow, StealCas, owner, owned, Bound
<1> QED
  BY <1>1, <1>2, <1>3, <1>4

(* A step of one thief that changes at most the slot it holds, and keeps   *)
(* holding it or finishes it, preserves SlotInv.                           *)
LEMMA ThiefKeepsSlots ==
  ASSUME IndInv, NEW p \in Thieves,
         UNCHANGED <<head, opc, token>>, StolenBelow' = StolenBelow,
         \A i \in Index : \/ Holding(p) /\ i = tt[p]
                          \/ slot'[i] = slot[i] /\ flag'[i] = flag[i],
         \A q \in Thieves \ {p} : tpc'[q] = tpc[q] /\ tt'[q] = tt[q],
         Holding(p) => \/ Holding(p)' /\ tt'[p] = tt[p]
                       \/ /\ flag'[tt[p]] = THIEF_FINISHED
                          /\ slot'[tt[p]] = Output(token[tt[p]])
  PROVE  SlotInv'
<1>1. StolenBelow \in 0 .. head
  BY StolenBelowRange DEF IndInv
<1>2. \A q \in Thieves \ {p} : Holding(q)' <=> Holding(q)
  BY DEF Holding
<1>3. ASSUME NEW i \in Index, Holding(p), i = tt[p]
      PROVE  /\ i < StolenBelow /\ i < head
             /\ ~(opc = "reclaim" /\ i = head - 1)
  BY <1>3, HeldSlot, FlagAssumption DEF IndInv, SlotInv, Finished
<1>4. ASSUME NEW i \in Index, Holding(p), i = tt[p]
      PROVE  \/ Finished(i)'
             \/ \E q \in Thieves : Holding(q)' /\ tt'[q] = i
  BY <1>4 DEF Finished
<1>5. ASSUME NEW i \in Index, ~(Holding(p) /\ i = tt[p]), i < StolenBelow
      PROVE  \/ Finished(i)'
             \/ \E q \in Thieves : Holding(q)' /\ tt'[q] = i
  <2>1. CASE Finished(i)
    BY <1>5, <2>1 DEF Finished
  <2>2. CASE \E q \in Thieves : Holding(q) /\ tt[q] = i
    BY <1>2, <1>5, <2>2
  <2> QED
    BY <1>5, <2>1, <2>2 DEF IndInv, SlotInv
<1>6. ASSUME NEW i \in Index, ~(Holding(p) /\ i = tt[p])
      PROVE  /\ Finished(i)' <=> Finished(i)
             /\ Ready(i)' <=> Ready(i)
             /\ Free(i)' <=> Free(i)
             /\ slot'[i] = slot[i] /\ flag'[i] = flag[i] /\ token'[i] = token[i]
  BY <1>6 DEF Finished, Ready, Free
<1>7. head \in Bound
  BY DEF IndInv, TypeOK
<1> QED
  BY <1>1, <1>3, <1>4, <1>5, <1>6, <1>7, SizeAssumption
     DEF IndInv, SlotInv, Index, Bound

(* A step of the owner that leaves what thieves hold alone preserves       *)
(* ThiefInv.                                                               *)
LEMMA OwnerKeepsThieves ==
  ASSUME IndInv, UNCHANGED thief,
         \A p \in Thieves : Holding(p) => tt[p] < StolenBelow',
         \A i \in Index : i < StolenBelow' =>
            /\ slot'[i] = slot[i] /\ flag'[i] = flag[i] /\ token'[i] = token[i]
  PROVE  ThiefInv'
<1>1. \A p \in Thieves : Holding(p)' <=> Holding(p)
  BY DEF Holding, thief
<1>2. ASSUME NEW p \in Thieves, Holding(p)
      PROVE  /\ slot'[tt[p]] = slot[tt[p]] /\ flag'[tt[p]] = flag[tt[p]]
             /\ token'[tt[p]] = token[tt[p]]
  BY <1>2, HeldSlot
<1> QED
  BY <1>1, <1>2 DEF IndInv, ThiefInv, ThiefOK, Holding, thief

(* Every step keeps the types: the indices stay in the buffer because head *)
(* moves up only below BufferSize, and tail only below split.              *)
LEMMA TypeStep ==
  ASSUME IndInv, [Next]_vars
  PROVE  TypeOK'
<1>cas. ASSUME NEW p \in Thieves, StealCas(p)
       PROVE  tail < split /\ tail < head /\ ~Shifting /\ opc # "publish"
  BY <1>cas, CasHitsOldestReady
<1> USE SizeAssumption, FlagAssumption, TaskAssumption, ModeAssumption
<1> USE DEF IndInv, TypeOK, Index, Bound, OwnerPC, ThiefPC, OwnerAt, ThiefAt,
            word, flags, buffer, owned, regs, client, thief, owner
<1> USE DEF Empty, Input, Output, Running, OwnerInv
<1>SpinFlag. CASE SpinFlag
  <2>1. head - 1 \in Index
    BY <1>SpinFlag DEF SpinFlag, OwnerInv
  <2> QED
    BY <1>SpinFlag, <2>1 DEF SpinFlag
<1>Reclaim. CASE Reclaim
  <2>1. head' \in Bound
    BY <1>Reclaim DEF Reclaim, OwnerInv
  <2>2. allstolen' \in BOOLEAN
    BY <1>Reclaim DEF Reclaim
  <2> QED
    BY <1>Reclaim, <2>1, <2>2 DEF Reclaim
<1>StealLoad. ASSUME NEW p \in Thieves, StealLoad(p) PROVE TypeOK'
  <2>1. tpc' \in [Thieves -> ThiefPC]
    BY <1>StealLoad DEF StealLoad
  <2>2. tt' \in [Thieves -> Bound]
    BY <1>StealLoad DEF StealLoad
  <2>3. ts' \in [Thieves -> Bound]
    BY <1>StealLoad DEF StealLoad
  <2> QED
    BY <1>StealLoad, <2>1, <2>2, <2>3 DEF StealLoad
<1>StealCas. ASSUME NEW p \in Thieves, StealCas(p) PROVE TypeOK'
  <2>1. tail < split
    BY <1>StealCas, <1>cas
  <2> QED
    BY <1>StealCas, <2>1 DEF StealCas
<1>StealTake. ASSUME NEW p \in Thieves, StealTake(p) PROVE TypeOK'
  <2>1. tt[p] \in Index
    BY <1>StealTake, HeldSlot DEF StealTake, Holding
  <2>2. slot[tt[p]].task \in Tasks \cup {NoTask}
    BY <2>1
  <2> QED
    BY <1>StealTake, <2>1, <2>2 DEF StealTake
<1>StealFinish. ASSUME NEW p \in Thieves, StealFinish(p) PROVE TypeOK'
  <2>1. flag' \in [Index -> Thieves \cup {THIEF_NONE, THIEF_FINISHED}]
    BY <1>StealFinish DEF StealFinish
  <2>2. tt' \in [Thieves -> Bound]
    BY <1>StealFinish DEF StealFinish, DropIndex
  <2>3. ts' \in [Thieves -> Bound]
    BY <1>StealFinish DEF StealFinish, DropIndex
  <2>4. tpc' \in [Thieves -> ThiefPC]
    BY <1>StealFinish DEF StealFinish, DropIndex
  <2> QED
    BY <1>StealFinish, <2>1, <2>2, <2>3, <2>4 DEF StealFinish
<1>stutter. CASE UNCHANGED vars
  BY <1>stutter DEF vars
<1>Push. ASSUME NEW t \in Tasks, Push(t) PROVE TypeOK'
  BY <1>Push DEF Push
<1>Overflow. CASE Overflow
  BY <1>Overflow DEF Overflow
<1>Publish. CASE Publish
  BY <1>Publish DEF Publish
<1>Open. CASE Open
  BY <1>Open DEF Open
<1>AckLoad. CASE AckLoad
  BY <1>AckLoad DEF AckLoad
<1>AckClear. CASE AckClear
  BY <1>AckClear DEF AckClear
<1>PushReq. CASE PushReq
  BY <1>PushReq DEF PushReq, LoadReq
<1>PushGrow. CASE PushGrow
  BY <1>PushGrow DEF PushGrow, GrowShared, SetSharedSplit
<1>PushClear. CASE PushClear
  BY <1>PushClear DEF PushClear, GrowClear
<1>SyncFast. CASE SyncFast
  BY <1>SyncFast DEF SyncFast, CanSync
<1>SyncSlow. CASE SyncSlow
  BY <1>SyncSlow DEF SyncSlow, CanSync
<1>ShrinkLoad. CASE ShrinkLoad
  BY <1>ShrinkLoad DEF ShrinkLoad
<1>ShrinkMove. CASE ShrinkMove
  BY <1>ShrinkMove DEF ShrinkMove, SetSharedSplit, DropRegs
<1>ShrinkFix. CASE ShrinkFix
  BY <1>ShrinkFix DEF ShrinkFix, SetSharedSplit, DropRegs
<1>Seal. CASE Seal
  BY <1>Seal DEF Seal
<1>PopReq. CASE PopReq
  BY <1>PopReq DEF PopReq, LoadReq
<1>PopGrow. CASE PopGrow
  BY <1>PopGrow DEF PopGrow, GrowShared, SetSharedSplit
<1>PopClear. CASE PopClear
  BY <1>PopClear DEF PopClear, GrowClear
<1>TakeWork. CASE TakeWork
  BY <1>TakeWork DEF TakeWork
<1>LoopFlag. CASE LoopFlag
  BY <1>LoopFlag DEF LoopFlag
<1>ResetFlag. CASE ResetFlag
  BY <1>ResetFlag DEF ResetFlag
<1>TakeOutput. CASE TakeOutput
  BY <1>TakeOutput DEF TakeOutput
<1>StealEmpty. ASSUME NEW p \in Thieves, StealEmpty(p) PROVE TypeOK'
  BY <1>StealEmpty DEF StealEmpty, vars
<1>StealBegin. ASSUME NEW p \in Thieves, StealBegin(p) PROVE TypeOK'
  BY <1>StealBegin DEF StealBegin
<1>StealRetry. ASSUME NEW p \in Thieves, StealRetry(p) PROVE TypeOK'
  BY <1>StealRetry DEF StealRetry, DropIndex
<1>StealClaim. ASSUME NEW p \in Thieves, StealClaim(p) PROVE TypeOK'
  BY <1>StealClaim DEF StealClaim
<1>StealPut. ASSUME NEW p \in Thieves, StealPut(p) PROVE TypeOK'
  BY <1>StealPut DEF StealPut
<1>RequestLoad. ASSUME NEW p \in Thieves, RequestLoad(p) PROVE TypeOK'
  BY <1>RequestLoad DEF RequestLoad
<1>RequestSet. ASSUME NEW p \in Thieves, RequestSet(p) PROVE TypeOK'
  BY <1>RequestSet DEF RequestSet
<1> QED
  BY <1>stutter, <1>Push, <1>Overflow, <1>Publish, <1>Open, <1>AckLoad,
     <1>AckClear, <1>PushReq, <1>PushGrow, <1>PushClear, <1>SyncFast,
     <1>SyncSlow, <1>ShrinkLoad, <1>ShrinkMove, <1>ShrinkFix, <1>Seal,
     <1>PopReq, <1>PopGrow, <1>PopClear, <1>TakeWork, <1>SpinFlag,
     <1>LoopFlag, <1>Reclaim, <1>ResetFlag, <1>TakeOutput, <1>StealEmpty,
     <1>StealBegin, <1>StealLoad, <1>StealCas, <1>StealRetry, <1>StealClaim,
     <1>StealTake, <1>StealPut, <1>StealFinish, <1>RequestLoad,
     <1>RequestSet
     DEF Next, OwnerInside, Sync, ThiefInside, ThiefTry

(* Every step keeps the owner's private copies in line with the word: a    *)
(* thief moves tail only where split is above it.                          *)
LEMMA OwnerInvStep ==
  ASSUME IndInv, [Next]_vars
  PROVE  OwnerInv'
<1>cas. ASSUME NEW p \in Thieves, StealCas(p)
       PROVE  tail < split /\ tail < head /\ ~Shifting /\ opc # "publish"
  BY <1>cas, CasHitsOldestReady
<1> USE SizeAssumption, FlagAssumption, TaskAssumption, ModeAssumption
<1> USE DEF IndInv, TypeOK, Index, Bound, OwnerPC, ThiefPC, OwnerAt, ThiefAt,
            word, flags, buffer, owned, regs, client, thief, owner
<1>ShrinkLoad. CASE ShrinkLoad
  <2>1. CASE tail = split
    BY <1>ShrinkLoad, <2>1 DEF OwnerInv, Acking, Shifting, ShrinkLoad
  <2>2. CASE tail # split
    <3>1. tail < split
      BY <1>ShrinkLoad, <2>2 DEF OwnerInv, Shifting, ShrinkLoad
    <3> QED
      BY <1>ShrinkLoad, <2>2, <3>1 DEF OwnerInv, Acking, Shifting, ShrinkLoad
  <2> QED
    BY <2>1, <2>2
<1>LoopFlag. CASE LoopFlag
  <2>1. head <= tail
    BY <1>LoopFlag DEF LoopFlag, WaitingInv, StolenBelow
  <2> QED
    BY <1>LoopFlag, <2>1 DEF OwnerInv, Acking, Shifting, LoopFlag
<1>Reclaim. CASE Reclaim
  <2>1. CASE oallstolen
    BY <1>Reclaim, <2>1 DEF OwnerInv, Acking, Shifting, Reclaim
  <2>2. CASE ~oallstolen
    <3>1. osplit = head /\ split = head /\ tail = head /\ head > 0
      BY <1>Reclaim, <2>2 DEF OwnerInv, Shifting, Reclaim
    <3>2. /\ opc' = "reset" /\ head' = head - 1
          /\ oallstolen' = TRUE /\ allstolen' = TRUE
          /\ tail' = head /\ split' = head /\ osplit' = head
      BY <1>Reclaim, <2>2, <3>1 DEF OwnerInv, Acking, Shifting, Reclaim
    <3> QED
      BY <3>1, <3>2 DEF OwnerInv, Acking, Shifting
  <2> QED
    BY <2>1, <2>2
<1>StealCas. ASSUME NEW p \in Thieves, StealCas(p) PROVE OwnerInv'
  <2>1. /\ tail < split /\ tail < head /\ ~Shifting /\ opc # "publish"
        /\ oallstolen => Acking
    BY <1>StealCas, <1>cas DEF OwnerInv, Acking
  <2>2. tail' = tail + 1 /\ tail' <= split /\ tail' <= head
    BY <1>StealCas, <2>1 DEF OwnerInv, Acking, Shifting, StealCas
  <2> QED
    BY <1>StealCas, <2>1, <2>2 DEF OwnerInv, Acking, Shifting, StealCas
<1> USE DEF OwnerInv, Acking, Shifting
<1>stutter. CASE UNCHANGED vars
  BY <1>stutter DEF vars
<1>Push. ASSUME NEW t \in Tasks, Push(t) PROVE OwnerInv'
  BY <1>Push DEF Push
<1>Overflow. CASE Overflow
  BY <1>Overflow DEF Overflow
<1>Publish. CASE Publish
  BY <1>Publish DEF Publish
<1>Open. CASE Open
  BY <1>Open DEF Open
<1>AckLoad. CASE AckLoad
  BY <1>AckLoad DEF AckLoad
<1>AckClear. CASE AckClear
  BY <1>AckClear DEF AckClear
<1>PushReq. CASE PushReq
  BY <1>PushReq DEF PushReq, LoadReq
<1>PushGrow. CASE PushGrow
  BY <1>PushGrow DEF PushGrow, GrowShared, SetSharedSplit
<1>PushClear. CASE PushClear
  BY <1>PushClear DEF PushClear, GrowClear
<1>SyncFast. CASE SyncFast
  BY <1>SyncFast DEF SyncFast, CanSync
<1>SyncSlow. CASE SyncSlow
  BY <1>SyncSlow DEF SyncSlow, CanSync
<1>ShrinkMove. CASE ShrinkMove
  BY <1>ShrinkMove DEF ShrinkMove, SetSharedSplit, DropRegs
<1>ShrinkFix. CASE ShrinkFix
  BY <1>ShrinkFix DEF ShrinkFix, SetSharedSplit, DropRegs
<1>Seal. CASE Seal
  BY <1>Seal DEF Seal
<1>PopReq. CASE PopReq
  BY <1>PopReq DEF PopReq, LoadReq
<1>PopGrow. CASE PopGrow
  BY <1>PopGrow DEF PopGrow, GrowShared, SetSharedSplit
<1>PopClear. CASE PopClear
  BY <1>PopClear DEF PopClear, GrowClear
<1>TakeWork. CASE TakeWork
  BY <1>TakeWork DEF TakeWork
<1>SpinFlag. CASE SpinFlag
  BY <1>SpinFlag DEF SpinFlag
<1>ResetFlag. CASE ResetFlag
  BY <1>ResetFlag DEF ResetFlag
<1>TakeOutput. CASE TakeOutput
  BY <1>TakeOutput DEF TakeOutput
<1>StealEmpty. ASSUME NEW p \in Thieves, StealEmpty(p) PROVE OwnerInv'
  BY <1>StealEmpty DEF StealEmpty, vars
<1>StealBegin. ASSUME NEW p \in Thieves, StealBegin(p) PROVE OwnerInv'
  BY <1>StealBegin DEF StealBegin
<1>StealLoad. ASSUME NEW p \in Thieves, StealLoad(p) PROVE OwnerInv'
  BY <1>StealLoad DEF StealLoad
<1>StealRetry. ASSUME NEW p \in Thieves, StealRetry(p) PROVE OwnerInv'
  BY <1>StealRetry DEF StealRetry, DropIndex
<1>StealClaim. ASSUME NEW p \in Thieves, StealClaim(p) PROVE OwnerInv'
  BY <1>StealClaim DEF StealClaim
<1>StealTake. ASSUME NEW p \in Thieves, StealTake(p) PROVE OwnerInv'
  BY <1>StealTake DEF StealTake
<1>StealPut. ASSUME NEW p \in Thieves, StealPut(p) PROVE OwnerInv'
  BY <1>StealPut DEF StealPut
<1>StealFinish. ASSUME NEW p \in Thieves, StealFinish(p) PROVE OwnerInv'
  BY <1>StealFinish DEF StealFinish, DropIndex
<1>RequestLoad. ASSUME NEW p \in Thieves, RequestLoad(p) PROVE OwnerInv'
  BY <1>RequestLoad DEF RequestLoad
<1>RequestSet. ASSUME NEW p \in Thieves, RequestSet(p) PROVE OwnerInv'
  BY <1>RequestSet DEF RequestSet
<1> QED
  BY <1>stutter, <1>Push, <1>Overflow, <1>Publish, <1>Open, <1>AckLoad,
     <1>AckClear, <1>PushReq, <1>PushGrow, <1>PushClear, <1>SyncFast,
     <1>SyncSlow, <1>ShrinkLoad, <1>ShrinkMove, <1>ShrinkFix, <1>Seal,
     <1>PopReq, <1>PopGrow, <1>PopClear, <1>TakeWork, <1>SpinFlag,
     <1>LoopFlag, <1>Reclaim, <1>ResetFlag, <1>TakeOutput, <1>StealEmpty,
     <1>StealBegin, <1>StealLoad, <1>StealCas, <1>StealRetry, <1>StealClaim,
     <1>StealTake, <1>StealPut, <1>StealFinish, <1>RequestLoad,
     <1>RequestSet
     DEF Next, OwnerInside, Sync, ThiefInside, ThiefTry

(* Every step keeps the depths that syncs wait for among the stolen ones.  *)
LEMMA WaitingStep ==
  ASSUME IndInv, [Next]_vars
  PROVE  WaitingInv'
<1>sb. StolenBelow \in 0 .. head
  BY StolenBelowRange DEF IndInv
<1> USE SizeAssumption, FlagAssumption, TaskAssumption, ModeAssumption
<1> USE DEF IndInv, TypeOK, Index, Bound, OwnerPC, ThiefPC, OwnerAt, ThiefAt,
            word, flags, buffer, owned, regs, client, thief, owner
<1>SpinFlag. CASE SpinFlag
  <2>1. StolenBelow = head /\ StolenBelow' = head /\ head - 1 < head
    BY <1>SpinFlag DEF SpinFlag, OwnerInv, StolenBelow, Acking
  <2> QED
    BY <1>SpinFlag, <2>1 DEF SpinFlag, WaitingInv
<1>Reclaim. CASE Reclaim
  <2>1. StolenBelow' = head - 1
    BY <1>Reclaim DEF Reclaim, OwnerInv, StolenBelow
  <2>2. \A i \in waiting : i < head - 1
    <3>1. head - 1 \notin waiting
      BY <1>Reclaim DEF Reclaim, WaitingInv
    <3>2. ASSUME NEW i \in waiting PROVE i < head - 1
      <4>1. i \in Index /\ i < StolenBelow /\ i # head - 1
        BY <3>1, <3>2 DEF WaitingInv
      <4> QED
        BY <4>1, <1>sb
    <3> QED
      BY <3>2
  <2> QED
    BY <1>Reclaim, <2>1, <2>2 DEF Reclaim, WaitingInv
<1> USE DEF WaitingInv, OwnerInv, StolenBelow, Shifting, Acking
<1>stutter. CASE UNCHANGED vars
  BY <1>stutter DEF vars
<1>Push. ASSUME NEW t \in Tasks, Push(t) PROVE WaitingInv'
  BY <1>Push DEF Push
<1>Overflow. CASE Overflow
  BY <1>Overflow DEF Overflow
<1>Publish. CASE Publish
  BY <1>Publish DEF Publish
<1>Open. CASE Open
  BY <1>Open DEF Open
<1>AckLoad. CASE AckLoad
  BY <1>AckLoad DEF AckLoad
<1>AckClear. CASE AckClear
  BY <1>AckClear DEF AckClear
<1>PushReq. CASE PushReq
  BY <1>PushReq DEF PushReq, LoadReq
<1>PushGrow. CASE PushGrow
  BY <1>PushGrow DEF PushGrow, GrowShared, SetSharedSplit
<1>PushClear. CASE PushClear
  BY <1>PushClear DEF PushClear, GrowClear
<1>SyncFast. CASE SyncFast
  BY <1>SyncFast DEF SyncFast, CanSync
<1>SyncSlow. CASE SyncSlow
  BY <1>SyncSlow DEF SyncSlow, CanSync
<1>ShrinkLoad. CASE ShrinkLoad
  BY <1>ShrinkLoad DEF ShrinkLoad
<1>ShrinkMove. CASE ShrinkMove
  BY <1>ShrinkMove DEF ShrinkMove, SetSharedSplit, DropRegs
<1>ShrinkFix. CASE ShrinkFix
  BY <1>ShrinkFix DEF ShrinkFix, SetSharedSplit, DropRegs
<1>Seal. CASE Seal
  BY <1>Seal DEF Seal
<1>PopReq. CASE PopReq
  BY <1>PopReq DEF PopReq, LoadReq
<1>PopGrow. CASE PopGrow
  BY <1>PopGrow DEF PopGrow, GrowShared, SetSharedSplit
<1>PopClear. CASE PopClear
  BY <1>PopClear DEF PopClear, GrowClear
<1>TakeWork. CASE TakeWork
  BY <1>TakeWork DEF TakeWork
<1>LoopFlag. CASE LoopFlag
  BY <1>LoopFlag DEF LoopFlag
<1>ResetFlag. CASE ResetFlag
  BY <1>ResetFlag DEF ResetFlag
<1>TakeOutput. CASE TakeOutput
  BY <1>TakeOutput DEF TakeOutput
<1>StealEmpty. ASSUME NEW p \in Thieves, StealEmpty(p) PROVE WaitingInv'
  BY <1>StealEmpty DEF StealEmpty, vars
<1>StealBegin. ASSUME NEW p \in Thieves, StealBegin(p) PROVE WaitingInv'
  BY <1>StealBegin DEF StealBegin
<1>StealLoad. ASSUME NEW p \in Thieves, StealLoad(p) PROVE WaitingInv'
  BY <1>StealLoad DEF StealLoad
<1>StealCas. ASSUME NEW p \in Thieves, StealCas(p) PROVE WaitingInv'
  BY <1>StealCas DEF StealCas
<1>StealRetry. ASSUME NEW p \in Thieves, StealRetry(p) PROVE WaitingInv'
  BY <1>StealRetry DEF StealRetry, DropIndex
<1>StealClaim. ASSUME NEW p \in Thieves, StealClaim(p) PROVE WaitingInv'
  BY <1>StealClaim DEF StealClaim
<1>StealTake. ASSUME NEW p \in Thieves, StealTake(p) PROVE WaitingInv'
  BY <1>StealTake DEF StealTake
<1>StealPut. ASSUME NEW p \in Thieves, StealPut(p) PROVE WaitingInv'
  BY <1>StealPut DEF StealPut
<1>StealFinish. ASSUME NEW p \in Thieves, StealFinish(p) PROVE WaitingInv'
  BY <1>StealFinish DEF StealFinish, DropIndex
<1>RequestLoad. ASSUME NEW p \in Thieves, RequestLoad(p) PROVE WaitingInv'
  BY <1>RequestLoad DEF RequestLoad
<1>RequestSet. ASSUME NEW p \in Thieves, RequestSet(p) PROVE WaitingInv'
  BY <1>RequestSet DEF RequestSet
<1> QED
  BY <1>stutter, <1>Push, <1>Overflow, <1>Publish, <1>Open, <1>AckLoad,
     <1>AckClear, <1>PushReq, <1>PushGrow, <1>PushClear, <1>SyncFast,
     <1>SyncSlow, <1>ShrinkLoad, <1>ShrinkMove, <1>ShrinkFix, <1>Seal,
     <1>PopReq, <1>PopGrow, <1>PopClear, <1>TakeWork, <1>SpinFlag,
     <1>LoopFlag, <1>Reclaim, <1>ResetFlag, <1>TakeOutput, <1>StealEmpty,
     <1>StealBegin, <1>StealLoad, <1>StealCas, <1>StealRetry, <1>StealClaim,
     <1>StealTake, <1>StealPut, <1>StealFinish, <1>RequestLoad,
     <1>RequestSet
     DEF Next, OwnerInside, Sync, ThiefInside, ThiefTry

(* Every step leaves each slot and flag as its depth requires: a stolen    *)
(* one with its thief or finished, a ready one with its input, others free.*)
LEMMA SlotStep ==
  ASSUME IndInv, [Next]_vars
  PROVE  SlotInv'
<1>fin. ASSUME NEW i \in Index, i < StolenBelow, flag[i] = THIEF_FINISHED
       PROVE  Finished(i)
  BY <1>fin, FinishedSlot
<1>keep. ASSUME NEW p \in Thieves,
                UNCHANGED <<head, opc, token>>, StolenBelow' = StolenBelow,
                \A i \in Index : \/ Holding(p) /\ i = tt[p]
                                 \/ slot'[i] = slot[i] /\ flag'[i] = flag[i],
                \A q \in Thieves \ {p} : tpc'[q] = tpc[q] /\ tt'[q] = tt[q],
                Holding(p) => \/ Holding(p)' /\ tt'[p] = tt[p]
                              \/ /\ flag'[tt[p]] = THIEF_FINISHED
                                 /\ slot'[tt[p]] = Output(token[tt[p]])
         PROVE  SlotInv'
  BY <1>keep, ThiefKeepsSlots
<1>held. ASSUME NEW p \in Thieves, Holding(p)
         PROVE  tt[p] \in Index /\ tt[p] < head /\ tt[p] < StolenBelow
  BY <1>held, HeldSlot
<1>sb. StolenBelow \in 0 .. head
  BY StolenBelowRange DEF IndInv
<1> USE SizeAssumption, FlagAssumption, TaskAssumption, ModeAssumption
<1> USE DEF IndInv, TypeOK, Index, Bound, OwnerPC, ThiefPC, OwnerAt, ThiefAt,
            word, flags, buffer, owned, regs, client, thief, owner
<1>Push. ASSUME NEW t \in Tasks, Push(t) PROVE SlotInv'
  <2>1. /\ StolenBelow' = StolenBelow
        /\ opc = "idle" /\ opc' \in {"publish", "pushed"}
    BY <1>Push DEF Push, OwnerInv, StolenBelow, Acking, Shifting
  <2>2. flag'[head] = THIEF_NONE /\ slot'[head] = Input(token'[head])
    BY <1>Push, <2>1 DEF Push, SlotInv, Free
  <2>3. ASSUME NEW i \in Index \ {head}
        PROVE  slot'[i] = slot[i] /\ flag'[i] = flag[i] /\ token'[i] = token[i]
    BY <1>Push, <2>3 DEF Push
  <2>4. UNCHANGED <<tpc, tt>> /\ head' = head + 1 /\ head \in Index
    BY <1>Push DEF Push
  <2> QED
    BY <2>1, <2>2, <2>3, <2>4, <1>sb DEF SlotInv, Finished, Ready, Free, Holding
<1>SpinFlag. CASE SpinFlag
  <2>1. StolenBelow = head /\ StolenBelow' = head /\ head - 1 \in Index
    BY <1>SpinFlag DEF SpinFlag, OwnerInv, StolenBelow, Acking
  <2>2. flag[head - 1] = THIEF_FINISHED => Finished(head - 1)
    BY <2>1, <1>fin
  <2> QED
    BY <1>SpinFlag, <2>1, <2>2
       DEF SpinFlag, SlotInv, Finished, Ready, Free, Holding
<1>LoopFlag. CASE LoopFlag
  <2>1. /\ StolenBelow' = StolenBelow
        /\ head - 1 < StolenBelow /\ head - 1 \in Index
    BY <1>LoopFlag DEF LoopFlag, WaitingInv, StolenBelow
  <2>2. Finished(head - 1)
    BY <1>LoopFlag, <2>1, <1>fin DEF LoopFlag
  <2> QED
    BY <1>LoopFlag, <2>1, <2>2
       DEF LoopFlag, SlotInv, Finished, Ready, Free, Holding
<1>StealLoad. ASSUME NEW p \in Thieves, StealLoad(p) PROVE SlotInv'
  <2>1. ~Holding(p) /\ ~Holding(p)'
    BY <1>StealLoad DEF StealLoad, Holding
  <2>2. /\ UNCHANGED <<head, opc, token, slot, flag>>
        /\ StolenBelow' = StolenBelow
        /\ \A q \in Thieves \ {p} : tpc'[q] = tpc[q] /\ tt'[q] = tt[q]
    BY <1>StealLoad DEF StealLoad, StolenBelow
  <2> QED
    BY <2>1, <2>2, <1>keep
<1>StealClaim. ASSUME NEW p \in Thieves, StealClaim(p) PROVE SlotInv'
  <2>1. Holding(p) /\ tt[p] \in Index
    BY <1>StealClaim, <1>held DEF StealClaim, Holding
  <2>2. /\ UNCHANGED <<head, opc, token>> /\ StolenBelow' = StolenBelow
        /\ \A i \in Index \ {tt[p]} : slot'[i] = slot[i] /\ flag'[i] = flag[i]
        /\ \A q \in Thieves \ {p} : tpc'[q] = tpc[q] /\ tt'[q] = tt[q]
    BY <1>StealClaim, <2>1 DEF StealClaim, StolenBelow
  <2>3. Holding(p)' /\ tt'[p] = tt[p]
    BY <1>StealClaim, <2>1 DEF StealClaim, Holding
  <2> QED
    BY <2>1, <2>2, <2>3, <1>keep
<1>StealTake. ASSUME NEW p \in Thieves, StealTake(p) PROVE SlotInv'
  <2>1. Holding(p) /\ tt[p] \in Index
    BY <1>StealTake, <1>held DEF StealTake, Holding
  <2>2. /\ UNCHANGED <<head, opc, token>> /\ StolenBelow' = StolenBelow
        /\ \A i \in Index \ {tt[p]} : slot'[i] = slot[i] /\ flag'[i] = flag[i]
        /\ \A q \in Thieves \ {p} : tpc'[q] = tpc[q] /\ tt'[q] = tt[q]
    BY <1>StealTake, <2>1 DEF StealTake, StolenBelow
  <2>3. Holding(p)' /\ tt'[p] = tt[p]
    BY <1>StealTake, <2>1 DEF StealTake, Holding
  <2> QED
    BY <2>1, <2>2, <2>3, <1>keep
<1>StealPut. ASSUME NEW p \in Thieves, StealPut(p) PROVE SlotInv'
  <2>1. Holding(p) /\ tt[p] \in Index
    BY <1>StealPut, <1>held DEF StealPut, Holding
  <2>2. /\ UNCHANGED <<head, opc, token>> /\ StolenBelow' = StolenBelow
        /\ \A i \in Index \ {tt[p]} : slot'[i] = slot[i] /\ flag'[i] = flag[i]
        /\ \A q \in Thieves \ {p} : tpc'[q] = tpc[q] /\ tt'[q] = tt[q]
    BY <1>StealPut, <2>1 DEF StealPut, StolenBelow
  <2>3. Holding(p)' /\ tt'[p] = tt[p]
    BY <1>StealPut, <2>1 DEF StealPut, Holding
  <2> QED
    BY <2>1, <2>2, <2>3, <1>keep
<1>StealFinish. ASSUME NEW p \in Thieves, StealFinish(p) PROVE SlotInv'
  <2>1. Holding(p) /\ tt[p] \in Index
    BY <1>StealFinish, <1>held DEF StealFinish, DropIndex, Holding
  <2>2. /\ UNCHANGED <<head, opc, token>> /\ StolenBelow' = StolenBelow
        /\ \A i \in Index \ {tt[p]} : slot'[i] = slot[i] /\ flag'[i] = flag[i]
        /\ \A q \in Thieves \ {p} : tpc'[q] = tpc[q] /\ tt'[q] = tt[q]
    BY <1>StealFinish, <2>1 DEF StealFinish, DropIndex, StolenBelow
  <2>3. flag'[tt[p]] = THIEF_FINISHED /\ slot'[tt[p]] = Output(token[tt[p]])
    BY <1>StealFinish, <2>1
       DEF StealFinish, DropIndex, ThiefInv, ThiefOK, Finished, Holding
  <2> QED
    BY <2>1, <2>2, <2>3, <1>keep
<1> USE DEF SlotInv, Finished, Ready, Free, Holding, OwnerInv,
            StolenBelow, Shifting, Acking, Input, Output, Empty
<1>stutter. CASE UNCHANGED vars
  BY <1>stutter DEF vars
<1>Overflow. CASE Overflow
  BY <1>Overflow DEF Overflow
<1>Publish. CASE Publish
  BY <1>Publish DEF Publish
<1>Open. CASE Open
  BY <1>Open DEF Open
<1>AckLoad. CASE AckLoad
  BY <1>AckLoad DEF AckLoad
<1>AckClear. CASE AckClear
  BY <1>AckClear DEF AckClear
<1>PushReq. CASE PushReq
  BY <1>PushReq DEF PushReq, LoadReq
<1>PushGrow. CASE PushGrow
  BY <1>PushGrow DEF PushGrow, GrowShared, SetSharedSplit
<1>PushClear. CASE PushClear
  BY <1>PushClear DEF PushClear, GrowClear
<1>SyncFast. CASE SyncFast
  BY <1>SyncFast DEF SyncFast, CanSync
<1>SyncSlow. CASE SyncSlow
  BY <1>SyncSlow DEF SyncSlow, CanSync
<1>ShrinkLoad. CASE ShrinkLoad
  BY <1>ShrinkLoad DEF ShrinkLoad
<1>ShrinkMove. CASE ShrinkMove
  BY <1>ShrinkMove DEF ShrinkMove, SetSharedSplit, DropRegs
<1>ShrinkFix. CASE ShrinkFix
  BY <1>ShrinkFix DEF ShrinkFix, SetSharedSplit, DropRegs
<1>Seal. CASE Seal
  BY <1>Seal DEF Seal
<1>PopReq. CASE PopReq
  BY <1>PopReq DEF PopReq, LoadReq
<1>PopGrow. CASE PopGrow
  BY <1>PopGrow DEF PopGrow, GrowShared, SetSharedSplit
<1>PopClear. CASE PopClear
  BY <1>PopClear DEF PopClear, GrowClear
<1>TakeWork. CASE TakeWork
  BY <1>TakeWork DEF TakeWork
<1>Reclaim. CASE Reclaim
  BY <1>Reclaim DEF Reclaim
<1>ResetFlag. CASE ResetFlag
  BY <1>ResetFlag DEF ResetFlag
<1>TakeOutput. CASE TakeOutput
  BY <1>TakeOutput DEF TakeOutput
<1>StealEmpty. ASSUME NEW p \in Thieves, StealEmpty(p) PROVE SlotInv'
  BY <1>StealEmpty DEF StealEmpty, vars
<1>StealBegin. ASSUME NEW p \in Thieves, StealBegin(p) PROVE SlotInv'
  BY <1>StealBegin DEF StealBegin
<1>StealCas. ASSUME NEW p \in Thieves, StealCas(p) PROVE SlotInv'
  BY <1>StealCas DEF StealCas
<1>StealRetry. ASSUME NEW p \in Thieves, StealRetry(p) PROVE SlotInv'
  BY <1>StealRetry DEF StealRetry, DropIndex
<1>RequestLoad. ASSUME NEW p \in Thieves, RequestLoad(p) PROVE SlotInv'
  BY <1>RequestLoad DEF RequestLoad
<1>RequestSet. ASSUME NEW p \in Thieves, RequestSet(p) PROVE SlotInv'
  BY <1>RequestSet DEF RequestSet
<1> QED
  BY <1>stutter, <1>Push, <1>Overflow, <1>Publish, <1>Open, <1>AckLoad,
     <1>AckClear, <1>PushReq, <1>PushGrow, <1>PushClear, <1>SyncFast,
     <1>SyncSlow, <1>ShrinkLoad, <1>ShrinkMove, <1>ShrinkFix, <1>Seal,
     <1>PopReq, <1>PopGrow, <1>PopClear, <1>TakeWork, <1>SpinFlag,
     <1>LoopFlag, <1>Reclaim, <1>ResetFlag, <1>TakeOutput, <1>StealEmpty,
     <1>StealBegin, <1>StealLoad, <1>StealCas, <1>StealRetry, <1>StealClaim,
     <1>StealTake, <1>StealPut, <1>StealFinish, <1>RequestLoad,
     <1>RequestSet
     DEF Next, OwnerInside, Sync, ThiefInside, ThiefTry

(* Every step keeps each thief the only user of the slot it has won.       *)
LEMMA ThiefStep ==
  ASSUME IndInv, [Next]_vars
  PROVE  ThiefInv'
<1>keep. ASSUME UNCHANGED thief,
                \A p \in Thieves : Holding(p) => tt[p] < StolenBelow',
                \A i \in Index : i < StolenBelow' =>
                   /\ slot'[i] = slot[i] /\ flag'[i] = flag[i]
                   /\ token'[i] = token[i]
         PROVE  ThiefInv'
  BY <1>keep, OwnerKeepsThieves
<1>held. ASSUME NEW p \in Thieves, Holding(p)
         PROVE  /\ tt[p] \in Index /\ tt[p] < head /\ tt[p] < StolenBelow
                /\ flag[tt[p]] # THIEF_FINISHED
  BY <1>held, HeldSlot
<1>sb. StolenBelow \in 0 .. head
  BY StolenBelowRange DEF IndInv
<1> USE SizeAssumption, FlagAssumption, TaskAssumption, ModeAssumption
<1> USE DEF IndInv, TypeOK, Index, Bound, OwnerPC, ThiefPC, OwnerAt, ThiefAt,
            word, flags, buffer, owned, regs, client, thief, owner
<1>Push. ASSUME NEW t \in Tasks, Push(t) PROVE ThiefInv'
  <2>1. StolenBelow' = StolenBelow
    BY <1>Push DEF Push, OwnerInv, StolenBelow, Acking, Shifting
  <2>2. UNCHANGED thief /\ \A i \in Index : i < StolenBelow =>
          slot'[i] = slot[i] /\ flag'[i] = flag[i] /\ token'[i] = token[i]
    BY <1>Push, <1>sb DEF Push
  <2> QED
    BY <2>1, <2>2, <1>held, <1>keep
<1>TakeWork. CASE TakeWork
  <2>1. StolenBelow' = StolenBelow
    BY <1>TakeWork DEF TakeWork, OwnerInv, StolenBelow, Acking
  <2>2. UNCHANGED thief /\ \A i \in Index : i < StolenBelow =>
          slot'[i] = slot[i] /\ flag'[i] = flag[i] /\ token'[i] = token[i]
    BY <1>TakeWork, <1>sb DEF TakeWork
  <2> QED
    BY <2>1, <2>2, <1>held, <1>keep
<1>Reclaim. CASE Reclaim
  <2>1. StolenBelow' = head - 1 /\ head - 1 \in Index
    BY <1>Reclaim DEF Reclaim, OwnerInv, StolenBelow
  <2>2. flag[head - 1] = THIEF_FINISHED
    BY <1>Reclaim, <2>1 DEF Reclaim, SlotInv, Finished
  <2>3. UNCHANGED <<thief, slot, flag, token>>
    BY <1>Reclaim DEF Reclaim
  <2>4. \A p \in Thieves : Holding(p) => tt[p] < head - 1
    BY <2>1, <2>2, <1>held
  <2> QED
    BY <2>1, <2>3, <2>4, <1>keep
<1>TakeOutput. CASE TakeOutput
  <2>1. StolenBelow' = StolenBelow
    BY <1>TakeOutput DEF TakeOutput, OwnerInv, StolenBelow, Acking
  <2>2. UNCHANGED thief /\ \A i \in Index : i < StolenBelow =>
          slot'[i] = slot[i] /\ flag'[i] = flag[i] /\ token'[i] = token[i]
    BY <1>TakeOutput, <1>sb DEF TakeOutput
  <2> QED
    BY <2>1, <2>2, <1>held, <1>keep
<1>StealLoad. ASSUME NEW p \in Thieves, StealLoad(p) PROVE ThiefInv'
  <2>1. tpc'[p] = "cas" => tt'[p] < ts'[p]
    BY <1>StealLoad DEF StealLoad
  <2>2. ~Holding(p)'
    BY <1>StealLoad DEF StealLoad, Holding
  <2>3. /\ UNCHANGED <<slot, flag, token, got>> /\ StolenBelow' = StolenBelow
        /\ \A q \in Thieves \ {p} : /\ tpc'[q] = tpc[q] /\ tt'[q] = tt[q]
                                    /\ ts'[q] = ts[q]
    BY <1>StealLoad DEF StealLoad, StolenBelow
  <2> QED
    <3>2. ASSUME NEW q \in Thieves \ {p} PROVE ThiefOK(q)'
      <4>1. ThiefOK(q)
        BY <3>2 DEF ThiefInv
      <4>2. /\ tpc'[q] = tpc[q] /\ tt'[q] = tt[q] /\ ts'[q] = ts[q]
            /\ got'[q] = got[q]
        BY <2>3, <3>2
      <4>3. Holding(q)' =>
              \A r \in Thieves \ {q} : Holding(r)' => tt'[r] # tt'[q]
        <5> SUFFICES ASSUME Holding(q)', NEW r \in Thieves \ {q}, Holding(r)'
                     PROVE  tt'[r] # tt'[q]
          OBVIOUS
        <5>1. r # p
          BY <2>2
        <5> QED
          BY <2>3, <4>1, <4>2, <5>1 DEF ThiefOK, Holding
      <4> QED
        BY <2>3, <4>1, <4>2, <4>3
        DEF ThiefOK, Holding, Input, Output, Running, Empty
    <3>3. ThiefOK(p)'
      BY <2>1, <2>2 DEF ThiefOK, Holding
    <3> QED
      BY <3>2, <3>3 DEF ThiefInv
<1> USE DEF ThiefInv, ThiefOK, SlotInv, Finished, Ready, Free, Holding,
            OwnerInv, StolenBelow, Shifting, Acking, Input, Output, Empty
<1>stutter. CASE UNCHANGED vars
  BY <1>stutter DEF vars
<1>Overflow. CASE Overflow
  BY <1>Overflow DEF Overflow
<1>Publish. CASE Publish
  BY <1>Publish DEF Publish
<1>Open. CASE Open
  BY <1>Open DEF Open
<1>AckLoad. CASE AckLoad
  BY <1>AckLoad DEF AckLoad
<1>AckClear. CASE AckClear
  BY <1>AckClear DEF AckClear
<1>PushReq. CASE PushReq
  BY <1>PushReq DEF PushReq, LoadReq
<1>PushGrow. CASE PushGrow
  BY <1>PushGrow DEF PushGrow, GrowShared, SetSharedSplit
<1>PushClear. CASE PushClear
  BY <1>PushClear DEF PushClear, GrowClear
<1>SyncFast. CASE SyncFast
  BY <1>SyncFast DEF SyncFast, CanSync
<1>SyncSlow. CASE SyncSlow
  BY <1>SyncSlow DEF SyncSlow, CanSync
<1>ShrinkLoad. CASE ShrinkLoad
  BY <1>ShrinkLoad DEF ShrinkLoad
<1>ShrinkMove. CASE ShrinkMove
  BY <1>ShrinkMove DEF ShrinkMove, SetSharedSplit, DropRegs
<1>ShrinkFix. CASE ShrinkFix
  BY <1>ShrinkFix DEF ShrinkFix, SetSharedSplit, DropRegs
<1>Seal. CASE Seal
  BY <1>Seal DEF Seal
<1>PopReq. CASE PopReq
  BY <1>PopReq DEF PopReq, LoadReq
<1>PopGrow. CASE PopGrow
  BY <1>PopGrow DEF PopGrow, GrowShared, SetSharedSplit
<1>PopClear. CASE PopClear
  BY <1>PopClear DEF PopClear, GrowClear
<1>SpinFlag. CASE SpinFlag
  BY <1>SpinFlag DEF SpinFlag
<1>LoopFlag. CASE LoopFlag
  BY <1>LoopFlag DEF LoopFlag
<1>ResetFlag. CASE ResetFlag
  BY <1>ResetFlag DEF ResetFlag
<1>StealEmpty. ASSUME NEW p \in Thieves, StealEmpty(p) PROVE ThiefInv'
  BY <1>StealEmpty DEF StealEmpty, vars
<1>StealBegin. ASSUME NEW p \in Thieves, StealBegin(p) PROVE ThiefInv'
  BY <1>StealBegin DEF StealBegin
<1>StealCas. ASSUME NEW p \in Thieves, StealCas(p) PROVE ThiefInv'
  BY <1>StealCas DEF StealCas
<1>StealRetry. ASSUME NEW p \in Thieves, StealRetry(p) PROVE ThiefInv'
  BY <1>StealRetry DEF StealRetry, DropIndex
<1>StealClaim. ASSUME NEW p \in Thieves, StealClaim(p) PROVE ThiefInv'
  BY <1>StealClaim DEF StealClaim
<1>StealTake. ASSUME NEW p \in Thieves, StealTake(p) PROVE ThiefInv'
  BY <1>StealTake DEF StealTake
<1>StealPut. ASSUME NEW p \in Thieves, StealPut(p) PROVE ThiefInv'
  BY <1>StealPut DEF StealPut
<1>StealFinish. ASSUME NEW p \in Thieves, StealFinish(p) PROVE ThiefInv'
  BY <1>StealFinish DEF StealFinish, DropIndex
<1>RequestLoad. ASSUME NEW p \in Thieves, RequestLoad(p) PROVE ThiefInv'
  BY <1>RequestLoad DEF RequestLoad
<1>RequestSet. ASSUME NEW p \in Thieves, RequestSet(p) PROVE ThiefInv'
  BY <1>RequestSet DEF RequestSet
<1> QED
  BY <1>stutter, <1>Push, <1>Overflow, <1>Publish, <1>Open, <1>AckLoad,
     <1>AckClear, <1>PushReq, <1>PushGrow, <1>PushClear, <1>SyncFast,
     <1>SyncSlow, <1>ShrinkLoad, <1>ShrinkMove, <1>ShrinkFix, <1>Seal,
     <1>PopReq, <1>PopGrow, <1>PopClear, <1>TakeWork, <1>SpinFlag,
     <1>LoopFlag, <1>Reclaim, <1>ResetFlag, <1>TakeOutput, <1>StealEmpty,
     <1>StealBegin, <1>StealLoad, <1>StealCas, <1>StealRetry, <1>StealClaim,
     <1>StealTake, <1>StealPut, <1>StealFinish, <1>RequestLoad,
     <1>RequestSet
     DEF Next, OwnerInside, Sync, ThiefInside, ThiefTry

------------------------------------------------------------------------------
(* The initial deque satisfies the invariant.                              *)
LEMMA IndInvInit ==
  ASSUME Init
  PROVE  IndInv
<1> USE SizeAssumption, FlagAssumption, TaskAssumption, ModeAssumption
<1> USE DEF Init, Index, Bound, StolenBelow, Holding, Empty
<1>1. TypeOK
  <2>1. Empty \in [task : Tasks \cup {NoTask},
                   io   : {"none", "input", "running", "output"}]
    OBVIOUS
  <2>2. slot \in [Index -> [task : Tasks \cup {NoTask},
                            io   : {"none", "input", "running", "output"}]]
    BY <2>1
  <2>3. /\ flag \in [Index -> Thieves \cup {THIEF_NONE, THIEF_FINISHED}]
        /\ token \in [Index -> Tasks \cup {NoTask}]
        /\ got \in [Thieves -> Tasks \cup {NoTask}]
    OBVIOUS
  <2>4. /\ tpc \in [Thieves -> ThiefPC]
        /\ tt \in [Thieves -> Bound] /\ ts \in [Thieves -> Bound]
    BY DEF ThiefPC
  <2>5. opc \in OwnerPC /\ waiting \in SUBSET Index /\ 0 \in Bound
    BY DEF OwnerPC
  <2> HIDE DEF Index, Bound, Empty
  <2> QED
    BY <2>2, <2>3, <2>4, <2>5 DEF TypeOK
<1>2. OwnerInv /\ WaitingInv
  BY DEF OwnerInv, WaitingInv, Acking, Shifting
<1>3. SlotInv
  BY DEF SlotInv, Free, Finished, Ready
<1>4. ThiefInv
  BY DEF ThiefInv, ThiefOK
<1> QED
  BY <1>1, <1>2, <1>3, <1>4 DEF IndInv

(* Every step preserves it.                                                *)
LEMMA IndInvStep ==
  ASSUME IndInv, [Next]_vars
  PROVE  IndInv'
  BY TypeStep, OwnerInvStep, WaitingStep, SlotStep, ThiefStep DEF IndInv

(* Every reachable state of the deque satisfies the inductive invariant.   *)
THEOREM Invariance == Spec => []IndInv
<1>1. Init => IndInv
  BY IndInvInit
<1>2. IndInv /\ [Next]_vars => IndInv'
  BY IndInvStep
<1> QED
  BY <1>1, <1>2, PTL DEF Spec

(* Every variable keeps its type: in particular tail, split and head never *)
(* leave 0 .. BufferSize, so no index into the buffer is out of range.     *)
THEOREM TypeCorrect == Spec => []TypeOK
<1>1. IndInv => TypeOK
  BY DEF IndInv
<1> QED
  BY <1>1, Invariance, PTL

(* What the owner_invariants! macro asserts holds wherever it is asserted. *)
THEOREM OwnerInvariantsHold == Spec => []OwnerInvariants
<1>1. IndInv => OwnerInvariants
  BY DEF IndInv, TypeOK, OwnerInv, OwnerInvariants, Shifting
<1> QED
  BY <1>1, Invariance, PTL

(* No slot of the buffer ever has two users: the plain Cells of the buffer *)
(* are free of data races.                                                 *)
THEOREM SlotsExclusive == Spec => []SlotExclusive
<1>1. IndInv => SlotExclusive
  <2> SUFFICES ASSUME IndInv PROVE SlotExclusive
    OBVIOUS
  <2>1. ASSUME NEW p \in Thieves, Holding(p) PROVE tt[p] < head
    BY <2>1, HeldSlot
  <2> QED
    BY <2>1 DEF IndInv, ThiefInv, ThiefOK, SlotExclusive
<1> QED
  BY <1>1, Invariance, PTL

(* sync returns the result of the task its own token was made for, whether *)
(* the owner or a thief runs it.                                           *)
THEOREM SyncCorrect == Spec => []SyncReturnsOwnTask
<1>1. IndInv => SyncReturnsOwnTask
  BY SizeAssumption
     DEF IndInv, TypeOK, OwnerInv, SlotInv, Ready, SyncReturnsOwnTask,
         Index, Bound
<1> QED
  BY <1>1, Invariance, PTL

(* The assertions on thief flags and slots never fire.                     *)
THEOREM FlagsCorrect == Spec => []FlagProtocol
<1>1. IndInv => FlagProtocol
  <2> SUFFICES ASSUME IndInv PROVE FlagProtocol
    OBVIOUS
  <2>1. opc = "idle" /\ head < BufferSize =>
          flag[head] = THIEF_NONE /\ slot[head] = Empty
    BY SizeAssumption DEF IndInv, TypeOK, SlotInv, Free, Index, Bound
  <2>2. opc = "reset" => flag[head] = THIEF_FINISHED
    BY SizeAssumption
       DEF IndInv, TypeOK, OwnerInv, SlotInv, Finished, Index, Bound
  <2>3. ASSUME NEW p \in Thieves
        PROVE  /\ tpc[p] = "claim" => flag[tt[p]] = THIEF_NONE
               /\ tpc[p] = "take" => slot[tt[p]].io = "input"
               /\ tpc[p] = "run" /\ ~InPlace => slot[tt[p]] = Empty
    <3>1. ThiefOK(p)
      BY <2>3 DEF IndInv, ThiefInv
    <3> QED
      BY <3>1 DEF ThiefOK, Holding, Input
  <2> QED
    BY <2>1, <2>2, <2>3 DEF FlagProtocol
<1> QED
  BY <1>1, Invariance, PTL

(* The plain store of push_allstolen never overwrites a successful steal.  *)
THEOREM PublishIsSafe == Spec => []NoStealLost
<1>1. IndInv => NoStealLost
  BY DEF IndInv, TypeOK, OwnerInv, ThiefInv, ThiefOK, Acking, NoStealLost,
         Bound
<1> QED
  BY <1>1, Invariance, PTL

(* Every xor on split_tail turns the old split into the new one.           *)
THEOREM XorIsStore == Spec => []XorHitsOldSplit
<1>1. IndInv => XorHitsOldSplit
  BY DEF IndInv, OwnerInv, Shifting, XorHitsOldSplit
<1> QED
  BY <1>1, Invariance, PTL

(* Serving a split request with private work left shares at least one task.*)
THEOREM GrowingShares == Spec => GrowShares
<1>1. IndInv /\ [Next]_vars =>
        [(PushGrow \/ PopGrow) /\ osplit < head => split' > split]_vars
  <2> SUFFICES ASSUME IndInv, PushGrow \/ PopGrow, osplit < head
               PROVE  split' > split
    OBVIOUS
  <2>1. split = osplit /\ osplit \in Nat /\ head \in Nat
    BY SizeAssumption
       DEF IndInv, TypeOK, OwnerInv, Shifting, PushGrow, PopGrow, GrowShared,
           OwnerAt, Bound
  <2>2. split' = (osplit + head + 1) \div 2
    BY <2>1 DEF PushGrow, PopGrow, GrowShared, SetSharedSplit
  <2> QED
    BY <2>1, <2>2, Midpoint
<1> QED
  BY <1>1, Invariance, PTL DEF Spec, GrowShares

------------------------------------------------------------------------------
(* SplitDeque implements WorkDeque.                                        *)

(* A step that keeps head, the stolen prefix, the tokens below head and    *)
(* the set of finished tasks is invisible to the callers of the deque.     *)
LEMMA Invisible ==
  ASSUME TypeOK, head' = head, StolenBelow' = StolenBelow,
         \A i \in Index : i < head => token'[i] = token[i],
         \A i \in Index : i < StolenBelow =>
            (flag'[i] = THIEF_FINISHED <=> flag[i] = THIEF_FINISHED),
         StolenBelow \in 0 .. head
  PROVE  UNCHANGED Abs!absVars
<1>1. \A i \in Index : StatusOf(i)' = StatusOf(i)
  BY DEF StatusOf, TypeOK, Index, Bound
<1>2. AbsTasks' = AbsTasks /\ AbsStatuses' = AbsStatuses
  BY <1>1 DEF AbsTasks, AbsStatuses
<1> QED
  BY <1>2 DEF Abs!absVars

(* A step in which the owner takes back the top, a ready task.             *)
LEMMA TakeIsTake ==
  ASSUME TypeOK, head > 0, head' = head - 1, StolenBelow' = StolenBelow,
         StolenBelow \in 0 .. head - 1, token' = token, flag' = flag
  PROVE  Abs!AbsTake
<1>1. head - 1 \in Index /\ StatusOf(head - 1) = "ready"
  BY SizeAssumption DEF TypeOK, StatusOf, Index, Bound
<1>2. \A i \in Index : StatusOf(i)' =
         IF i = head - 1 THEN "free" ELSE StatusOf(i)
  BY SizeAssumption DEF StatusOf, TypeOK, Index, Bound
<1>3. AbsStatuses' = [AbsStatuses EXCEPT ![head - 1] = "free"]
  BY <1>1, <1>2 DEF AbsStatuses
<1>4. AbsTasks' = [AbsTasks EXCEPT ![head - 1] = NoTask]
  <2>1. \A i \in Index : (i < head - 1) <=> (i < head /\ i # head - 1)
    BY SizeAssumption DEF TypeOK, Index, Bound
  <2>2. AbsTasks' =
          [i \in Index |-> IF i = head - 1 THEN NoTask ELSE AbsTasks[i]]
    BY <2>1 DEF AbsTasks
  <2> QED
    BY <1>1, <2>2 DEF AbsTasks
<1> QED
  BY <1>1, <1>3, <1>4 DEF Abs!AbsTake, Abs!Settle, AbsStatuses

(* Every step of the deque is one of the abstract stack or invisible: the  *)
(* visible ones are Push, the exchange of a thief, its FINISHED, and the   *)
(* steps with which the owner takes the top back.                          *)
LEMMA StepRefines ==
  ASSUME IndInv, [Next]_vars
  PROVE  [Abs!AbsNext]_Abs!absVars
<1>range. StolenBelow \in 0 .. head
  BY StolenBelowRange DEF IndInv
<1>held. ASSUME NEW p \in Thieves, Holding(p)
         PROVE  /\ tt[p] \in Index /\ tt[p] < head /\ tt[p] < StolenBelow
                /\ flag[tt[p]] # THIEF_FINISHED
  BY <1>held, HeldSlot
<1> DEFINE Quiet ==
      /\ head' = head /\ StolenBelow' = StolenBelow
      /\ \A i \in Index : i < head => token'[i] = token[i]
      /\ \A i \in Index : i < StolenBelow =>
            (flag'[i] = THIEF_FINISHED <=> flag[i] = THIEF_FINISHED)
<1>quiet. ASSUME Quiet PROVE [Abs!AbsNext]_Abs!absVars
  BY <1>quiet, <1>range, Invisible DEF IndInv
<1> DEFINE Takes == /\ head > 0 /\ head' = head - 1
                    /\ StolenBelow' = StolenBelow
                    /\ StolenBelow \in 0 .. head - 1
                    /\ token' = token /\ flag' = flag
<1>takes. ASSUME Takes PROVE [Abs!AbsNext]_Abs!absVars
  BY <1>takes, TakeIsTake DEF IndInv, Abs!AbsNext
<1> USE SizeAssumption, FlagAssumption
<1>stutter. CASE UNCHANGED vars
  <2>1. Quiet
    BY <1>stutter DEF vars, IndInv, TypeOK, OwnerInv, StolenBelow, Acking,
           Shifting, Bound, OwnerAt, ThiefAt, word, flags, buffer, owned, regs,
           client, thief, owner
  <2> QED
    BY <2>1, <1>quiet
<1> DEFINE Goal == [Abs!AbsNext]_Abs!absVars
<1>Push. ASSUME NEW t \in Tasks, Push(t) PROVE Goal
  <2>1. /\ head < BufferSize /\ head \in Index /\ head' = head + 1
        /\ StolenBelow' = StolenBelow
        /\ flag' = flag /\ token' = [token EXCEPT ![head] = t]
    BY <1>Push
       DEF Push, IndInv, TypeOK, OwnerInv, StolenBelow, Acking, Shifting,
           Bound, OwnerAt, ThiefAt, word, flags, buffer, owned, regs, client,
           thief, owner, Index
  <2>2. \A i \in Index : StatusOf(i)' =
           IF i = head THEN "ready" ELSE StatusOf(i)
    BY <2>1, <1>range DEF StatusOf, IndInv, TypeOK, Index, Bound
  <2>3. AbsStatuses' = [AbsStatuses EXCEPT ![head] = "ready"]
    BY <2>1, <2>2 DEF AbsStatuses
  <2>4. AbsTasks' = [AbsTasks EXCEPT ![head] = t]
    <3>1. \A i \in Index : (i < head + 1) <=> (i < head \/ i = head)
      BY DEF IndInv, TypeOK, Index, Bound
    <3>2. AbsTasks' = [i \in Index |-> IF i = head THEN t ELSE AbsTasks[i]]
      <4>1. \A i \in Index : token'[i] = IF i = head THEN t ELSE token[i]
        BY <2>1 DEF IndInv, TypeOK
      <4>2. ~(head < head)
        BY DEF IndInv, TypeOK, Bound
      <4> QED
        BY <2>1, <3>1, <4>1, <4>2 DEF AbsTasks
    <3> QED
      BY <2>1, <3>2 DEF AbsTasks
  <2>5. Abs!AbsPush(t)
    BY <2>1, <2>3, <2>4 DEF Abs!AbsPush
  <2> QED
    BY <2>5 DEF Abs!AbsNext
<1>Overflow. CASE Overflow
  <2>1. Quiet
    BY <1>Overflow DEF Overflow, IndInv, TypeOK, OwnerInv, StolenBelow, Acking,
           Shifting, Bound, OwnerAt, ThiefAt, word, flags, buffer, owned, regs,
           client, thief, owner
  <2> QED
    BY <2>1, <1>quiet
<1>Publish. CASE Publish
  <2>1. Quiet
    BY <1>Publish DEF Publish, IndInv, TypeOK, OwnerInv, StolenBelow, Acking,
           Shifting, Bound, OwnerAt, ThiefAt, word, flags, buffer, owned, regs,
           client, thief, owner
  <2> QED
    BY <2>1, <1>quiet
<1>Open. CASE Open
  <2>1. Quiet
    BY <1>Open DEF Open, IndInv, TypeOK, OwnerInv, StolenBelow, Acking,
           Shifting, Bound, OwnerAt, ThiefAt, word, flags, buffer, owned, regs,
           client, thief, owner
  <2> QED
    BY <2>1, <1>quiet
<1>AckLoad. CASE AckLoad
  <2>1. Quiet
    BY <1>AckLoad DEF AckLoad, IndInv, TypeOK, OwnerInv, StolenBelow, Acking,
           Shifting, Bound, OwnerAt, ThiefAt, word, flags, buffer, owned, regs,
           client, thief, owner
  <2> QED
    BY <2>1, <1>quiet
<1>AckClear. CASE AckClear
  <2>1. Quiet
    BY <1>AckClear DEF AckClear, IndInv, TypeOK, OwnerInv, StolenBelow, Acking,
           Shifting, Bound, OwnerAt, ThiefAt, word, flags, buffer, owned, regs,
           client, thief, owner
  <2> QED
    BY <2>1, <1>quiet
<1>PushReq. CASE PushReq
  <2>1. Quiet
    BY <1>PushReq
       DEF PushReq, LoadReq, IndInv, TypeOK, OwnerInv, StolenBelow, Acking,
           Shifting, Bound, OwnerAt, ThiefAt, word, flags, buffer, owned,
           regs, client, thief, owner
  <2> QED
    BY <2>1, <1>quiet
<1>PushGrow. CASE PushGrow
  <2>1. Quiet
    BY <1>PushGrow
       DEF PushGrow, GrowShared, SetSharedSplit, IndInv, TypeOK, OwnerInv,
           StolenBelow, Acking, Shifting, Bound, OwnerAt, ThiefAt, word,
           flags, buffer, owned, regs, client, thief, owner
  <2> QED
    BY <2>1, <1>quiet
<1>PushClear. CASE PushClear
  <2>1. Quiet
    BY <1>PushClear
       DEF PushClear, GrowClear, IndInv, TypeOK, OwnerInv, StolenBelow,
           Acking, Shifting, Bound, OwnerAt, ThiefAt, word, flags, buffer,
           owned, regs, client, thief, owner
  <2> QED
    BY <2>1, <1>quiet
<1>SyncFast. CASE SyncFast
  <2>1. Takes
    BY <1>SyncFast
       DEF SyncFast, CanSync, IndInv, TypeOK, OwnerInv, StolenBelow, Acking,
           Shifting, Bound, OwnerAt, ThiefAt, word, flags, buffer, owned,
           regs, client, thief, owner
  <2> QED
    BY <2>1, <1>takes
<1>SyncSlow. CASE SyncSlow
  <2>1. CASE oallstolen \/ osplit = head
    <3>1. Quiet
      BY <1>SyncSlow, <2>1
         DEF SyncSlow, CanSync, IndInv, TypeOK, OwnerInv, StolenBelow, Acking,
             Shifting, Bound, OwnerAt, ThiefAt, word, flags, buffer, owned,
             regs, client, thief, owner
    <3> QED
      BY <3>1, <1>quiet
  <2>2. CASE ~oallstolen /\ osplit # head
    <3>0. opc = "idle" /\ head > 0 /\ opc' = "popped" /\ head' = head - 1
      BY <1>SyncSlow, <2>2 DEF SyncSlow, CanSync, OwnerAt
    <3>1. osplit <= head /\ tail <= osplit
      BY <3>0, <2>2 DEF IndInv, OwnerInv, Shifting
    <3>2. UNCHANGED <<tail, token, flag>>
      BY <1>SyncSlow DEF SyncSlow, word, buffer, client
    <3>3. Takes
      BY <2>2, <3>0, <3>1, <3>2 DEF IndInv, TypeOK, StolenBelow, Bound
    <3> QED
      BY <3>3, <1>takes
  <2> QED
    BY <2>1, <2>2
<1>ShrinkLoad. CASE ShrinkLoad
  <2>1. Quiet
    BY <1>ShrinkLoad
       DEF ShrinkLoad, IndInv, TypeOK, OwnerInv, StolenBelow, Acking,
           Shifting, Bound, OwnerAt, ThiefAt, word, flags, buffer, owned,
           regs, client, thief, owner
  <2> QED
    BY <2>1, <1>quiet
<1>ShrinkMove. CASE ShrinkMove
  <2>1. CASE tail = rs \/ tail > rn
    <3>1. Quiet
      BY <1>ShrinkMove, <2>1
         DEF ShrinkMove, SetSharedSplit, DropRegs, IndInv, TypeOK, OwnerInv,
             StolenBelow, Acking, Shifting, Bound, OwnerAt, ThiefAt, word,
             flags, buffer, owned, regs, client, thief, owner
    <3> QED
      BY <3>1, <1>quiet
  <2>2. CASE tail # rs /\ ~(tail > rn)
    <3>0. /\ tail <= rn /\ rn < head /\ head > 0
          /\ opc = "move" /\ opc' = "popped" /\ head' = head - 1
          /\ UNCHANGED <<tail, token, flag>>
      <4>1. rs = osplit /\ osplit = head /\ rt < rs /\ rn = (rt + rs) \div 2
        BY <1>ShrinkMove, <2>2
           DEF ShrinkMove, IndInv, TypeOK, OwnerInv, Shifting
      <4> QED
        BY <1>ShrinkMove, <2>2, <4>1, Midpoint
           DEF ShrinkMove, IndInv, TypeOK, Bound, buffer, client
    <3>1. Takes
      BY <3>0 DEF IndInv, TypeOK, StolenBelow, Bound
    <3> QED
      BY <3>1, <1>takes
  <2> QED
    BY <2>1, <2>2
<1>ShrinkFix. CASE ShrinkFix
  <2>1. Takes
    BY <1>ShrinkFix
       DEF ShrinkFix, SetSharedSplit, DropRegs, IndInv, TypeOK, OwnerInv,
           StolenBelow, Acking, Shifting, Bound, OwnerAt, ThiefAt, word,
           flags, buffer, owned, regs, client, thief, owner
  <2> QED
    BY <2>1, <1>takes
<1>Seal. CASE Seal
  <2>1. Quiet
    BY <1>Seal DEF Seal, IndInv, TypeOK, OwnerInv, StolenBelow, Acking,
           Shifting, Bound, OwnerAt, ThiefAt, word, flags, buffer, owned, regs,
           client, thief, owner
  <2> QED
    BY <2>1, <1>quiet
<1>PopReq. CASE PopReq
  <2>1. Quiet
    BY <1>PopReq
       DEF PopReq, LoadReq, IndInv, TypeOK, OwnerInv, StolenBelow, Acking,
           Shifting, Bound, OwnerAt, ThiefAt, word, flags, buffer, owned,
           regs, client, thief, owner
  <2> QED
    BY <2>1, <1>quiet
<1>PopGrow. CASE PopGrow
  <2>1. Quiet
    BY <1>PopGrow
       DEF PopGrow, GrowShared, SetSharedSplit, IndInv, TypeOK, OwnerInv,
           StolenBelow, Acking, Shifting, Bound, OwnerAt, ThiefAt, word,
           flags, buffer, owned, regs, client, thief, owner
  <2> QED
    BY <2>1, <1>quiet
<1>PopClear. CASE PopClear
  <2>1. Quiet
    BY <1>PopClear
       DEF PopClear, GrowClear, IndInv, TypeOK, OwnerInv, StolenBelow, Acking,
           Shifting, Bound, OwnerAt, ThiefAt, word, flags, buffer, owned,
           regs, client, thief, owner
  <2> QED
    BY <2>1, <1>quiet
<1>TakeWork. CASE TakeWork
  <2>1. Quiet
    BY <1>TakeWork DEF TakeWork, IndInv, TypeOK, OwnerInv, StolenBelow, Acking,
           Shifting, Bound, OwnerAt, ThiefAt, word, flags, buffer, owned, regs,
           client, thief, owner
  <2> QED
    BY <2>1, <1>quiet
<1>SpinFlag. CASE SpinFlag
  <2>1. Quiet
    BY <1>SpinFlag DEF SpinFlag, IndInv, TypeOK, OwnerInv, StolenBelow, Acking,
           Shifting, Bound, OwnerAt, ThiefAt, word, flags, buffer, owned, regs,
           client, thief, owner
  <2> QED
    BY <2>1, <1>quiet
<1>LoopFlag. CASE LoopFlag
  <2>1. Quiet
    BY <1>LoopFlag DEF LoopFlag, IndInv, TypeOK, OwnerInv, StolenBelow, Acking,
           Shifting, Bound, OwnerAt, ThiefAt, word, flags, buffer, owned, regs,
           client, thief, owner
  <2> QED
    BY <2>1, <1>quiet
<1>Reclaim. CASE Reclaim
  <2>1. /\ head > 0 /\ head - 1 \in Index /\ head' = head - 1
        /\ StolenBelow = head /\ StolenBelow' = head - 1
        /\ UNCHANGED <<token, flag>>
    BY <1>Reclaim
       DEF Reclaim, IndInv, TypeOK, OwnerInv, StolenBelow, Acking, Shifting,
           Bound, OwnerAt, ThiefAt, word, flags, buffer, owned, regs, client,
           thief, owner, Index
  <2>2. flag[head - 1] = THIEF_FINISHED
    BY <1>Reclaim, <2>1 DEF IndInv, SlotInv, Finished, Reclaim, OwnerAt
  <2>3. \A i \in Index : StatusOf(i)' =
           IF i = head - 1 THEN "free" ELSE StatusOf(i)
    BY <2>1 DEF StatusOf, IndInv, TypeOK, Index, Bound
  <2>4. AbsStatuses' = [AbsStatuses EXCEPT ![head - 1] = "free"]
    BY <2>1, <2>3 DEF AbsStatuses
  <2>5. AbsTasks' = [AbsTasks EXCEPT ![head - 1] = NoTask]
    <3>1. \A i \in Index : (i < head - 1) <=> (i < head /\ i # head - 1)
      BY DEF IndInv, TypeOK, Index, Bound
    <3>2. AbsTasks' =
            [i \in Index |-> IF i = head - 1 THEN NoTask ELSE AbsTasks[i]]
      BY <2>1, <3>1 DEF AbsTasks
    <3> QED
      BY <2>1, <3>2 DEF AbsTasks
  <2>6. AbsStatuses[head - 1] = "done"
    BY <2>1, <2>2 DEF AbsStatuses, StatusOf, IndInv, TypeOK, Index, Bound
  <2>7. Abs!AbsReclaim
    BY <2>1, <2>4, <2>5, <2>6 DEF Abs!AbsReclaim, Abs!Settle
  <2> QED
    BY <2>7 DEF Abs!AbsNext
<1>ResetFlag. CASE ResetFlag
  <2>1. Quiet
    BY <1>ResetFlag
       DEF ResetFlag, IndInv, TypeOK, OwnerInv, StolenBelow, Acking, Shifting,
           Bound, OwnerAt, ThiefAt, word, flags, buffer, owned, regs, client,
           thief, owner
  <2> QED
    BY <2>1, <1>quiet
<1>TakeOutput. CASE TakeOutput
  <2>1. Quiet
    BY <1>TakeOutput
       DEF TakeOutput, IndInv, TypeOK, OwnerInv, StolenBelow, Acking,
           Shifting, Bound, OwnerAt, ThiefAt, word, flags, buffer, owned,
           regs, client, thief, owner
  <2> QED
    BY <2>1, <1>quiet
<1>StealEmpty. ASSUME NEW p \in Thieves, StealEmpty(p) PROVE Goal
  <2>1. Quiet
    BY <1>StealEmpty
       DEF StealEmpty, vars, IndInv, TypeOK, OwnerInv, StolenBelow, Acking,
           Shifting, Bound, OwnerAt, ThiefAt, word, flags, buffer, owned,
           regs, client, thief, owner
  <2> QED
    BY <2>1, <1>quiet
<1>StealBegin. ASSUME NEW p \in Thieves, StealBegin(p) PROVE Goal
  <2>1. Quiet
    BY <1>StealBegin
       DEF StealBegin, IndInv, TypeOK, OwnerInv, StolenBelow, Acking,
           Shifting, Bound, OwnerAt, ThiefAt, word, flags, buffer, owned,
           regs, client, thief, owner
  <2> QED
    BY <2>1, <1>quiet
<1>StealLoad. ASSUME NEW p \in Thieves, StealLoad(p) PROVE Goal
  <2>1. Quiet
    BY <1>StealLoad
       DEF StealLoad, IndInv, TypeOK, OwnerInv, StolenBelow, Acking, Shifting,
           Bound, OwnerAt, ThiefAt, word, flags, buffer, owned, regs, client,
           thief, owner
  <2> QED
    BY <2>1, <1>quiet
<1>StealCas. ASSUME NEW p \in Thieves, StealCas(p) PROVE Goal
  <2>1. /\ tail \in Index /\ tail < head /\ StolenBelow = tail
        /\ StolenBelow' = tail + 1
    BY <1>StealCas, CasHitsOldestReady
  <2>2. UNCHANGED <<head, token, flag>>
    BY <1>StealCas DEF StealCas, owner, owned, client, buffer
  <2>3. flag[tail] = THIEF_NONE
    BY <2>1 DEF IndInv, TypeOK, Bound, SlotInv, Ready
  <2>4. \A i \in Index : StatusOf(i)' =
           IF i = tail THEN "stolen" ELSE StatusOf(i)
    BY <2>1, <2>2, <2>3 DEF StatusOf, IndInv, TypeOK, Index, Bound
  <2>5. AbsStatuses' = [AbsStatuses EXCEPT ![tail] = "stolen"]
    BY <2>1, <2>4 DEF AbsStatuses
  <2>6. AbsTasks' = AbsTasks
    BY <2>2 DEF AbsTasks
  <2>7. /\ AbsStatuses[tail] = "ready"
        /\ \A j \in 0 .. tail - 1 : AbsStatuses[j] # "ready"
    BY <2>1 DEF AbsStatuses, StatusOf, IndInv, TypeOK, Index, Bound
  <2>8. Abs!AbsSteal
    BY <2>1, <2>2, <2>5, <2>6, <2>7 DEF Abs!AbsSteal, Abs!Places, Index
  <2> QED
    BY <2>8 DEF Abs!AbsNext
<1>StealRetry. ASSUME NEW p \in Thieves, StealRetry(p) PROVE Goal
  <2>1. Quiet
    BY <1>StealRetry
       DEF StealRetry, DropIndex, IndInv, TypeOK, OwnerInv, StolenBelow,
           Acking, Shifting, Bound, OwnerAt, ThiefAt, word, flags, buffer,
           owned, regs, client, thief, owner
  <2> QED
    BY <2>1, <1>quiet
<1>StealClaim. ASSUME NEW p \in Thieves, StealClaim(p) PROVE Goal
  <2>1. Quiet
    BY <1>StealClaim, <1>held
       DEF StealClaim, IndInv, TypeOK, OwnerInv, StolenBelow, Acking,
           Shifting, Bound, OwnerAt, ThiefAt, word, flags, buffer, owned,
           regs, client, thief, owner, Holding
  <2> QED
    BY <2>1, <1>quiet
<1>StealTake. ASSUME NEW p \in Thieves, StealTake(p) PROVE Goal
  <2>1. Quiet
    BY <1>StealTake
       DEF StealTake, IndInv, TypeOK, OwnerInv, StolenBelow, Acking, Shifting,
           Bound, OwnerAt, ThiefAt, word, flags, buffer, owned, regs, client,
           thief, owner
  <2> QED
    BY <2>1, <1>quiet
<1>StealPut. ASSUME NEW p \in Thieves, StealPut(p) PROVE Goal
  <2>1. Quiet
    BY <1>StealPut DEF StealPut, IndInv, TypeOK, OwnerInv, StolenBelow, Acking,
           Shifting, Bound, OwnerAt, ThiefAt, word, flags, buffer, owned, regs,
           client, thief, owner
  <2> QED
    BY <2>1, <1>quiet
<1>StealFinish. ASSUME NEW p \in Thieves, StealFinish(p) PROVE Goal
  <2>1. tt[p] \in Index /\ tt[p] < head /\ tt[p] < StolenBelow
        /\ flag[tt[p]] # THIEF_FINISHED
    BY <1>StealFinish, <1>held DEF StealFinish, ThiefAt, Holding
  <2>2. /\ UNCHANGED <<head, token>> /\ StolenBelow' = StolenBelow
        /\ flag' = [flag EXCEPT ![tt[p]] = THIEF_FINISHED]
    BY <1>StealFinish
       DEF StealFinish, StolenBelow, owner, owned, client, word
  <2>3. \A i \in Index : StatusOf(i)' =
           IF i = tt[p] THEN "done" ELSE StatusOf(i)
    BY <1>range, <2>1, <2>2 DEF StatusOf, IndInv, TypeOK, Index, Bound
  <2>4. AbsStatuses' = [AbsStatuses EXCEPT ![tt[p]] = "done"]
    BY <2>1, <2>3 DEF AbsStatuses
  <2>5. AbsTasks' = AbsTasks
    BY <2>2 DEF AbsTasks
  <2>6. AbsStatuses[tt[p]] = "stolen"
    BY <1>range, <2>1 DEF AbsStatuses, StatusOf, IndInv, TypeOK, Index, Bound
  <2>7. Abs!AbsFinish
    BY <2>1, <2>2, <2>4, <2>5, <2>6 DEF Abs!AbsFinish, Abs!Places, Index
  <2> QED
    BY <2>7 DEF Abs!AbsNext
<1>RequestLoad. ASSUME NEW p \in Thieves, RequestLoad(p) PROVE Goal
  <2>1. Quiet
    BY <1>RequestLoad
       DEF RequestLoad, IndInv, TypeOK, OwnerInv, StolenBelow, Acking,
           Shifting, Bound, OwnerAt, ThiefAt, word, flags, buffer, owned,
           regs, client, thief, owner
  <2> QED
    BY <2>1, <1>quiet
<1>RequestSet. ASSUME NEW p \in Thieves, RequestSet(p) PROVE Goal
  <2>1. Quiet
    BY <1>RequestSet
       DEF RequestSet, IndInv, TypeOK, OwnerInv, StolenBelow, Acking,
           Shifting, Bound, OwnerAt, ThiefAt, word, flags, buffer, owned,
           regs, client, thief, owner
  <2> QED
    BY <2>1, <1>quiet
<1> QED
  BY <1>stutter, <1>Push, <1>Overflow, <1>Publish, <1>Open, <1>AckLoad,
     <1>AckClear, <1>PushReq, <1>PushGrow, <1>PushClear, <1>SyncFast,
     <1>SyncSlow, <1>ShrinkLoad, <1>ShrinkMove, <1>ShrinkFix, <1>Seal,
     <1>PopReq, <1>PopGrow, <1>PopClear, <1>TakeWork, <1>SpinFlag,
     <1>LoopFlag, <1>Reclaim, <1>ResetFlag, <1>TakeOutput, <1>StealEmpty,
     <1>StealBegin, <1>StealLoad, <1>StealCas, <1>StealRetry, <1>StealClaim,
     <1>StealTake, <1>StealPut, <1>StealFinish, <1>RequestLoad,
     <1>RequestSet
     DEF Next, OwnerInside, Sync, ThiefInside, ThiefTry

(* Every behaviour of the deque, seen through its tokens and tasks, is a   *)
(* behaviour of the abstract task stack.                                   *)
THEOREM Refinement == Spec => ImplementsWorkDeque
<1>1. Init => Abs!AbsInit
  BY SizeAssumption
     DEF Init, Abs!AbsInit, AbsTasks, AbsStatuses, StatusOf, Abs!Places, Index
<1>2. IndInv /\ [Next]_vars => [Abs!AbsNext]_Abs!absVars
  BY StepRefines
<1> QED
  BY <1>1, <1>2, Invariance, PTL DEF Spec, ImplementsWorkDeque, Abs!AbsSpec
==============================================================================
