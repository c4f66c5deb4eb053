--------------------------- MODULE BroadcastProofs ---------------------------
(***************************************************************************)
(* Proofs about Broadcast, for any number of workers and calls, when op    *)
(* does not panic on the root's worker; on the threads it may, and tasks   *)
(* may panic anywhere.  BroadcastInv is inductive: a worker that has not   *)
(* yet subtracted itself from remaining holds the frame, the job and the   *)
(* epoch of the call in place, and one on which op has panicked or is stuck*)
(* holds them for ever.                                                    *)
(***************************************************************************)
EXTENDS Broadcast, FiniteSetTheorems, TLAPS

RootCalm == Root \notin PanickingOps

(* The pending workers can be counted.                                     *)
LEMMA PendingCount ==
  /\ IsFiniteSet(PendingSet)
  /\ Cardinality(PendingSet) \in 0 .. Cardinality(Workers)
  /\ Cardinality(Workers) \in Nat
  /\ Cardinality(PendingSet) = 0 <=> PendingSet = {}
<1>1. PendingSet \subseteq Workers /\ IsFiniteSet(Workers)
  BY WorkersAssumption DEF PendingSet
<1>2. /\ IsFiniteSet(PendingSet)
      /\ Cardinality(PendingSet) <= Cardinality(Workers)
  BY <1>1, FS_Subset
<1>3. Cardinality(PendingSet) \in Nat /\ Cardinality(Workers) \in Nat
  BY <1>1, <1>2, FS_CardinalityType
<1>4. Cardinality(PendingSet) = 0 <=> PendingSet = {}
  BY <1>2, FS_EmptySet
<1> QED  BY <1>2, <1>3, <1>4

(* A worker that subtracts itself was pending, and is no longer.           *)
LEMMA PendingDrop ==
  ASSUME BroadcastInv, NEW w \in Workers, SubRemaining(w)
  PROVE  /\ PendingSet' = PendingSet \ {w}
         /\ Cardinality(PendingSet') = Cardinality(PendingSet) - 1
<1>1. Pending(w) /\ ~Pending(w)'
  BY DEF SubRemaining, WorkerAt, Pending, Fallen, BroadcastInv, WorkerInv,
         TypeOK
<1>2. ASSUME NEW v \in Workers, v # w
      PROVE  Pending(v)' <=> Pending(v)
  BY <1>2
  DEF SubRemaining, WorkerAt, Pending, Fallen, BroadcastInv, TypeOK, frame
<1>3. PendingSet' = PendingSet \ {w} /\ w \in PendingSet
  BY <1>1, <1>2 DEF PendingSet
<1>4. Cardinality(PendingSet \ {w}) = Cardinality(PendingSet) - 1
  BY <1>3, PendingCount, FS_RemoveElement
<1> QED  BY <1>3, <1>4

(* Publishing the epoch makes every worker pending.                        *)
LEMMA PendingAll ==
  ASSUME BroadcastInv, BroadcastPublish
  PROVE  PendingSet' = Workers
<1>1. ASSUME NEW w \in Workers  PROVE  Pending(w)'
  <2>1. ~Pending(w)
    BY DEF BroadcastInv, CallInv, Published, BroadcastPublish, RootAt
  <2>2. wepoch[w] = epoch /\ epoch \in Nat
    BY <2>1, CallsAssumption DEF Pending, Fallen, BroadcastInv, TypeOK
  <2> QED  BY <2>2 DEF Pending, Fallen, BroadcastPublish
<1> QED  BY <1>1 DEF PendingSet

(* The panic of an op or of a task of w.                                   *)
Panic(w) == PanicTask(w) \/ PanicOp(w) \/ (w = Root /\ RunPanics)

(* Nothing moves but workers that are in a task or in op, each of them to  *)
(* where it has no step left, and the root's only out of op.               *)
Felled ==
  /\ UNCHANGED <<shared, rpc, frame, wepoch, wjob>>
  /\ wpc' \in [Workers -> WorkerPC]
  /\ \A v \in Workers : \/ wpc'[v] = wpc[v]
                         \/ /\ wpc[v] \in {"steal", "run"}
                            /\ wpc'[v] \in {"stuck", "crashed"}
  /\ \/ wpc'[Root] = wpc[Root]
     \/ wpc[Root] = "run" /\ wpc'[Root] = "stuck"

(* Every panic does that, be it a task's or an op's.                       *)
LEMMA PanicFells ==
  ASSUME BroadcastInv, RootCalm, NEW w \in Workers, Panic(w)
  PROVE  Felled
<1> USE WorkersAssumption
<1>1. TypeOK /\ wpc[Root] # "steal"
  BY DEF BroadcastInv, RootInv
<1>2. ASSUME NEW to \in WorkerPC, Unwind(w, to)
      PROVE  /\ wpc' \in [Workers -> WorkerPC]
             /\ wpc'[w] = to
             /\ \A v \in Workers \ {w} :
                   \/ wpc'[v] = wpc[v]
                   \/ wpc[v] \in {"steal", "run"} /\ wpc'[v] = "stuck"
  BY <1>1, <1>2 DEF Unwind, TypeOK, WorkerPC
<1>3. CASE PanicTask(w)
  BY <1>1, <1>2, <1>3 DEF PanicTask, Felled, WorkerPC
<1>4. CASE PanicOp(w)
  BY <1>1, <1>2, <1>4 DEF PanicOp, RootCalm, Felled, WorkerPC, frame
<1>5. CASE w = Root /\ RunPanics
  BY <1>1, <1>2, <1>5 DEF RunPanics, Felled, WorkerPC
<1> QED  BY <1>3, <1>4, <1>5 DEF Panic

(* Any other step of a worker leaves the pending workers as they are.      *)
LEMMA PendingKept ==
  ASSUME BroadcastInv, NEW w \in Workers,
         \/ LoopKeepGoing(w) \/ Steal(w) \/ CheckSame(w)
         \/ CheckNew(w) \/ ReadJob(w) \/ RunOp(w)
         \/ Felled
  PROVE  PendingSet' = PendingSet
<1>1. TypeOK /\ RootInv /\ CallInv /\ WorkerInv
  BY DEF BroadcastInv
<1>2. JobPublished
  BY DEF JobPublished, BroadcastInv, CallInv, InCall, Published, Pending,
         Fallen, TypeOK
<1>3. CASE Felled
  <2>1. ASSUME NEW v \in Workers  PROVE Pending(v)' <=> Pending(v)
    <3>1. wpc[v] = "run" => wjob[v] # 0
      BY <1>1 DEF WorkerInv, CallInv, Published, InCall, Pending, Fallen
    <3>2. wpc[v] = "steal" => wjob[v] = 0
      BY <1>1 DEF WorkerInv
    <3> QED  BY <1>3, <3>1, <3>2 DEF Felled, Pending, Fallen, shared
  <2> QED  BY <2>1 DEF PendingSet
<1>4. CASE ~Felled
  <2>1. Pending(w)' <=> Pending(w)
    BY <1>1, <1>2, <1>4 DEF JobPublished, LoopKeepGoing, Steal,
       CheckSame, CheckNew, ReadJob, RunOp, WorkerAt, Pending, Fallen,
       WorkerInv, TypeOK, frame, shared
  <2>2. ASSUME NEW v \in Workers, v # w
        PROVE  Pending(v)' <=> Pending(v)
    BY <1>1, <1>4, <2>2 DEF LoopKeepGoing, Steal, CheckSame, CheckNew,
       ReadJob, RunOp, WorkerAt, Pending, Fallen, TypeOK, frame, shared
  <2> QED  BY <2>1, <2>2 DEF PendingSet
<1> QED  BY <1>3, <1>4

------------------------------------------------------------------------------
(* The invariant is kept, one lemma per conjunct.                          *)

(* Init establishes the invariant: nobody is pending before the first call.*)
LEMMA BroadcastInvInit == Init => BroadcastInv
<1> SUFFICES ASSUME Init  PROVE BroadcastInv
  OBVIOUS
<1>1. Cardinality(Workers) \in Nat
  BY PendingCount
<1>2. TypeOK
  BY <1>1, WorkersAssumption, CallsAssumption
  DEF Init, TypeOK, RootPC, WorkerPC
<1>3. PendingSet = {}
  BY DEF Init, PendingSet, Pending, Fallen
<1>4. RootInv /\ WorkerInv
  BY WorkersAssumption DEF Init, RootInv, WorkerInv
<1>5. CallInv
  BY <1>2, <1>3, FS_EmptySet
  DEF Init, CallInv, InCall, Published, PendingSet
<1> QED  BY <1>2, <1>4, <1>5 DEF BroadcastInv

(* The owner of the pool: every step keeps the types.  remaining is at     *)
(* least 1 when a worker subtracts itself, so it never wraps.              *)
LEMMA TypeStep ==
  ASSUME BroadcastInv, RootCalm, [Next]_vars
  PROVE  TypeOK'
<1> USE WorkersAssumption, CallsAssumption
    DEF TypeOK, RootPC, WorkerPC, RootAt, WorkerAt, shared, frame, workers
<1>1. TypeOK /\ Cardinality(Workers) \in Nat
  BY PendingCount DEF BroadcastInv
<1>2. CASE BroadcastBegin
  BY <1>1, <1>2 DEF BroadcastBegin
<1>3. CASE StopBegin
  BY <1>1, <1>3 DEF StopBegin
<1>4. CASE BroadcastStore
  BY <1>1, <1>4 DEF BroadcastStore
<1>5. CASE BroadcastPublish
  <2>1. epoch + 1 = calls
    BY <1>1, <1>5 DEF BroadcastPublish, BroadcastInv, CallInv
  <2> QED  BY <1>1, <1>5, <2>1 DEF BroadcastPublish
<1>6. CASE BroadcastWait \/ BroadcastReturn \/ StopJoin \/ StopPanic
  BY <1>1, <1>6 DEF BroadcastWait, BroadcastReturn, StopJoin, StopPanic
<1>7. ASSUME NEW w \in Workers,
             LoopKeepGoing(w) \/ Steal(w) \/ CheckSame(w)
      PROVE  TypeOK'
  BY <1>1, <1>7 DEF LoopKeepGoing, Steal, CheckSame
<1>8. ASSUME NEW w \in Workers, CheckNew(w) \/ ReadJob(w) \/ RunOp(w)
      PROVE  TypeOK'
  BY <1>1, <1>8 DEF CheckNew, ReadJob, RunOp
<1>9. ASSUME NEW w \in Workers, Panic(w)
       PROVE  TypeOK'
  <2>1. Felled
    BY <1>9, PanicFells
  <2> QED  BY <1>1, <2>1 DEF Felled
<1>10. ASSUME NEW w \in Workers, SubRemaining(w)
      PROVE  TypeOK'
  <2>1. Cardinality(PendingSet) # 0
    BY <1>10, PendingCount DEF SubRemaining, PendingSet, Pending, Fallen
  <2>2. Cardinality(PendingSet) = remaining
    BY <1>10, WorkersAssumption
    DEF BroadcastInv, CallInv, RootInv, Published, Pending, Fallen,
        SubRemaining
  <2> QED  BY <1>1, <1>10, <2>1, <2>2 DEF SubRemaining
<1>11. CASE UNCHANGED vars
  BY <1>1, <1>11 DEF vars
<1> QED
  BY <1>2, <1>3, <1>4, <1>5, <1>6, <1>7, <1>8, <1>9, <1>10, <1>11
  DEF Next, RootStep, WorkerStep, BroadcastSpin, StopAgain, SyncSpin, Panic

(* The program counters of the owner and of its worker agree: the owner is *)
(* inside of try_run_broadcast exactly when its worker is.                 *)
LEMMA RootInvStep ==
  ASSUME BroadcastInv, RootCalm, [Next]_vars
  PROVE  RootInv'
<1> USE WorkersAssumption, CallsAssumption
    DEF RootInv, Fallen, RootAt, WorkerAt, shared, frame, workers
<1>1. TypeOK /\ RootInv /\ CallInv /\ WorkerInv
  BY DEF BroadcastInv
<1>2. CASE BroadcastBegin \/ StopBegin \/ BroadcastStore
  BY <1>1, <1>2 DEF BroadcastBegin, StopBegin, BroadcastStore
<1>3. CASE BroadcastPublish
  <2>1. wepoch[Root] = epoch /\ epoch \in Nat
    BY <1>1, <1>3
    DEF BroadcastPublish, CallInv, Published, Pending, TypeOK
  <2> QED  BY <1>1, <1>3, <2>1 DEF BroadcastPublish, TypeOK
<1>4. CASE BroadcastWait \/ BroadcastReturn \/ StopJoin \/ StopPanic
  BY <1>1, <1>4
  DEF BroadcastWait, BroadcastReturn, StopJoin, StopPanic, WorkerInv
<1>5. ASSUME NEW w \in Workers,
             LoopKeepGoing(w) \/ Steal(w) \/ CheckSame(w)
      PROVE  RootInv'
  BY <1>1, <1>5 DEF LoopKeepGoing, Steal, CheckSame, TypeOK
<1>6. JobPublished
  BY <1>1 DEF JobPublished, CallInv, InCall, Published, Pending, TypeOK
<1>7. ASSUME NEW w \in Workers,
             CheckNew(w) \/ ReadJob(w) \/ RunOp(w)
      PROVE  RootInv'
  BY <1>1, <1>6, <1>7
  DEF CheckNew, ReadJob, RunOp, TypeOK, JobPublished
<1>8. ASSUME NEW w \in Workers, SubRemaining(w)
      PROVE  RootInv'
  BY <1>1, <1>8 DEF SubRemaining, TypeOK, WorkerInv
<1>9. ASSUME NEW w \in Workers, Panic(w)
      PROVE  RootInv'
  <2>1. Felled
    BY <1>9, PanicFells
  <2>2. wpc[Root] = "run" => wjob[Root] # 0
    BY <1>1 DEF WorkerInv, CallInv, Published, InCall, Pending
  <2> QED  BY <1>1, <2>1, <2>2 DEF Felled
<1>10. CASE UNCHANGED vars
  BY <1>1, <1>10 DEF vars
<1> QED
  BY <1>2, <1>3, <1>4, <1>5, <1>7, <1>8, <1>10, <1>9
  DEF Next, RootStep, WorkerStep, BroadcastSpin, StopAgain, SyncSpin, Panic

(* Epoch, job, frame, results and remaining stay in step with the call.    *)
LEMMA CallInvStep ==
  ASSUME BroadcastInv, RootCalm, [Next]_vars
  PROVE  CallInv'
<1> USE WorkersAssumption, CallsAssumption
    DEF CallInv, Published, InCall, RootAt, WorkerAt, shared, frame, workers
<1>1. TypeOK /\ RootInv /\ CallInv /\ WorkerInv
  BY DEF BroadcastInv
<1>2. CASE BroadcastBegin \/ StopBegin \/ BroadcastStore
  <2>1. PendingSet' = PendingSet
    BY <1>2
    DEF PendingSet, Pending, Fallen, BroadcastBegin, StopBegin, BroadcastStore
  <2>2. CASE BroadcastBegin
    BY <1>1, <2>1, <2>2 DEF BroadcastBegin, Pending, Fallen, TypeOK
  <2>3. CASE StopBegin
    BY <1>1, <2>1, <2>3 DEF StopBegin, Pending, Fallen, TypeOK
  <2>4. CASE BroadcastStore
    BY <1>1, <2>1, <2>4 DEF BroadcastStore, Pending, Fallen, TypeOK
  <2> QED  BY <1>2, <2>2, <2>3, <2>4
<1>3. CASE BroadcastPublish
  <2>1. \A w \in Workers : wepoch[w] = epoch
    BY <1>1, <1>3 DEF BroadcastPublish, Pending, Fallen
  <2>2. epoch \in Nat /\ epoch' = epoch + 1 /\ epoch' = calls
    BY <1>1, <1>3 DEF BroadcastPublish, TypeOK
  <2>3. results' = {v \in Workers : /\ wepoch'[v] = epoch'
                                    /\ wpc'[v] \notin {"read", "run"}
                                    /\ ~Fallen(v)'}
    BY <1>1, <1>3, <2>1, <2>2 DEF BroadcastPublish
  <2>4. remaining' = Cardinality(PendingSet')
    BY <1>1, <1>3, PendingAll DEF BroadcastPublish
  <2>5. live' = calls' /\ job' = calls' /\ calls' > 0
    BY <1>1, <1>3 DEF BroadcastPublish
  <2> QED  BY <1>3, <2>2, <2>3, <2>4, <2>5 DEF BroadcastPublish
<1>4. CASE BroadcastWait
  <2>1. PendingSet' = PendingSet
    BY <1>4 DEF PendingSet, Pending, Fallen, BroadcastWait
  <2>2. PendingSet = {}
    BY <1>1, <1>4, PendingCount DEF BroadcastWait
  <2>3. \A w \in Workers : Fallen(w)' <=> Fallen(w)
    BY <1>4 DEF BroadcastWait, Fallen
  <2> QED  BY <1>1, <1>4, <2>1, <2>2, <2>3 DEF BroadcastWait, TypeOK
<1>5. CASE BroadcastReturn
  <2>1. PendingSet' = PendingSet /\ PendingSet = {}
    BY <1>1, <1>5 DEF PendingSet, Pending, Fallen, BroadcastReturn
  <2>2. \A w \in Workers : ~Pending(w)'
    BY <2>1 DEF PendingSet
  <2> QED  BY <1>1, <1>5, <2>1, <2>2 DEF BroadcastReturn, TypeOK
<1>6. CASE StopJoin \/ StopPanic
  <2>1. PendingSet' = PendingSet
    BY <1>6 DEF PendingSet, Pending, Fallen, StopJoin, StopPanic
  <2> QED  BY <1>1, <1>6, <2>1 DEF StopJoin, StopPanic, Pending, Fallen, TypeOK
<1>7. JobPublished
  BY <1>1 DEF JobPublished, Pending, Fallen, TypeOK
<1>8. ASSUME NEW w \in Workers,
             \/ LoopKeepGoing(w) \/ Steal(w) \/ CheckSame(w) \/ CheckNew(w)
             \/ ReadJob(w) \/ RunOp(w) \/ Felled
      PROVE  CallInv'
  <2>1. PendingSet' = PendingSet
    BY <1>8, PendingKept
  <2>2. \A v \in Workers : Pending(v)' <=> Pending(v)
    BY <2>1 DEF PendingSet
  <2>3. CASE LoopKeepGoing(w) \/ Steal(w) \/ CheckSame(w)
    <3>1. \A v \in Workers : Fallen(v)' <=> Fallen(v)
      BY <1>1, <2>3
      DEF LoopKeepGoing, Steal, CheckSame, Fallen, WorkerInv, TypeOK
    <3> QED  BY <1>1, <2>1, <2>2, <2>3, <3>1
        DEF LoopKeepGoing, Steal, CheckSame, TypeOK, RootInv
  <2>4. CASE CheckNew(w)
    BY <1>1, <2>1, <2>2, <2>4 DEF CheckNew, TypeOK, Pending, Fallen
  <2>5. CASE ReadJob(w)
    <3>1. \A v \in Workers : Fallen(v)' <=> Fallen(v)
      BY <1>1, <1>7, <2>5 DEF ReadJob, JobPublished, Fallen, TypeOK
    <3> QED  BY <1>1, <1>7, <2>1, <2>2, <2>5, <3>1
        DEF ReadJob, TypeOK, JobPublished
  <2>6. CASE RunOp(w)
    <3>1. wepoch[w] = epoch /\ wjob[w] = live /\ Published
      BY <1>1, <2>6 DEF RunOp, WorkerInv, Pending, Fallen
    <3>2. results' = results \cup {w}
      BY <2>6, <3>1 DEF RunOp
    <3>3. \A v \in Workers : Fallen(v)' <=> Fallen(v)
      BY <1>1, <2>6 DEF RunOp, Fallen, TypeOK
    <3>4. ~Fallen(w)
      BY <2>6 DEF RunOp, Fallen
    <3> QED  BY <1>1, <2>1, <2>2, <2>6, <3>1, <3>2, <3>3, <3>4
             DEF RunOp, TypeOK
  <2>7. CASE Felled
    <3>1. ASSUME NEW v \in Workers
          PROVE  wpc'[v] \in {"read", "run"} \/ Fallen(v)'
                 <=> wpc[v] \in {"read", "run"} \/ Fallen(v)
      <4>1. wpc[v] = "run" => wjob[v] # 0
        BY <1>1 DEF WorkerInv, Pending, Fallen
      <4>2. wpc[v] = "steal" => wjob[v] = 0
        BY <1>1 DEF WorkerInv
      <4> QED  BY <2>7, <4>1, <4>2 DEF Felled, Fallen
    <3>2. UNCHANGED <<epoch, remaining, job, rpc, calls, live, results, wepoch>>
      BY <2>7 DEF Felled
    <3> QED  BY <1>1, <2>1, <2>2, <3>1, <3>2
  <2> QED  BY <1>8, <2>3, <2>4, <2>5, <2>6, <2>7
<1>9. ASSUME NEW w \in Workers, SubRemaining(w)
      PROVE  CallInv'
  <2>1. Published /\ PendingSet # {} /\ wepoch[w] = epoch
    BY <1>1, <1>9 DEF SubRemaining, Pending, Fallen, PendingSet, WorkerInv
  <2>2. rpc \in {"inside", "wait"} /\ rpc' \in {"inside", "wait"}
    BY <1>1, <1>9, <2>1 DEF SubRemaining
  <2>3. remaining' = Cardinality(PendingSet')
    BY <1>1, <1>9, <2>2, PendingDrop DEF SubRemaining
  <2>4. results' = {v \in Workers : /\ wepoch'[v] = epoch'
                                    /\ wpc'[v] \notin {"read", "run"}
                                    /\ ~Fallen(v)'}
    <3>1. \A v \in Workers : Fallen(v)' <=> Fallen(v)
      BY <1>1, <1>9 DEF SubRemaining, Fallen, TypeOK
    <3>2. ~Fallen(w)
      BY <1>9 DEF SubRemaining, Fallen
    <3> QED  BY <1>1, <1>9, <2>1, <3>1, <3>2 DEF SubRemaining, TypeOK
  <2> QED  BY <1>1, <1>9, <2>1, <2>2, <2>3, <2>4 DEF SubRemaining, TypeOK
<1>10. CASE UNCHANGED vars
  <2>1. PendingSet' = PendingSet
    BY <1>10 DEF PendingSet, Pending, Fallen, vars
  <2> QED  BY <1>1, <1>10, <2>1 DEF vars, Pending, Fallen, TypeOK
<1> QED
  BY <1>2, <1>3, <1>4, <1>5, <1>6, <1>8, <1>9, <1>10, PanicFells
  DEF Next, RootStep, WorkerStep, BroadcastSpin, StopAgain, SyncSpin, Panic

(* A worker inside of a call has the epoch, and then the job, of the call. *)
LEMMA WorkerInvStep ==
  ASSUME BroadcastInv, RootCalm, [Next]_vars
  PROVE  WorkerInv'
<1> USE WorkersAssumption, CallsAssumption
    DEF WorkerInv, Fallen, RootAt, WorkerAt, shared, frame, workers
<1>1. TypeOK /\ RootInv /\ CallInv /\ WorkerInv
  BY DEF BroadcastInv
<1>2. ~Published =>
        \A w \in Workers : wpc[w] \notin {"read", "run", "sub"} /\ ~Fallen(w)
  BY <1>1 DEF CallInv, Pending, Fallen
<1>3. CASE BroadcastBegin \/ StopBegin \/ BroadcastStore
  BY <1>1, <1>2, <1>3
  DEF BroadcastBegin, StopBegin, BroadcastStore, Published
<1>4. CASE BroadcastPublish
  BY <1>1, <1>2, <1>4 DEF BroadcastPublish, Published, TypeOK
<1>5. CASE BroadcastReturn
  <2>1. \A w \in Workers : wpc[w] \notin {"read", "run", "sub"} /\ ~Fallen(w)
    BY <1>1, <1>5 DEF BroadcastReturn, CallInv, PendingSet, Pending, Fallen
  <2> QED  BY <1>1, <1>5, <2>1 DEF BroadcastReturn
<1>6. CASE BroadcastWait \/ StopJoin \/ StopPanic
  BY <1>1, <1>6 DEF BroadcastWait, StopJoin, StopPanic
<1>7. JobPublished
  BY <1>1 DEF JobPublished, CallInv, InCall, Published, Pending, Fallen, TypeOK
<1>8. ASSUME NEW w \in Workers,
             LoopKeepGoing(w) \/ Steal(w) \/ CheckSame(w)
      PROVE  WorkerInv'
  BY <1>1, <1>8 DEF LoopKeepGoing, Steal, CheckSame, TypeOK
<1>9. ASSUME NEW w \in Workers,
             CheckNew(w) \/ RunOp(w) \/ SubRemaining(w)
      PROVE  WorkerInv'
  BY <1>1, <1>9 DEF CheckNew, RunOp, SubRemaining, TypeOK
<1>10. ASSUME NEW w \in Workers, ReadJob(w)
      PROVE  WorkerInv'
  <2>1. job # 0 /\ job = live
    BY <1>1, <1>7, <1>10 DEF ReadJob, JobPublished, CallInv
  <2> QED  BY <1>1, <1>10, <2>1 DEF ReadJob, TypeOK
<1>11. ASSUME NEW w \in Workers, Panic(w)
       PROVE  WorkerInv'
  <2>1. Felled
    BY <1>11, PanicFells
  <2> QED  BY <1>1, <2>1 DEF Felled
<1>12. CASE UNCHANGED vars
  BY <1>1, <1>12 DEF vars
<1> QED
  BY <1>3, <1>4, <1>5, <1>6, <1>8, <1>9, <1>10, <1>11, <1>12
  DEF Next, RootStep, WorkerStep, BroadcastSpin, StopAgain, SyncSpin, Panic

(* A step keeps the whole invariant.                                       *)
LEMMA BroadcastInvStep ==
  ASSUME BroadcastInv, RootCalm, [Next]_vars
  PROVE  BroadcastInv'
BY TypeStep, RootInvStep, CallInvStep, WorkerInvStep DEF BroadcastInv

------------------------------------------------------------------------------
(* What a broadcast guarantees                                             *)

(* When op does not panic on the root's worker, epoch, job, frame and      *)
(* remaining agree with the call in progress in every state of the pool,   *)
(* whatever panics elsewhere.                                              *)
THEOREM BroadcastInvariance ==
  ASSUME RootCalm  PROVE Spec => []BroadcastInv
<1>1. RootCalm
  OBVIOUS
<1> QED  BY <1>1, BroadcastInvInit, BroadcastInvStep, PTL DEF Spec

(* The expect of try_run_broadcast never fails.                            *)
THEOREM JobIsPublished ==
  ASSUME RootCalm  PROVE Spec => []JobPublished
<1>1. BroadcastInv => JobPublished
  BY CallsAssumption DEF BroadcastInv, JobPublished, CallInv, InCall,
     Published, Pending, Fallen, TypeOK
<1> QED  BY <1>1, BroadcastInvariance, PTL

(* Nobody reads the job cell while broadcast writes it.                    *)
THEOREM JobCellNotRaced ==
  ASSUME RootCalm  PROVE Spec => []NoJobRace
<1>1. BroadcastInv => NoJobRace
  BY DEF BroadcastInv, NoJobRace, CallInv, Published, Pending, Fallen,
         PendingSet
<1> QED  BY <1>1, BroadcastInvariance, PTL

(* op runs only while the frame it borrows from exists, once per worker.   *)
THEOREM OpsRunInLiveFrames ==
  ASSUME RootCalm  PROVE Spec => []RunsInLiveFrame
<1>1. BroadcastInv => RunsInLiveFrame
  BY CallsAssumption DEF BroadcastInv, RunsInLiveFrame, InOp, CallInv,
     WorkerInv, InCall, Published, Pending, Fallen, TypeOK
<1> QED  BY <1>1, BroadcastInvariance, PTL

(* broadcast returns only results that have been written.                  *)
THEOREM ResultsAreComplete ==
  ASSUME RootCalm  PROVE Spec => []ResultsComplete
<1>1. BroadcastInv => ResultsComplete
  BY DEF BroadcastInv, ResultsComplete, CallInv, Published, Pending, Fallen,
     PendingSet, TypeOK
<1> QED  BY <1>1, BroadcastInvariance, PTL

(* A broadcast runs op exactly once on every worker between its start and  *)
(* its return.                                                             *)
THEOREM BroadcastImplementsCall ==
  ASSUME RootCalm  PROVE Spec => ImplementsCall
<1> USE CallsAssumption DEF Call!callVars, RootAt, WorkerAt, shared, frame,
        workers
<1>1. RootCalm
  OBVIOUS
<1>2. Init => Call!CallInit
  BY DEF Init, Call!CallInit
<1>3. ASSUME BroadcastInv, [Next]_vars
      PROVE  [Call!CallNext]_(Call!callVars)
  <2>1. TypeOK /\ RootInv /\ CallInv /\ WorkerInv
    BY <1>3 DEF BroadcastInv
  <2>2. CASE BroadcastBegin
    <3>1. Call!CallStart
      BY <2>1, <2>2 DEF BroadcastBegin, Call!CallStart, CallInv, InCall,
         Published, TypeOK
    <3> QED  BY <3>1 DEF Call!CallNext
  <2>3. CASE BroadcastReturn
    <3>1. results = Workers /\ live # 0
      BY <2>1, <2>3
      DEF BroadcastReturn, CallInv, InCall, Published, Pending, Fallen,
          PendingSet, TypeOK
    <3>2. Call!CallReturn
      BY <2>3, <3>1 DEF BroadcastReturn, Call!CallReturn
    <3> QED  BY <3>2 DEF Call!CallNext
  <2>4. ASSUME NEW w \in Workers, RunOp(w)
        PROVE  Call!CallNext
    <3>1. live # 0 /\ wjob[w] = live /\ w \notin results
      BY <2>1, <2>4 DEF RunOp, CallInv, WorkerInv, InCall, Published,
         Pending, Fallen, TypeOK
    <3>2. Call!CallRun(w)
      BY <2>4, <3>1 DEF RunOp, Call!CallRun
    <3> QED  BY <3>2 DEF Call!CallNext
  <2>5. CASE \/ StopBegin \/ BroadcastStore \/ BroadcastPublish
             \/ BroadcastWait \/ StopJoin \/ StopPanic \/ UNCHANGED vars
    BY <2>5 DEF StopBegin, BroadcastStore, BroadcastPublish, BroadcastWait,
       StopJoin, StopPanic, vars
  <2>6. ASSUME NEW w \in Workers,
               \/ LoopKeepGoing(w) \/ Steal(w) \/ CheckSame(w) \/ CheckNew(w)
               \/ ReadJob(w) \/ SubRemaining(w) \/ Felled
        PROVE  UNCHANGED Call!callVars
    BY <2>6 DEF LoopKeepGoing, Steal, CheckSame, CheckNew, ReadJob,
       SubRemaining, Felled
  <2> QED
    BY <1>1, <1>3, <2>2, <2>3, <2>4, <2>5, <2>6, PanicFells, WorkersAssumption
    DEF Next, RootStep, WorkerStep, BroadcastSpin, StopAgain, SyncSpin, Panic
<1> QED  BY <1>1, <1>2, <1>3, BroadcastInvariance, PTL
         DEF Spec, ImplementsCall, Call!CallSpec
==============================================================================
