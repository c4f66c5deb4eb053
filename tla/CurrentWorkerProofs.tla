------------------------ MODULE CurrentWorkerProofs ------------------------
(***************************************************************************)
(* Proofs about CurrentWorker, for any number of threads, pools and        *)
(* workers and any depth.  The invariant says that the stack remembers     *)
(* every worker the cell goes back to, however calls return and unwind.    *)
(***************************************************************************)
EXTENDS CurrentWorker, TLAPS

Values == Worker \cup {NONE}

(* NONE is no worker.                                                      *)
LEMMA NoneIsNoWorker == NONE \notin Worker
BY PoolAssumption DEF NONE, Worker

------------------------------------------------------------------------------
(* Calls and returns                                                       *)

(* Only the first i calls matter.                                          *)
LEMMA InnermostPrefix ==
  ASSUME NEW s, NEW r, NEW i \in Nat, NEW w, Innermost(s, i, w),
         \A l \in 1 .. i : r[l] = s[l]
  PROVE  Innermost(r, i, w)
BY DEF Innermost

(* What one call has linked stays linked, whatever follows.                *)
LEMMA LinkKept ==
  ASSUME NEW s \in Seq(Frame), NEW c, Linked(s, c), NEW r,
         NEW i \in 1 .. Len(s), \A l \in 1 .. i : r[l] = s[l]
  PROVE  Innermost(r, i - 1, IF r[i].kind = "scope" THEN r[i].prev
                             ELSE r[i].worker)
<1> DEFINE d == IF s[i].kind = "scope" THEN s[i].prev ELSE s[i].worker
<1>1. i - 1 \in Nat /\ r[i] = s[i] /\ \A l \in 1 .. i - 1 : r[l] = s[l]
  OBVIOUS
<1>2. Innermost(s, i - 1, d)
  BY DEF Linked
<1> HIDE DEF d
<1>3. Innermost(r, i - 1, d)
  BY <1>1, <1>2, InnermostPrefix
<1> QED  BY <1>1, <1>3 DEF d

(* with_current_worker links the old value of the cell.                    *)
LEMMA LinkedScope ==
  ASSUME NEW s \in Seq(Frame), NEW c \in Values, Linked(s, c),
         NEW w \in Worker
  PROVE  Linked(Append(s, [kind |-> "scope", worker |-> w, prev |-> c]), w)
<1> DEFINE f == [kind |-> "scope", worker |-> w, prev |-> c]
           r == Append(s, f)
<1>1. /\ Len(r) = Len(s) + 1 /\ Len(s) \in Nat
      /\ r[Len(s) + 1] = f /\ \A l \in 1 .. Len(s) : r[l] = s[l]
  OBVIOUS
<1> HIDE DEF r
<1>2. Innermost(r, Len(r), w)
  BY <1>1 DEF Innermost
<1>3. ASSUME NEW i \in 1 .. Len(s)
      PROVE  Innermost(r, i - 1, IF r[i].kind = "scope" THEN r[i].prev
                                 ELSE r[i].worker)
  <2>1. \A l \in 1 .. i : r[l] = s[l]
    BY <1>1
  <2> QED  BY <2>1, LinkKept
<1>4. Innermost(r, Len(s), c)
  BY <1>1, InnermostPrefix DEF Linked
<1>5. Linked(r, w)
  BY <1>1, <1>2, <1>3, <1>4 DEF Linked
<1> QED  BY <1>5 DEF r

(* try_run_current that finds a worker leaves the cell as it is.           *)
LEMMA LinkedTask ==
  ASSUME NEW s \in Seq(Frame), NEW c \in Worker, Linked(s, c)
  PROVE  Linked(Append(s, [kind |-> "task", worker |-> c, prev |-> NONE]), c)
<1> DEFINE f == [kind |-> "task", worker |-> c, prev |-> NONE]
           r == Append(s, f)
<1>1. /\ Len(r) = Len(s) + 1 /\ Len(s) \in Nat
      /\ r[Len(s) + 1] = f /\ \A l \in 1 .. Len(s) : r[l] = s[l]
  OBVIOUS
<1> HIDE DEF r
<1>2. Innermost(s, Len(s), c) /\ c # NONE
  BY NoneIsNoWorker DEF Linked
<1>3. Innermost(r, Len(s), c) /\ Innermost(r, Len(r), c)
  BY <1>1, <1>2 DEF Innermost
<1>4. ASSUME NEW i \in 1 .. Len(s)
      PROVE  Innermost(r, i - 1, IF r[i].kind = "scope" THEN r[i].prev
                                 ELSE r[i].worker)
  BY <1>1, LinkKept
<1>5. Linked(r, c)
  BY <1>1, <1>3, <1>4 DEF Linked
<1> QED  BY <1>5 DEF r

(* The end of a call, by return or by panic.                               *)
LEMMA LinkedPop ==
  ASSUME NEW s \in Seq(Frame), NEW c \in Values, s # <<>>, Linked(s, c)
  PROVE  Linked(Older(s), IF Newest(s).kind = "scope" THEN Newest(s).prev
                          ELSE c)
<1> DEFINE r == Older(s)
           d == IF s[Len(s)].kind = "scope" THEN s[Len(s)].prev ELSE c
<1>1. /\ Len(s) \in Nat \ {0} /\ Len(r) = Len(s) - 1
      /\ \A l \in 1 .. Len(r) : r[l] = s[l]
      /\ s[Len(s)] \in Frame
  BY OlderProperties DEF Newest
<1> HIDE DEF r
<1>2. Innermost(s, Len(s) - 1, d)
  BY <1>1 DEF Linked, Innermost, Frame
<1>3. Innermost(r, Len(r), d)
  BY <1>1, <1>2 DEF Innermost
<1>4. ASSUME NEW i \in 1 .. Len(r)
      PROVE  Innermost(r, i - 1, IF r[i].kind = "scope" THEN r[i].prev
                                 ELSE r[i].worker)
  <2>1. i \in 1 .. Len(s) /\ \A l \in 1 .. i : r[l] = s[l]
    BY <1>1
  <2> QED  BY <2>1, LinkKept
<1>5. Linked(r, d)
  BY <1>3, <1>4 DEF Linked
<1> QED  BY <1>5 DEF r, Newest

------------------------------------------------------------------------------
(* How a step changes one thread's calls                                   *)

(* A step that adds no scope keeps what is known about scopes.             *)
LEMMA ScopesKept ==
  ASSUME ScopeInv, pool' = pool,
         \A t \in Threads : \A i \in 1 .. Len(stack'[t]) :
           stack'[t][i].kind = "scope" =>
             i \in 1 .. Len(stack[t]) /\ stack'[t][i] = stack[t][i]
  PROVE  ScopeInv'
<1>1. ASSUME NEW t \in Threads, NEW i \in 1 .. Len(stack'[t]),
             stack'[t][i].kind = "scope"
      PROVE  IF stack'[t][i].worker.id = 0
             THEN pool'[stack'[t][i].worker.pool] \in {"up", "stopped"}
             ELSE t = stack'[t][i].worker /\ i = 1
  BY <1>1 DEF ScopeInv
<1>2. ASSUME NEW t \in Threads, NEW i \in 1 .. Len(stack'[t]),
             stack'[t][i].kind = "scope",
             NEW u \in Threads, NEW j \in 1 .. Len(stack'[u]),
             stack'[u][j].kind = "scope",
             stack'[u][j].worker = stack'[t][i].worker
      PROVE  u = t /\ j = i
  <2>1. /\ i \in 1 .. Len(stack[t]) /\ stack'[t][i] = stack[t][i]
        /\ j \in 1 .. Len(stack[u]) /\ stack'[u][j] = stack[u][j]
    BY <1>2
  <2> QED  BY <1>2, <2>1 DEF ScopeInv
<1> QED  BY <1>1, <1>2 DEF ScopeInv

(* with_current_worker with a worker that is in no scope yet.              *)
LEMMA EnterStep ==
  ASSUME CellInv, NEW t \in Threads, NEW w \in Worker, Enter(t, w),
         pool' = pool,
         IF w.id = 0 THEN pool[w.pool] \in {"up", "stopped"}
         ELSE t = w /\ stack[t] = <<>>,
         \A u \in Threads : \A j \in 1 .. Len(stack[u]) :
           stack[u][j].kind = "scope" => stack[u][j].worker # w
  PROVE  /\ cell' \in [Threads -> Values]
         /\ stack' \in [Threads -> Seq(Frame)]
         /\ \A u \in Threads : Linked(stack[u], cell[u])'
         /\ ScopeInv'
<1> DEFINE f == [kind |-> "scope", worker |-> w, prev |-> cell[t]]
<1>1. /\ stack[t] \in Seq(Frame) /\ cell[t] \in Values /\ f \in Frame
      /\ Linked(stack[t], cell[t])
  BY DEF CellInv, TypeOK, Values, Frame
<1>2. /\ stack' = [stack EXCEPT ![t] = Append(@, f)]
      /\ cell' = [cell EXCEPT ![t] = w]
  BY DEF Enter
<1>3. cell' \in [Threads -> Values] /\ stack' \in [Threads -> Seq(Frame)]
  BY <1>1, <1>2 DEF CellInv, TypeOK, Values
<1>4. stack'[t] = Append(stack[t], f) /\ cell'[t] = w
  BY <1>2 DEF CellInv, TypeOK
<1>5. \A u \in Threads \ {t} : stack'[u] = stack[u] /\ cell'[u] = cell[u]
  BY <1>2 DEF CellInv, TypeOK
<1>6. \A u \in Threads : Linked(stack'[u], cell'[u])
  BY <1>1, <1>4, <1>5, LinkedScope DEF CellInv
<1>7. /\ Len(stack'[t]) = Len(stack[t]) + 1 /\ Len(stack[t]) \in Nat
      /\ stack'[t][Len(stack[t]) + 1] = f
      /\ \A l \in 1 .. Len(stack[t]) : stack'[t][l] = stack[t][l]
  BY <1>1, <1>4
<1>8. ScopeInv'
  <2>1. ASSUME NEW u \in Threads, NEW i \in 1 .. Len(stack'[u]),
               ~(u = t /\ i = Len(stack[t]) + 1)
        PROVE  i \in 1 .. Len(stack[u]) /\ stack'[u][i] = stack[u][i]
    BY <1>5, <1>7, <2>1
  <2>2. ASSUME NEW u \in Threads, NEW i \in 1 .. Len(stack'[u]),
               stack'[u][i].kind = "scope", stack'[u][i].worker = w
        PROVE  u = t /\ i = Len(stack[t]) + 1
    BY <2>1, <2>2
  <2>3. f.kind = "scope" /\ f.worker = w
    OBVIOUS
  <2> HIDE DEF f
  <2>4. ASSUME NEW u \in Threads, NEW i \in 1 .. Len(stack'[u]),
               stack'[u][i].kind = "scope",
               ~(u = t /\ i = Len(stack[t]) + 1),
               NEW v \in Threads, NEW j \in 1 .. Len(stack'[v]),
               stack'[v][j].kind = "scope",
               stack'[v][j].worker = stack'[u][i].worker
        PROVE  v = u /\ j = i
    <3>1. i \in 1 .. Len(stack[u]) /\ stack'[u][i] = stack[u][i]
      BY <2>1, <2>4
    <3>2. ~(v = t /\ j = Len(stack[t]) + 1)
      BY <1>7, <2>2, <2>3, <2>4
    <3>3. j \in 1 .. Len(stack[v]) /\ stack'[v][j] = stack[v][j]
      BY <2>1, <3>2
    <3> QED  BY <2>4, <3>1, <3>3 DEF CellInv, ScopeInv
  <2>5. ASSUME NEW u \in Threads, NEW i \in 1 .. Len(stack'[u]),
               stack'[u][i].kind = "scope"
        PROVE  IF stack'[u][i].worker.id = 0
               THEN pool'[stack'[u][i].worker.pool] \in {"up", "stopped"}
               ELSE u = stack'[u][i].worker /\ i = 1
    <3>1. CASE u = t /\ i = Len(stack[t]) + 1
      BY <1>7, <2>3, <3>1
    <3>2. CASE ~(u = t /\ i = Len(stack[t]) + 1)
      BY <2>1, <2>5, <3>2 DEF CellInv, ScopeInv
    <3> QED  BY <3>1, <3>2
  <2>6. ASSUME NEW u \in Threads, NEW i \in 1 .. Len(stack'[u]),
               stack'[u][i].kind = "scope",
               NEW v \in Threads, NEW j \in 1 .. Len(stack'[v]),
               stack'[v][j].kind = "scope",
               stack'[v][j].worker = stack'[u][i].worker
        PROVE  v = u /\ j = i
    <3>1. CASE u = t /\ i = Len(stack[t]) + 1
      BY <1>7, <2>2, <2>3, <2>6, <3>1
    <3>2. CASE ~(u = t /\ i = Len(stack[t]) + 1)
      BY <2>4, <2>6, <3>2
    <3> QED  BY <3>1, <3>2
  <2> QED  BY <2>5, <2>6 DEF ScopeInv
<1> QED  BY <1>3, <1>6, <1>8

(* A task gets the worker of the cell.                                     *)
LEMMA TryRunStep ==
  ASSUME CellInv, NEW t \in Threads, NEW p \in Pools, TryRun(t, p)
  PROVE  CellInv'
<1> DEFINE f == [kind |-> "task", worker |-> cell[t], prev |-> NONE]
<1>1. /\ stack[t] \in Seq(Frame) /\ cell[t] \in Worker /\ f \in Frame
      /\ Linked(stack[t], cell[t])
  BY DEF CellInv, TypeOK, TryRun, Frame
<1>2. stack' = [stack EXCEPT ![t] = Append(@, f)] /\ cell' = cell
  BY DEF TryRun
<1>3. TypeOK'
  BY <1>1, <1>2 DEF CellInv, TypeOK, TryRun
<1>4. /\ stack'[t] = Append(stack[t], f)
      /\ \A u \in Threads \ {t} : stack'[u] = stack[u]
  BY <1>2 DEF CellInv, TypeOK
<1>5. \A u \in Threads : Linked(stack'[u], cell'[u])
  BY <1>1, <1>2, <1>4, LinkedTask DEF CellInv
<1>6. /\ Len(stack'[t]) = Len(stack[t]) + 1 /\ Len(stack[t]) \in Nat
      /\ stack'[t][Len(stack[t]) + 1] = f
      /\ \A l \in 1 .. Len(stack[t]) : stack'[t][l] = stack[t][l]
  BY <1>1, <1>4
<1>7. ScopeInv'
  <2>1. ASSUME NEW u \in Threads, NEW i \in 1 .. Len(stack'[u]),
               stack'[u][i].kind = "scope"
        PROVE  i \in 1 .. Len(stack[u]) /\ stack'[u][i] = stack[u][i]
    <3>1. ~(u = t /\ i = Len(stack[t]) + 1)
      BY <1>6, <2>1
    <3> QED  BY <1>4, <1>6, <3>1
  <2> QED  BY <2>1, ScopesKept DEF CellInv, TryRun
<1> QED  BY <1>3, <1>5, <1>7 DEF CellInv

(* The end of a call gives the cell back.                                  *)
LEMMA PopStep ==
  ASSUME CellInv, NEW t \in Threads, stack[t] # <<>>, Pop(t), pool' = pool
  PROVE  /\ cell' \in [Threads -> Values]
         /\ stack' \in [Threads -> Seq(Frame)]
         /\ \A u \in Threads : Linked(stack[u], cell[u])'
         /\ ScopeInv'
<1> DEFINE c == IF Newest(stack[t]).kind = "scope" THEN Newest(stack[t]).prev
                ELSE cell[t]
<1>1. /\ stack[t] \in Seq(Frame) /\ cell[t] \in Values
      /\ Linked(stack[t], cell[t]) /\ Newest(stack[t]) \in Frame
      /\ Older(stack[t]) \in Seq(Frame)
  BY OlderProperties DEF CellInv, TypeOK, Values
<1>2. /\ stack' = [stack EXCEPT ![t] = Older(@)]
      /\ cell' = [cell EXCEPT ![t] = c]
  BY DEF Pop, Top, CellInv, TypeOK
<1>3. cell' \in [Threads -> Values] /\ stack' \in [Threads -> Seq(Frame)]
  BY <1>1, <1>2 DEF CellInv, TypeOK, Values, Frame
<1>4. stack'[t] = Older(stack[t]) /\ cell'[t] = c
  BY <1>2 DEF CellInv, TypeOK
<1>5. \A u \in Threads \ {t} : stack'[u] = stack[u] /\ cell'[u] = cell[u]
  BY <1>2 DEF CellInv, TypeOK
<1>6. \A u \in Threads : Linked(stack'[u], cell'[u])
  <2>1. Linked(Older(stack[t]), c)
    BY <1>1, LinkedPop
  <2> QED  BY <1>4, <1>5, <2>1 DEF CellInv
<1>7. /\ Len(stack'[t]) = Len(stack[t]) - 1 /\ Len(stack[t]) \in Nat
      /\ \A l \in 1 .. Len(stack'[t]) : stack'[t][l] = stack[t][l]
  BY <1>1, <1>4, OlderProperties
<1>8. ScopeInv'
  <2>1. ASSUME NEW u \in Threads, NEW i \in 1 .. Len(stack'[u])
        PROVE  i \in 1 .. Len(stack[u]) /\ stack'[u][i] = stack[u][i]
    BY <1>5, <1>7
  <2> QED  BY <2>1, ScopesKept DEF CellInv
<1> QED  BY <1>3, <1>6, <1>8

------------------------------------------------------------------------------
(* The invariant and what it gives                                         *)

(* No call is in progress at the beginning.                                *)
LEMMA CellInvInit == Init => CellInv
<1> SUFFICES ASSUME Init  PROVE CellInv
  OBVIOUS
<1>1. TypeOK
  BY DEF Init, TypeOK
<1>2. \A t \in Threads : Linked(stack[t], cell[t])
  BY DEF Init, Linked, Innermost
<1>3. ScopeInv
  BY DEF Init, ScopeInv
<1> QED  BY <1>1, <1>2, <1>3 DEF CellInv

(* Every step keeps the invariant.                                         *)
LEMMA CellInvStep == CellInv /\ [Next]_vars => CellInv'
<1> SUFFICES ASSUME CellInv, [Next]_vars  PROVE CellInv'
  OBVIOUS
<1> USE DEF Values
<1>0. TypeOK
  BY DEF CellInv
<1>1. ASSUME NEW p \in Pools, InitPool(p) \/ Stop(p) \/ Joined(p) \/ Free(p)
      PROVE  CellInv'
  <2>1. TypeOK'
    BY <1>0, <1>1 DEF InitPool, Stop, Joined, Free, TypeOK
  <2>2. stack' = stack /\ cell' = cell
    BY <1>1 DEF InitPool, Stop, Joined, Free
  <2>3. \A q \in Pools \ {p} : pool'[q] = pool[q]
    BY <1>0, <1>1 DEF InitPool, Stop, Joined, Free, TypeOK
  <2>4. InUse(p) => pool'[p] \in {"up", "stopped"}
    <3>1. InUse(p) => pool[p] \in {"up", "stopped"}
      BY DEF InUse, CellInv, ScopeInv, Root
    <3> QED  BY <1>0, <1>1, <3>1 DEF InitPool, Stop, Joined, Free, TypeOK
  <2>5. ASSUME NEW t \in Threads, NEW i \in 1 .. Len(stack[t]),
               stack[t][i].kind = "scope", stack[t][i].worker.id = 0
        PROVE  pool'[stack[t][i].worker.pool] \in {"up", "stopped"}
    <3>0. stack[t] \in Seq(Frame)
      BY <1>0 DEF TypeOK
    <3>1. stack[t][i].worker \in Worker
      <4>1. stack[t][i] \in Frame
        BY <3>0
      <4> QED  BY <4>1 DEF Frame
    <3>2. stack[t][i].worker = Root(stack[t][i].worker.pool)
      BY <2>5, <3>1 DEF Root, Worker
    <3>3. stack[t][i].worker.pool = p => InUse(p)
      BY <2>5, <3>2 DEF InUse
    <3>4. pool[stack[t][i].worker.pool] \in {"up", "stopped"}
      BY <2>5 DEF CellInv, ScopeInv
    <3>5. stack[t][i].worker.pool \in Pools
      BY <3>1 DEF Worker
    <3> QED  BY <2>3, <2>4, <3>3, <3>4, <3>5
  <2>6. ScopeInv'
    BY <2>2, <2>5 DEF CellInv, ScopeInv
  <2> QED  BY <2>1, <2>2, <2>6 DEF CellInv
<1>2. ASSUME NEW t \in Threads, ThreadMain(t)
      PROVE  CellInv'
  <2>1. t \in Worker /\ t.id # 0 /\ stack[t] = <<>> /\ Enter(t, t)
    BY <1>2 DEF ThreadMain, Bound
  <2>2. \A u \in Threads : \A j \in 1 .. Len(stack[u]) :
          stack[u][j].kind = "scope" => stack[u][j].worker # t
    BY <2>1 DEF CellInv, ScopeInv
  <2>3. pool' = pool /\ mode' = mode
    BY <1>2 DEF ThreadMain
  <2> QED  BY <1>0, <2>1, <2>2, <2>3, EnterStep DEF CellInv, TypeOK
<1>3. ASSUME NEW t \in Threads, NEW p \in Pools, Run(t, p)
      PROVE  CellInv'
  <2>1. Root(p) \in Worker /\ Root(p).id = 0 /\ Root(p).pool = p
    BY IdAssumption DEF Root, Worker
  <2>2. \A u \in Threads : \A j \in 1 .. Len(stack[u]) :
          stack[u][j].kind = "scope" => stack[u][j].worker # Root(p)
    BY <1>3 DEF Run, InUse
  <2>3. pool' = pool /\ mode' = mode /\ Enter(t, Root(p))
        /\ pool[p] \in {"up", "stopped"}
    BY <1>3 DEF Run
  <2> QED  BY <1>0, <2>1, <2>2, <2>3, EnterStep DEF CellInv, TypeOK
<1>4. ASSUME NEW t \in Threads, NEW p \in Pools, TryRun(t, p)
      PROVE  CellInv'
  BY <1>4, TryRunStep
<1>5. ASSUME NEW t \in Threads, ThreadEnd(t) \/ Return(t) \/ Unwind(t)
      PROVE  CellInv'
  <2>1. stack[t] # <<>> /\ Pop(t) /\ pool' = pool
    <3>1. stack[t] \in Seq(Frame)
      BY <1>0 DEF TypeOK
    <3> QED  BY <1>5, <3>1 DEF ThreadEnd, Return, Unwind
  <2>2. mode' \in [Threads ->
          {"absent", "running", "unwinding", "ended", "crashed"}]
    BY <1>0, <1>5 DEF ThreadEnd, Return, Unwind, TypeOK
  <2> QED  BY <1>0, <2>1, <2>2, PopStep DEF CellInv, TypeOK
<1>6. ASSUME NEW t \in Threads, Panic(t) \/ Catch(t) \/ Crash(t)
      PROVE  CellInv'
  <2>1. UNCHANGED <<cell, stack, pool>>
    BY <1>6 DEF Panic, Catch, Crash
  <2>2. TypeOK'
    BY <1>0, <1>6, <2>1 DEF Panic, Catch, Crash, TypeOK
  <2> QED  BY <2>1, <2>2 DEF CellInv, ScopeInv
<1>7. CASE UNCHANGED vars
  <2>1. cell' = cell /\ stack' = stack /\ mode' = mode /\ pool' = pool
    BY <1>7 DEF vars
  <2>2. TypeOK /\ ScopeInv /\ \A t \in Threads : Linked(stack[t], cell[t])
    BY DEF CellInv
  <2>3. TypeOK'
    BY <2>1, <2>2 DEF TypeOK
  <2>4. ScopeInv'
    BY <2>1, <2>2 DEF ScopeInv
  <2>5. \A t \in Threads : Linked(stack'[t], cell'[t])
    BY <2>1, <2>2
  <2> QED  BY <2>3, <2>4, <2>5 DEF CellInv
<1> QED
  BY <1>1, <1>2, <1>3, <1>4, <1>5, <1>6, <1>7 DEF Next, TryRunErr

(* However calls nest, return and unwind, on however many pools and        *)
(* threads, the invariant holds.                                           *)
THEOREM CellInvariance == Spec => []CellInv
BY CellInvInit, CellInvStep, PTL DEF Spec

(* The cell names the innermost worker, and so does what try_run_current   *)
(* hands out.                                                              *)
THEOREM CellNamesInnermost == Spec => []CellIsInnermost
<1>1. CellInv => CellIsInnermost
  BY DEF CellInv, CellIsInnermost, Linked
<1> QED  BY <1>1, CellInvariance, PTL

(* The access try_run_current takes through the cell's pointer is          *)
(* exclusive, and the worker exists.                                       *)
THEOREM WorkerIsExclusive == Spec => []ExclusiveWorker
<1>1. ASSUME CellInv  PROVE ExclusiveWorker
  <2>1. ASSUME NEW t \in Threads, cell[t] # NONE
        PROVE  \E i \in 1 .. Len(stack[t]) :
                 stack[t][i].kind = "scope" /\ stack[t][i].worker = cell[t]
    BY <1>1, <2>1 DEF CellInv, Linked, Innermost
  <2>2. ASSUME NEW t \in Threads, NEW i \in 1 .. Len(stack[t])
        PROVE  \E j \in 1 .. Len(stack[t]) :
                 /\ stack[t][j].kind = "scope"
                 /\ stack[t][j].worker = stack[t][i].worker
    <3>0. stack[t] \in Seq(Frame)
      BY <1>1 DEF CellInv, TypeOK
    <3>1. /\ stack[t][i].worker \in Worker
          /\ stack[t][i].kind \in {"scope", "task"}
      <4>1. stack[t][i] \in Frame
        BY <3>0
      <4> QED  BY <4>1 DEF Frame
    <3>2. stack[t][i].worker # NONE
      BY <3>1, NoneIsNoWorker
    <3>3. CASE stack[t][i].kind = "task"
      <4>1. Innermost(stack[t], i - 1, stack[t][i].worker)
        BY <1>1, <3>3 DEF CellInv, Linked
      <4> QED  BY <3>2, <4>1 DEF Innermost
    <3> QED  BY <3>1, <3>3
  <2>3. ASSUME NEW t \in Threads, cell[t] # NONE
        PROVE  /\ \A u \in Threads \ {t} :
                    /\ cell[u] # cell[t]
                    /\ \A i \in 1 .. Len(stack[u]) :
                         stack[u][i].worker # cell[t]
               /\ IF cell[t].id = 0
                  THEN pool[cell[t].pool] \notin {"none", "freed"}
                  ELSE t = cell[t]
    <3>1. PICK i \in 1 .. Len(stack[t]) :
            stack[t][i].kind = "scope" /\ stack[t][i].worker = cell[t]
      BY <2>1, <2>3
    <3>2. \A u \in Threads \ {t} : \A j \in 1 .. Len(stack[u]) :
            ~(stack[u][j].kind = "scope" /\ stack[u][j].worker = cell[t])
      BY <1>1, <3>1 DEF CellInv, ScopeInv
    <3>3. IF cell[t].id = 0 THEN pool[cell[t].pool] \in {"up", "stopped"}
          ELSE t = cell[t]
      BY <1>1, <3>1 DEF CellInv, ScopeInv
    <3>4. ASSUME NEW u \in Threads \ {t}  PROVE cell[u] # cell[t]
      BY <2>1, <2>3, <3>2, <3>4
    <3>5. ASSUME NEW u \in Threads \ {t}, NEW i2 \in 1 .. Len(stack[u])
          PROVE  stack[u][i2].worker # cell[t]
      BY <2>2, <3>2, <3>5
    <3> QED  BY <3>3, <3>4, <3>5
  <2> QED  BY <2>3 DEF ExclusiveWorker
<1> QED  BY <1>1, CellInvariance, PTL
==============================================================================
