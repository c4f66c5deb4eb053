---------------------------- MODULE CurrentWorker ----------------------------
(***************************************************************************)
(* The thread-local cell that tells which worker a thread is running as    *)
(* (CURRENT_WORKER in src/lace/src/lib.rs): with_current_worker sets it    *)
(* for the time of a call, as Lace::run, Lace::broadcast and the main      *)
(* function of a worker's thread do; try_run_current uses it to run a task *)
(* from code that has no Worker at hand.                                   *)
(*                                                                         *)
(* Pools nest: a task may own another Lace and run it, and code under that *)
(* may try the outer pool.  Calls panic, and user code catches panics at   *)
(* any depth.  Lace is used through &mut: one call at a time, from any     *)
(* thread.                                                                 *)
(***************************************************************************)
EXTENDS Naturals, Sequences, Stacks

CONSTANTS Users,       \* threads that are not workers
          Pools,       \* pool ids
          NoPool,      \* the pool id of CurrentWorker::NONE
          Ids,         \* the worker indices of a pool, 0 for the root's
          MaxDepth     \* bound on the nesting in one thread

ASSUME PoolAssumption == NoPool \notin Pools
ASSUME IdAssumption   == Ids \subseteq Nat /\ 0 \in Ids
ASSUME DepthAssumption == MaxDepth \in Nat

Worker == [pool : Pools, id : Ids]
NONE   == [pool |-> NoPool, id |-> 0]
Root(p) == [pool |-> p, id |-> 0]

(* A worker other than the root's has a thread, of the same name.          *)
Bound   == {w \in Worker : w.id # 0}
ASSUME UserAssumption == Users \cap Worker = {}
Threads == Users \cup Bound

VARIABLES
  cell,    \* CURRENT_WORKER of each thread
  stack,   \* calls of with_current_worker and try_run_current, newest last
  mode,    \* whether a thread runs, unwinds, or has ended
  pool     \* what has become of each Lace

vars == <<cell, stack, mode, pool>>

(* prev is what the Reset guard of with_current_worker holds; worker is    *)
(* the one the call is given, or the task of try_run_current gets.         *)
Frame == [kind : {"scope", "task"}, worker : Worker, prev : Worker \cup {NONE}]

TypeOK ==
  /\ cell \in [Threads -> Worker \cup {NONE}]
  /\ stack \in [Threads -> Seq(Frame)]
  /\ mode \in [Threads ->
               {"absent", "running", "unwinding", "ended", "crashed"}]
  /\ pool \in [Pools -> {"none", "up", "stopping", "stopped", "freed"}]

Init ==
  /\ cell = [t \in Threads |-> NONE]
  /\ stack = [t \in Threads |-> <<>>]
  /\ mode = [t \in Threads |-> IF t \in Users THEN "running" ELSE "absent"]
  /\ pool = [p \in Pools |-> "none"]

Top(t)    == Newest(stack[t])

ThreadsOf(p) == {w \in Bound : w.pool = p}

(* Some call has the &mut Lace.                                            *)
InUse(p) == \E t \in Threads : \E i \in 1 .. Len(stack[t]) :
              stack[t][i].kind = "scope" /\ stack[t][i].worker = Root(p)

(* A thread in user code, which for a worker's thread is inside of a task. *)
InCode(t) == mode[t] = "running" /\ (t \in Bound => stack[t] # <<>>)

------------------------------------------------------------------------------
(* Lace::init: the pool gets its id and its threads.                       *)
InitPool(p) ==
  /\ pool[p] = "none"
  /\ pool' = [pool EXCEPT ![p] = "up"]
  /\ mode' = [t \in Threads |->
                IF t \in ThreadsOf(p) THEN "running" ELSE mode[t]]
  /\ UNCHANGED <<cell, stack>>

(* with_current_worker: the cell is replaced, its old value kept.          *)
Enter(t, w) ==
  /\ stack' = [stack EXCEPT ![t] =
       Append(@, [kind |-> "scope", worker |-> w, prev |-> cell[t]])]
  /\ cell' = [cell EXCEPT ![t] = w]

(* Drop of Reset, or the return of try_run_current.                        *)
Pop(t) ==
  /\ stack' = [stack EXCEPT ![t] = Older(@)]
  /\ cell' = IF Top(t).kind = "scope" THEN [cell EXCEPT ![t] = Top(t).prev]
             ELSE cell

(* Worker::thread *)
ThreadMain(t) ==
  /\ t \in Bound /\ mode[t] = "running" /\ stack[t] = <<>>
  /\ Enter(t, t)
  /\ UNCHANGED <<mode, pool>>

(* keep_going is false: the loop of Worker::thread ends.                   *)
ThreadEnd(t) ==
  /\ t \in Bound /\ mode[t] = "running"
  /\ Len(stack[t]) = 1 /\ pool[t.pool] \notin {"none", "up"}
  /\ Pop(t)
  /\ mode' = [mode EXCEPT ![t] = "ended"]
  /\ UNCHANGED pool

(* Lace::run, and the call of the root's worker in Lace::broadcast.        *)
Run(t, p) ==
  /\ InCode(t) /\ Len(stack[t]) < MaxDepth
  /\ pool[p] \in {"up", "stopped"} /\ ~InUse(p)
  /\ Enter(t, Root(p))
  /\ UNCHANGED <<mode, pool>>

(* Mutant of TryRun: the pool id is not compared.                          *)
TryRunAny(t, p) ==
  /\ InCode(t) /\ Len(stack[t]) < MaxDepth
  /\ cell[t] # NONE
  /\ stack' = [stack EXCEPT ![t] =
       Append(@, [kind |-> "task", worker |-> Root(p), prev |-> NONE])]
  /\ UNCHANGED <<cell, mode, pool>>

(* try_run_current that finds the thread running as a worker of pool p.    *)
TryRun(t, p) ==
  /\ InCode(t) /\ Len(stack[t]) < MaxDepth
  /\ cell[t] # NONE /\ cell[t].pool = p
  /\ stack' = [stack EXCEPT ![t] =
       Append(@, [kind |-> "task", worker |-> cell[t], prev |-> NONE])]
  /\ UNCHANGED <<cell, mode, pool>>

(* Err(input): the thread runs as no worker, or as one of another pool.    *)
TryRunErr(t, p) ==
  /\ InCode(t)
  /\ cell[t] = NONE \/ cell[t].pool # p
  /\ UNCHANGED vars

(* A call in user code returns.                                            *)
Return(t) ==
  /\ mode[t] = "running" /\ stack[t] # <<>>
  /\ t \in Bound => Len(stack[t]) > 1
  /\ Pop(t)
  /\ UNCHANGED <<mode, pool>>

(* User code panics.                                                       *)
Panic(t) ==
  /\ InCode(t) /\ stack[t] # <<>>
  /\ mode' = [mode EXCEPT ![t] = "unwinding"]
  /\ UNCHANGED <<cell, stack, pool>>

(* Mutant of Unwind: the cell is reset after the call instead of by a      *)
(* guard, so that a panic skips it.                                        *)
UnwindKeepsCell(t) ==
  /\ mode[t] = "unwinding" /\ stack[t] # <<>>
  /\ stack' = [stack EXCEPT ![t] = Older(@)]
  /\ UNCHANGED <<cell, mode, pool>>

(* The panic leaves one more call, whose guards are dropped.               *)
Unwind(t) ==
  /\ mode[t] = "unwinding" /\ stack[t] # <<>>
  /\ Pop(t)
  /\ UNCHANGED <<mode, pool>>

(* User code catches it; nothing catches it in Worker::thread.             *)
Catch(t) ==
  /\ mode[t] = "unwinding"
  /\ t \in Bound => stack[t] # <<>>
  /\ mode' = [mode EXCEPT ![t] = "running"]
  /\ UNCHANGED <<cell, stack, pool>>

Crash(t) ==
  /\ mode[t] = "unwinding" /\ t \in Bound /\ stack[t] = <<>>
  /\ mode' = [mode EXCEPT ![t] = "crashed"]
  /\ UNCHANGED <<cell, stack, pool>>

(* Lace::stop, by call or by drop: threads are joined, up to the first one *)
(* that has panicked.                                                      *)
Stop(p) ==
  /\ pool[p] = "up" /\ ~InUse(p)
  /\ pool' = [pool EXCEPT ![p] = "stopping"]
  /\ UNCHANGED <<cell, stack, mode>>

Joined(p) ==
  /\ pool[p] = "stopping"
  /\ \/ \A w \in ThreadsOf(p) : mode[w] = "ended"
     \/ \E w \in ThreadsOf(p) : mode[w] = "crashed"
  /\ pool' = [pool EXCEPT ![p] = "stopped"]
  /\ UNCHANGED <<cell, stack, mode>>

(* The Lace goes, and its root worker with it.                             *)
Free(p) ==
  /\ pool[p] = "stopped" /\ ~InUse(p)
  /\ pool' = [pool EXCEPT ![p] = "freed"]
  /\ UNCHANGED <<cell, stack, mode>>

Next ==
  \/ \E p \in Pools : InitPool(p) \/ Stop(p) \/ Joined(p) \/ Free(p)
  \/ \E t \in Threads :
       \/ ThreadMain(t) \/ ThreadEnd(t) \/ Return(t)
       \/ Panic(t) \/ Unwind(t) \/ Catch(t) \/ Crash(t)
       \/ \E p \in Pools : Run(t, p) \/ TryRun(t, p) \/ TryRunErr(t, p)

Spec == Init /\ [][Next]_vars

------------------------------------------------------------------------------
(* Properties                                                              *)

(* w is the worker of the innermost with_current_worker among the first i  *)
(* calls of s, NONE if there is none.                                      *)
Innermost(s, i, w) ==
  \/ w = NONE /\ \A l \in 1 .. i : s[l].kind = "task"
  \/ \E j \in 1 .. i : /\ s[j].kind = "scope" /\ s[j].worker = w
                       /\ \A l \in j + 1 .. i : s[l].kind = "task"

(* The cell always names the worker of the innermost call that has not     *)
(* returned or been unwound, and try_run_current gives its task the worker *)
(* of the innermost call around it, never one of an outer pool.            *)
CellIsInnermost ==
  \A t \in Threads :
    /\ Innermost(stack[t], Len(stack[t]), cell[t])
    /\ \A i \in 1 .. Len(stack[t]) : stack[t][i].kind = "task" =>
         Innermost(stack[t], i - 1, stack[t][i].worker)

(* The SAFETY comment of try_run_current: the thread has exclusive access  *)
(* to the worker the cell points to.  So no other thread may run as it, by *)
(* its cell or in a task, and it must still exist.                         *)
ExclusiveWorker ==
  \A t \in Threads : cell[t] # NONE =>
    /\ \A u \in Threads \ {t} :
         /\ cell[u] # cell[t]
         /\ \A i \in 1 .. Len(stack[u]) : stack[u][i].worker # cell[t]
    /\ IF cell[t].id = 0 THEN pool[cell[t].pool] \notin {"none", "freed"}
       ELSE t = cell[t]

------------------------------------------------------------------------------
(* The inductive invariant                                                 *)

(* What the cell c goes back to when the calls of s return one by one.     *)
Linked(s, c) ==
  /\ Innermost(s, Len(s), c)
  /\ \A i \in 1 .. Len(s) :
       Innermost(s, i - 1, IF s[i].kind = "scope" THEN s[i].prev
                           ELSE s[i].worker)

(* At most one scope per worker; a root's needs its pool, and any other    *)
(* worker's is the main function of its own thread.                        *)
ScopeInv ==
  \A t \in Threads : \A i \in 1 .. Len(stack[t]) :
    stack[t][i].kind = "scope" =>
    LET w == stack[t][i].worker
    IN  /\ IF w.id = 0 THEN pool[w.pool] \in {"up", "stopped"}
           ELSE t = w /\ i = 1
        /\ \A u \in Threads : \A j \in 1 .. Len(stack[u]) :
             stack[u][j].kind = "scope" /\ stack[u][j].worker = w =>
               u = t /\ j = i

CellInv == /\ TypeOK
           /\ \A t \in Threads : Linked(stack[t], cell[t])
           /\ ScopeInv
=============================================================================
