------------------------------ MODULE Broadcast ------------------------------
(***************************************************************************)
(* The life of a Lace pool (src/lace/src/lib.rs): the worker threads and   *)
(* their loop, Lace::broadcast with the epoch / remaining / job protocol   *)
(* of BroadcastState, and Lace::stop.  The thread that owns the Lace is    *)
(* the worker Root.  One action per access to shared memory.               *)
(*                                                                         *)
(* The op and the results of a call live in the stack frame of broadcast:  *)
(* live names the call whose frame exists.  A job is represented by the    *)
(* number of the call whose frame it points into.                          *)
(***************************************************************************)
EXTENDS Integers, FiniteSets

CONSTANTS Workers,        \* the worker indices, Root among them
          Root,           \* the worker of the thread that owns the Lace
          MaxCalls,       \* bound on the broadcasts of one pool
          PanickingOps,   \* workers on which op may panic
          PanickingTasks  \* workers on which a task may panic: one that a
                          \* thread has stolen, or on Root its run

ASSUME WorkersAssumption == IsFiniteSet(Workers) /\ Root \in Workers
ASSUME CallsAssumption   == MaxCalls \in Nat
ASSUME PanicAssumption   == /\ PanickingOps \subseteq Workers
                            /\ PanickingTasks \subseteq Workers

VARIABLES
  epoch, remaining, job,   \* BroadcastState; job = 0 is None
  keepGoing,               \* keep_going
  rpc,                     \* where the owner of the Lace is
  calls,                   \* broadcasts started
  live,                    \* the call whose frame exists, 0 if none
  results,                 \* the indices written in the results of that call
  wpc,                     \* where each worker is
  wepoch,                  \* Worker::broadcast_epoch
  wjob                     \* the job each worker has read

shared  == <<epoch, remaining, job, keepGoing>>
frame   == <<calls, live, results>>
workers == <<wpc, wepoch, wjob>>
vars    == <<shared, rpc, frame, workers>>

RootPC   == {"idle", "store", "publish", "inside", "wait", "clear",
             "join", "stopped", "panicked"}
WorkerPC == {"away", "loop", "check", "read", "run", "sub", "steal",
             "exited", "crashed", "stuck"}

(* The one type invariant; remaining never wraps below 0.                  *)
TypeOK ==
  /\ epoch \in 0 .. MaxCalls
  /\ remaining \in 0 .. Cardinality(Workers)
  /\ job \in 0 .. MaxCalls
  /\ keepGoing \in BOOLEAN
  /\ rpc \in RootPC
  /\ calls \in 0 .. MaxCalls
  /\ live \in 0 .. MaxCalls
  /\ results \subseteq Workers
  /\ wpc \in [Workers -> WorkerPC]
  /\ wepoch \in [Workers -> 0 .. MaxCalls]
  /\ wjob \in [Workers -> 0 .. MaxCalls]

(* Lace::init: every thread but the root's is in its loop.                 *)
Init ==
  /\ epoch = 0 /\ remaining = 0 /\ job = 0 /\ keepGoing = TRUE
  /\ rpc = "idle" /\ calls = 0 /\ live = 0 /\ results = {}
  /\ wpc = [w \in Workers |-> IF w = Root THEN "away" ELSE "loop"]
  /\ wepoch = [w \in Workers |-> 0]
  /\ wjob = [w \in Workers |-> 0]

RootAt(from, to) == rpc = from /\ rpc' = to

WorkerAt(w, from, to) == wpc[w] = from /\ wpc' = [wpc EXCEPT ![w] = to]

(* A panic unwinds the whole stack of w, whose worker goes to pc to.  Tasks*)
(* that were stolen and run on that stack are lost.  Who has spawned one   *)
(* waits for it in sync_slow for ever, and so does, in turn, whoever waits *)
(* for him: some of the workers that are inside of a task or of op now     *)
(* will never get out of it.                                               *)
Unwind(w, to) ==
  \E doomed \in SUBSET {v \in Workers \ {w} : wpc[v] \in {"steal", "run"}} :
     wpc' = [v \in Workers |-> IF v = w THEN to
                               ELSE IF v \in doomed THEN "stuck" ELSE wpc[v]]

------------------------------------------------------------------------------
(* Lace::broadcast                                                         *)

(* The frame with op and results, and the job that points into it.         *)
BroadcastBegin ==
  /\ rpc \in {"idle", "stopped", "panicked"} /\ rpc' = "store"
  /\ calls < MaxCalls
  /\ calls' = calls + 1
  /\ live' = calls + 1
  /\ job' = calls + 1
  /\ results' = {}
  /\ UNCHANGED <<epoch, remaining, keepGoing, workers>>

(* Mutants of BroadcastStore: the root's worker is left out, or one worker *)
(* too many is waited for.                                                 *)
BroadcastStoreFew ==
  /\ RootAt("store", "publish")
  /\ remaining' = Cardinality(Workers) - 1
  /\ UNCHANGED <<epoch, job, keepGoing, frame, workers>>

BroadcastStoreMany ==
  /\ RootAt("store", "publish")
  /\ remaining' = Cardinality(Workers) + 1
  /\ UNCHANGED <<epoch, job, keepGoing, frame, workers>>

(* remaining.store(num_workers) *)
BroadcastStore ==
  /\ RootAt("store", "publish")
  /\ remaining' = Cardinality(Workers)
  /\ UNCHANGED <<epoch, job, keepGoing, frame, workers>>

(* epoch.fetch_add(1); then the root worker enters try_run_broadcast.      *)
BroadcastPublish ==
  /\ RootAt("publish", "inside")
  /\ epoch' = epoch + 1
  /\ wpc' = [wpc EXCEPT ![Root] = "check"]
  /\ UNCHANGED <<remaining, job, keepGoing, frame, wepoch, wjob>>

(* Mutant of BroadcastWait: it does not wait.                              *)
BroadcastWaitNot ==
  /\ RootAt("wait", "clear")
  /\ UNCHANGED <<shared, frame, workers>>

(* Spin until remaining is 0.                                              *)
BroadcastWait ==
  /\ remaining = 0
  /\ RootAt("wait", "clear")
  /\ UNCHANGED <<shared, frame, workers>>

BroadcastSpin == rpc = "wait" /\ remaining # 0 /\ UNCHANGED vars

(* Mutant of BroadcastReturn: the job is left in its cell.                 *)
BroadcastReturnKeepsJob ==
  /\ RootAt("clear", IF keepGoing THEN "idle" ELSE "stopped")
  /\ live' = 0
  /\ results' = {}
  /\ UNCHANGED <<shared, calls, workers>>

(* job = None, and the results are returned as initialised.                *)
BroadcastReturn ==
  /\ RootAt("clear", IF keepGoing THEN "idle" ELSE "stopped")
  /\ job' = 0
  /\ live' = 0
  /\ results' = {}
  /\ UNCHANGED <<epoch, remaining, keepGoing, calls, workers>>

(* Lace::run, called between broadcasts, panics; the caller may catch that.*)
RunPanics ==
  /\ Root \in PanickingTasks
  /\ rpc \in {"idle", "stopped", "panicked"}
  /\ wpc[Root] = "away"
  /\ Unwind(Root, "away")
  /\ UNCHANGED <<shared, rpc, frame, wepoch, wjob>>

------------------------------------------------------------------------------
(* Lace::stop, also called by drop                                         *)

StopBegin ==
  /\ RootAt("idle", "join")
  /\ keepGoing' = FALSE
  /\ UNCHANGED <<epoch, remaining, job, frame, workers>>

(* handle.join() of every thread.                                          *)
StopJoin ==
  /\ \A w \in Workers \ {Root} : wpc[w] = "exited"
  /\ RootAt("join", "stopped")
  /\ UNCHANGED <<shared, frame, workers>>

(* expect: a thread that panicked ends stop, whatever the threads whose    *)
(* handles come after it do.                                               *)
StopPanic ==
  /\ \E w \in Workers \ {Root} : wpc[w] = "crashed"
  /\ RootAt("join", "panicked")
  /\ UNCHANGED <<shared, frame, workers>>

(* A second stop finds no handles.                                         *)
StopAgain == rpc \in {"stopped", "panicked"} /\ UNCHANGED vars

------------------------------------------------------------------------------
(* Worker::thread and Worker::try_run_broadcast                            *)

(* Mutant of LoopKeepGoing: the thread never looks at keep_going.          *)
LoopForever(w) ==
  /\ WorkerAt(w, "loop", "check")
  /\ UNCHANGED <<shared, rpc, frame, wepoch, wjob>>

LoopKeepGoing(w) ==
  /\ WorkerAt(w, "loop", IF keepGoing THEN "check" ELSE "exited")
  /\ UNCHANGED <<shared, rpc, frame, wepoch, wjob>>

(* steal_random: one attempt and, when it succeeds, a whole stolen task    *)
(* that ends.  One that does not is in PanicTask and Unwind.               *)
Steal(w) ==
  /\ WorkerAt(w, "steal", "loop")
  /\ UNCHANGED <<shared, rpc, frame, wepoch, wjob>>

(* A stolen task panics and ends the thread.                               *)
PanicTask(w) ==
  /\ w \in PanickingTasks
  /\ wpc[w] = "steal"
  /\ Unwind(w, "crashed")
  /\ UNCHANGED <<shared, rpc, frame, wepoch, wjob>>

(* sync_slow of a lost task: leapfrog and look at the flag, for ever.      *)
SyncSpin(w) == wpc[w] = "stuck" /\ UNCHANGED vars

(* No new epoch: a thread goes stealing, the root returns to broadcast.    *)
CheckSame(w) ==
  /\ epoch = wepoch[w]
  /\ WorkerAt(w, "check", IF w = Root THEN "away" ELSE "steal")
  /\ rpc' = IF w = Root THEN "wait" ELSE rpc
  /\ UNCHANGED <<shared, frame, wepoch, wjob>>

(* Mutant of CheckNew: the epoch is not remembered.                        *)
CheckNewForgets(w) ==
  /\ epoch # wepoch[w]
  /\ WorkerAt(w, "check", "read")
  /\ UNCHANGED <<shared, rpc, frame, wepoch, wjob>>

CheckNew(w) ==
  /\ epoch # wepoch[w]
  /\ WorkerAt(w, "check", "read")
  /\ wepoch' = [wepoch EXCEPT ![w] = epoch]
  /\ UNCHANGED <<shared, rpc, frame, wjob>>

(* job.get() and its expect, which panics when there is no job.            *)
ReadJob(w) ==
  /\ WorkerAt(w, "read", IF job = 0 THEN "crashed" ELSE "run")
  /\ wjob' = [wjob EXCEPT ![w] = job]
  /\ UNCHANGED <<shared, rpc, frame, wepoch>>

(* Mutant of RunOp: every worker writes its result at index 0.             *)
RunOpAtRoot(w) ==
  /\ WorkerAt(w, "run", "sub")
  /\ results' = IF wjob[w] = live THEN results \cup {Root} ELSE results
  /\ UNCHANGED <<shared, rpc, calls, live, wepoch, wjob>>

(* call_broadcast: op runs and its result is written at the worker's index *)
(* of the frame the job points to.                                         *)
RunOp(w) ==
  /\ WorkerAt(w, "run", "sub")
  /\ results' = IF wjob[w] = live THEN results \cup {w} ELSE results
  /\ UNCHANGED <<shared, rpc, calls, live, wepoch, wjob>>

(* op panics: a thread ends; the root's broadcast unwinds, its frame goes, *)
(* and the caller may catch the panic and use the pool again.              *)
PanicOp(w) ==
  /\ w \in PanickingOps
  /\ wpc[w] = "run"
  /\ Unwind(w, IF w = Root THEN "away" ELSE "crashed")
  /\ IF w = Root
     THEN /\ rpc' = IF keepGoing THEN "idle" ELSE "stopped"
          /\ live' = 0
          /\ results' = {}
     ELSE UNCHANGED <<rpc, live, results>>
  /\ UNCHANGED <<shared, calls, wepoch, wjob>>

(* remaining.fetch_sub(1) *)
SubRemaining(w) ==
  /\ WorkerAt(w, "sub", IF w = Root THEN "away" ELSE "loop")
  /\ remaining' = remaining - 1
  /\ wjob' = [wjob EXCEPT ![w] = 0]
  /\ rpc' = IF w = Root THEN "wait" ELSE rpc
  /\ UNCHANGED <<epoch, job, keepGoing, frame, wepoch>>

------------------------------------------------------------------------------
RootStep == \/ BroadcastStore \/ BroadcastPublish \/ BroadcastWait
            \/ BroadcastReturn \/ StopJoin \/ StopPanic

WorkerStep(w) == \/ LoopKeepGoing(w) \/ Steal(w) \/ PanicTask(w)
                 \/ CheckSame(w) \/ CheckNew(w) \/ ReadJob(w)
                 \/ RunOp(w) \/ PanicOp(w) \/ SubRemaining(w)

Next == \/ BroadcastBegin \/ StopBegin \/ BroadcastSpin \/ StopAgain
        \/ RunPanics
        \/ RootStep
        \/ \E w \in Workers : WorkerStep(w) \/ SyncSpin(w)

Spec == Init /\ [][Next]_vars

(* Every thread is scheduled; op and stolen tasks end, by a panic or not,  *)
(* but for those that Unwind has left stuck, which have no step.  Whether  *)
(* the owner of the pool broadcasts or stops is up to it.  stop joins the  *)
(* threads one after the other: it is sure to get to a crashed one only    *)
(* when all have ended.                                                    *)
AllEnded == \A w \in Workers \ {Root} : wpc[w] \in {"exited", "crashed"}

FairSpec == /\ Spec
            /\ WF_vars(RootStep /\ (rpc = "join" => AllEnded))
            /\ \A w \in Workers : WF_vars(WorkerStep(w))

------------------------------------------------------------------------------
(* Properties                                                              *)

(* The expect in try_run_broadcast never fails: a worker that has seen a   *)
(* new epoch finds the job published for it.                               *)
JobPublished == \A w \in Workers : wpc[w] = "read" => job # 0

(* The job cell is a plain UnsafeCell: when broadcast writes it, at its    *)
(* beginning and at its end, no worker is about to read it.                *)
NoJobRace ==
  rpc \in {"idle", "stopped", "panicked", "clear"} =>
    \A w \in Workers : wpc[w] # "read"

InOp(w) == wpc[w] = "run" \/ (wpc[w] = "stuck" /\ wjob[w] # 0)

(* op and results are borrowed from the frame of the call: a worker is     *)
(* inside of op, be it stuck there, only while that frame exists, and once *)
(* per call.                                                               *)
RunsInLiveFrame ==
  \A w \in Workers : InOp(w) =>
     live # 0 /\ wjob[w] = live /\ w \notin results

(* Vec::from_raw_parts is sound: every index has been written.             *)
ResultsComplete == rpc = "clear" => results = Workers

Crashed == {w \in Workers : wpc[w] = "crashed"}
Stuck   == {w \in Workers : wpc[w] = "stuck"}

(* A broadcast on a running pool returns, unless it needs a thread that a  *)
(* panic has ended, or one that waits for a task that a panic took: neither*)
(* will subtract itself from remaining.                                    *)
BroadcastReturns ==
  rpc = "store" /\ keepGoing ~> \/ rpc = "idle"
                               \/ Crashed # {} \/ Stuck # {}

(* stop returns, or panics if a thread has.  It hangs in a join only when  *)
(* some worker waits for a task that a panic took, a wait in which nobody  *)
(* reads keep_going: a panic that takes nothing from others does not hang  *)
(* it, nor do threads that steal or work for a broadcast.                  *)
StopEnds == rpc = "join" ~> \/ rpc = "stopped"
                            \/ rpc = "panicked" /\ Crashed # {}
                            \/ Stuck # {}

Call == INSTANCE BroadcastCall WITH active <- live # 0, ran <- results

(* Each call runs op exactly once on every worker before it returns.       *)
ImplementsCall == Call!CallSpec

------------------------------------------------------------------------------
(* The inductive invariant, if op does not panic on the root's worker.     *)

Published == rpc \in {"inside", "wait", "clear"}   \* epoch of the call is out
InCall    == Published \/ rpc \in {"store", "publish"}

(* Workers on which op has panicked or is stuck.                           *)
Fallen(w)    == wpc[w] \in {"crashed", "stuck"} /\ wjob[w] # 0

(* Workers that have not yet subtracted themselves from remaining.         *)
Pending(w)   == \/ wepoch[w] # epoch
                \/ wpc[w] \in {"read", "run", "sub"}
                \/ Fallen(w)
PendingSet   == {w \in Workers : Pending(w)}

RootInv ==
  /\ wpc[Root] \in {"away", "check", "read", "run", "sub", "stuck"}
  /\ wpc[Root] = "stuck" => Fallen(Root)
  /\ rpc = "inside" <=> wpc[Root] # "away"
  /\ wpc[Root] = "check" => wepoch[Root] # epoch
  /\ rpc \in {"wait", "clear"} => wepoch[Root] = epoch

CallInv ==
  /\ epoch = IF rpc \in {"store", "publish"} THEN calls - 1 ELSE calls
  /\ InCall => calls > 0
  /\ job = IF InCall THEN calls ELSE 0
  /\ live = job
  /\ ~Published => \A w \in Workers : ~Pending(w)
  /\ Published => results = {w \in Workers : /\ wepoch[w] = epoch
                                             /\ wpc[w] \notin {"read", "run"}
                                             /\ ~Fallen(w)}
  /\ ~Published => results = {}
  /\ remaining = IF rpc = "publish" THEN Cardinality(Workers)
                 ELSE Cardinality(PendingSet)
  /\ rpc = "clear" => PendingSet = {}

WorkerInv ==
  \A w \in Workers :
    /\ w # Root => wpc[w] # "away"
    /\ wpc[w] \in {"read", "run", "sub"} \/ Fallen(w) => wepoch[w] = epoch
    /\ wpc[w] \in {"run", "sub"} \/ Fallen(w) => wjob[w] = live
    /\ wpc[w] \notin {"run", "sub", "crashed", "stuck"} => wjob[w] = 0

BroadcastInv == TypeOK /\ RootInv /\ CallInv /\ WorkerInv
==============================================================================
