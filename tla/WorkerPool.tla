----------------------------- MODULE WorkerPool -----------------------------
(***************************************************************************)
(* Fork-join scheduling in a Lace pool (src/lace/src/lib.rs): Lace::run on *)
(* the root worker, spawn, sync, join and direct calls inside of tasks,    *)
(* sync_slow with leapfrogging, and the stealing of idle threads.          *)
(*                                                                         *)
(* The deques are those of WorkDeque, each operation one step: SplitDeque  *)
(* is shown to implement them.  A worker is its call stack: one frame per  *)
(* task body that runs, whether called, synced or stolen.  The program is  *)
(* data: each task's body is the sequence of its spawns, syncs and calls.  *)
(***************************************************************************)
EXTENDS Naturals, Sequences, Stacks

CONSTANTS Workers,      \* the worker indices
          Root,         \* the worker of the thread that calls run
          NoWorker,     \* no thief
          Tasks,        \* the tasks the pool runs
          Mains,        \* those that run starts with, each once
          NoTask,       \* no task
          Program,      \* Program[t]: the body of t
          Held,         \* Held[t][k]: the tokens t's body holds after its
                        \* first k operations, newest last
          Panicking,    \* the tasks whose body may panic
          LeapRandom,   \* TRUE for feature leapfrog_random
          BufferSize    \* how many tasks a deque holds

Op == [do : {"spawn", "sync", "call"}, of : Tasks]

(* Operation k of t's body starts a task, its child.                       *)
Starts(t, k) == Program[t][k].do # "sync"
Child(t, k)  == Program[t][k].of

(* A body syncs its newest token, and all of them before it ends.          *)
LifoTokens(t) ==
  LET n == Len(Program[t])
  IN  /\ Held[t] \in [0 .. n -> Seq(Tasks)]
      /\ Held[t][0] = <<>> /\ Held[t][n] = <<>>
      /\ \A k \in 1 .. n :
           LET c == Program[t][k].of
           IN  CASE Program[t][k].do = "spawn" ->
                      Held[t][k] = Append(Held[t][k - 1], c)
                 [] Program[t][k].do = "sync" ->
                      Held[t][k - 1] = Append(Held[t][k], c)
                 [] Program[t][k].do = "call" ->
                      Held[t][k] = Held[t][k - 1]

ASSUME SizeAssumption == BufferSize \in Nat \ {0}
ASSUME WorkerAssumption == Root \in Workers /\ NoWorker \notin Workers
ASSUME ProgramAssumption ==
  /\ Program \in [Tasks -> Seq(Op)]
  /\ Mains \subseteq Tasks /\ Panicking \subseteq Tasks /\ NoTask \notin Tasks
  /\ \A t \in Tasks : LifoTokens(t)
  /\ \A t, u \in Tasks :
       \A k \in 1 .. Len(Program[t]), l \in 1 .. Len(Program[u]) :
         Starts(t, k) /\ Starts(u, l) =>
           /\ Child(t, k) \notin Mains
           /\ Child(t, k) = Child(u, l) => t = u /\ k = l

VARIABLES
  deque,    \* each worker's queue, oldest first
  stack,    \* each worker's call stack, innermost last
  begun,    \* how often each task's body has been entered
  ended,    \* the tasks whose body has returned
  lost,     \* the tasks whose frame was unwound by a panic
  dead      \* the workers whose thread a panic has ended

panics == <<lost, dead>>
vars   == <<deque, stack, begun, ended, panics>>

Item(t) == [task |-> t, status |-> "ready", thief |-> NoWorker]

(* home says where the output of a stolen task goes: slot and deque.       *)
Local == [victim |-> NoWorker, slot |-> 0]

(* at: in the body, or in the loop of sync_slow about to read the flag     *)
(* ("look") or to leapfrog on the thief it has read ("leap").  base is the *)
(* height of the worker's deque when the body was entered.                 *)
Frame(t, home, base) == [task |-> t, pc |-> 1, at |-> "body",
                         thief |-> NoWorker, home |-> home, base |-> base]

Init == /\ deque = [w \in Workers |-> <<>>]
        /\ stack = [w \in Workers |-> <<>>]
        /\ begun = [t \in Tasks |-> 0]
        /\ ended = {} /\ lost = {} /\ dead = {}

Top(w)     == Newest(stack[w])
Running(w) == stack[w] # <<>>
Frames(w)  == {stack[w][i] : i \in 1 .. Len(stack[w])}

WithTop(w, f)  == Append(Older(stack[w]), f)
Advanced(w)    == WithTop(w, [Top(w) EXCEPT !.pc = @ + 1, !.at = "body",
                                            !.thief = NoWorker])
Looking(w)     == WithTop(w, [Top(w) EXCEPT !.at = "look",
                                            !.thief = NoWorker])
Enter(t)       == begun' = [begun EXCEPT ![t] = @ + 1]

(* The body at the top of w's stack is about to do an operation of kind o. *)
InBody(w)    == Running(w) /\ Top(w).at = "body"
Body(w)      == Program[Top(w).task]
Operand(w)   == Body(w)[Top(w).pc].of
Doing(w, o)  == /\ InBody(w)
                /\ Top(w).pc <= Len(Body(w))
                /\ Body(w)[Top(w).pc].do = o

------------------------------------------------------------------------------
(* Lace::run: the root worker executes a task while the caller waits.      *)
Run(t) ==
  /\ ~Running(Root) /\ begun[t] = 0
  /\ stack' = [stack EXCEPT ![Root] = <<Frame(t, Local, Len(deque[Root]))>>]
  /\ Enter(t)
  /\ UNCHANGED <<deque, ended, panics>>

(* A panic unwinds the whole stack: run passes it on to its caller, the    *)
(* thread of another worker ends.  What the frames had spawned stays in    *)
(* the deque, and what they had stolen is never finished.  Bodies that     *)
(* catch a panic of what they call are left out.                           *)
Unwind(w) ==
  /\ stack' = [stack EXCEPT ![w] = <<>>]
  /\ lost' = lost \cup {f.task : f \in Frames(w)}
  /\ dead' = dead \cup ({w} \ {Root})
  /\ UNCHANGED <<deque, begun, ended>>

Panic(w) == InBody(w) /\ Top(w).task \in Panicking /\ Unwind(w)

(* The check at the start of push: a full deque panics.                    *)
Overflow(w) == Doing(w, "spawn") /\ Len(deque[w]) = BufferSize /\ Unwind(w)

(* spawn, also the first half of join.                                     *)
Spawn(w) ==
  /\ Doing(w, "spawn") /\ Len(deque[w]) < BufferSize
  /\ deque' = [deque EXCEPT ![w] = Append(@, Item(Operand(w)))]
  /\ stack' = [stack EXCEPT ![w] = Advanced(w)]
  /\ UNCHANGED <<begun, ended, panics>>

(* A direct call, as of join's second task.                                *)
Call(w) ==
  /\ Doing(w, "call")
  /\ stack' = [stack EXCEPT ![w] =
                 Append(Advanced(w), Frame(Operand(w), Local, Len(deque[w])))]
  /\ Enter(Operand(w))
  /\ UNCHANGED <<deque, ended, panics>>

(* sync: sync_fast, or pop with Pop::Work: the owner runs what it popped.  *)
SyncWork(w) ==
  /\ Doing(w, "sync")
  /\ deque[w] # <<>> /\ Newest(deque[w]).status = "ready"
  /\ LET t == Newest(deque[w]).task
     IN  /\ stack' = [stack EXCEPT ![w] =
              Append(Advanced(w), Frame(t, Local, Len(deque[w]) - 1))]
         /\ Enter(t)
  /\ deque' = [deque EXCEPT ![w] = Older(@)]
  /\ UNCHANGED <<ended, panics>>

(* sync_slow: Pop::Stolen(i); i is the newest item.                        *)
SyncStolen(w) ==
  /\ Doing(w, "sync")
  /\ deque[w] # <<>> /\ Newest(deque[w]).status # "ready"
  /\ stack' = [stack EXCEPT ![w] = Looking(w)]
  /\ UNCHANGED <<deque, begun, ended, panics>>

(* Mutants of LookDone: the output is taken before the thief has finished, *)
(* or the item stays in the deque.                                         *)
LookDoneEarly(w) ==
  /\ Running(w) /\ Top(w).at = "look"
  /\ deque' = [deque EXCEPT ![w] = Older(@)]
  /\ stack' = [stack EXCEPT ![w] = Advanced(w)]
  /\ UNCHANGED <<begun, ended, panics>>

LookDoneKeeps(w) ==
  /\ Running(w) /\ Top(w).at = "look"
  /\ Newest(deque[w]).status = "done"
  /\ stack' = [stack EXCEPT ![w] = Advanced(w)]
  /\ UNCHANGED <<deque, begun, ended, panics>>

(* thief_flag(i) is FINISHED: pop_stolen and take_output.                  *)
LookDone(w) ==
  /\ Running(w) /\ Top(w).at = "look"
  /\ Newest(deque[w]).status = "done"
  /\ deque' = [deque EXCEPT ![w] = Older(@)]
  /\ stack' = [stack EXCEPT ![w] = Advanced(w)]
  /\ UNCHANGED <<begun, ended, panics>>

(* thief_flag(i) is a thief, which may have finished when w leapfrogs.     *)
LookBusy(w) ==
  /\ Running(w) /\ Top(w).at = "look"
  /\ Newest(deque[w]).status = "stolen"
  /\ stack' = [stack EXCEPT ![w] =
                 WithTop(w, [Top(w) EXCEPT !.at = "leap",
                                           !.thief = Newest(deque[w]).thief])]
  /\ UNCHANGED <<deque, begun, ended, panics>>

StolenFrame(w, v, i) ==
  Frame(deque[v][i].task, [victim |-> v, slot |-> i], Len(deque[w]))

(* Mutants of StealWork: the item stays ready, the victim's own id goes    *)
(* into the flag, or the newest ready task is taken.                       *)
StealWorkCopies(w, v, rest) ==
  \E i \in 1 .. Len(deque[v]) :
    /\ deque[v][i].status = "ready"
    /\ stack' = [stack EXCEPT ![w] =
         Append(rest, StolenFrame(w, v, i))]
    /\ Enter(deque[v][i].task)
    /\ UNCHANGED <<deque, ended, panics>>

StealWorkWrongId(w, v, rest) ==
  \E i \in 1 .. Len(deque[v]) :
    /\ deque[v][i].status = "ready"
    /\ \A j \in 1 .. i - 1 : deque[v][j].status # "ready"
    /\ deque' = [deque EXCEPT ![v][i].status = "stolen", ![v][i].thief = v]
    /\ stack' = [stack EXCEPT ![w] =
         Append(rest, StolenFrame(w, v, i))]
    /\ Enter(deque[v][i].task)
    /\ UNCHANGED <<ended, panics>>

StealWorkNewest(w, v, rest) ==
  \E i \in 1 .. Len(deque[v]) :
    /\ deque[v][i].status = "ready"
    /\ \A j \in i + 1 .. Len(deque[v]) : deque[v][j].status # "ready"
    /\ deque' = [deque EXCEPT ![v][i].status = "stolen", ![v][i].thief = w]
    /\ stack' = [stack EXCEPT ![w] =
         Append(rest, StolenFrame(w, v, i))]
    /\ Enter(deque[v][i].task)
    /\ UNCHANGED <<ended, panics>>

(* steal_work(v) with Steal::Success: w runs v's oldest ready task on top  *)
(* of rest.                                                                *)
StealWork(w, v, rest) ==
  \E i \in 1 .. Len(deque[v]) :
    /\ deque[v][i].status = "ready"
    /\ \A j \in 1 .. i - 1 : deque[v][j].status # "ready"
    /\ deque' = [deque EXCEPT ![v][i].status = "stolen", ![v][i].thief = w]
    /\ stack' = [stack EXCEPT ![w] =
         Append(rest, StolenFrame(w, v, i))]
    /\ Enter(deque[v][i].task)
    /\ UNCHANGED <<ended, panics>>

(* Whom a worker in sync_slow robs: the thief it has read or, with the     *)
(* feature leapfrog_random, anybody else now and then.                     *)
Victims(w) == IF LeapRandom THEN Workers \ {w} ELSE {Top(w).thief}

Leap(w) ==
  /\ Running(w) /\ Top(w).at = "leap"
  /\ \E v \in Victims(w) : StealWork(w, v, Looking(w))

(* Steal::Empty or Steal::Retry: nothing ready, nothing shared, or a race. *)
LeapFail(w) ==
  /\ Running(w) /\ Top(w).at = "leap"
  /\ stack' = [stack EXCEPT ![w] = Looking(w)]
  /\ UNCHANGED <<deque, begun, ended, panics>>

(* Worker::thread: an idle thread robs a random other worker.              *)
StealRandom(w) ==
  /\ w \notin dead \cup {Root} /\ ~Running(w)
  /\ \E v \in Workers \ {w} : StealWork(w, v, <<>>)

(* Mutant of Return: steal_finished is forgotten.                          *)
ReturnSilently(w) ==
  /\ InBody(w) /\ Top(w).pc > Len(Body(w))
  /\ stack' = [stack EXCEPT ![w] = Older(@)]
  /\ ended' = ended \cup {Top(w).task}
  /\ UNCHANGED <<deque, begun, panics>>

(* The body returns: to its caller, or to steal_work and steal_finished.   *)
Return(w) ==
  /\ InBody(w) /\ Top(w).pc > Len(Body(w))
  /\ stack' = [stack EXCEPT ![w] = Older(@)]
  /\ ended' = ended \cup {Top(w).task}
  /\ deque' = IF Top(w).home = Local THEN deque
              ELSE [deque EXCEPT ![Top(w).home.victim]
                                 [Top(w).home.slot].status = "done"]
  /\ UNCHANGED <<begun, panics>>

(* Without a run, threads look for work in vain.                           *)
Idle == (\A w \in Workers : ~Running(w)) /\ UNCHANGED vars

Step(w) == \/ Spawn(w) \/ Overflow(w) \/ Call(w) \/ SyncWork(w)
           \/ SyncStolen(w) \/ LookDone(w) \/ LookBusy(w)
           \/ Leap(w) \/ LeapFail(w) \/ Return(w)

Next == \/ \E t \in Mains : Run(t)
        \/ \E w \in Workers : Step(w) \/ StealRandom(w) \/ Panic(w)
        \/ Idle

Spec == Init /\ [][Next]_vars

(* Every thread runs on; that it ever steals is not assumed.               *)
FairSpec == Spec /\ \A w \in Workers : WF_vars(Step(w))

------------------------------------------------------------------------------
(* Properties                                                              *)

ItemType  == [task : Tasks, status : {"ready", "stolen", "done"},
              thief : Workers \cup {NoWorker}]
HomeType  == [victim : Workers \cup {NoWorker}, slot : Nat]
FrameType == [task : Tasks, pc : Nat, at : {"body", "look", "leap"},
              thief : Workers \cup {NoWorker}, home : HomeType, base : Nat]

TypeOK ==
  /\ deque \in [Workers -> Seq(ItemType)]
  /\ stack \in [Workers -> Seq(FrameType)]
  /\ begun \in [Tasks -> Nat]
  /\ ended \subseteq Tasks /\ lost \subseteq Tasks
  /\ dead \subseteq Workers \ {Root}

Queued(w)  == {deque[w][i] : i \in 1 .. Len(deque[w])}
Active     == UNION {{f.task : f \in Frames(w)} : w \in Workers}
Pending    == UNION {{d.task : d \in Queued(w)} : w \in Workers}

(* A sync is about the newest item of its own deque, whatever ran on this  *)
(* stack since the spawn: nested tasks, leapfrogged ones, their own syncs, *)
(* and whatever a panic has left below.                                    *)
SyncsOwnTask ==
  \A w \in Workers :
    Doing(w, "sync") \/ (Running(w) /\ Top(w).at # "body") =>
      deque[w] # <<>> /\ Newest(deque[w]).task = Operand(w)

(* Every task runs at most once: no thief and owner both, none twice, and  *)
(* none is still to run when its output is taken.                          *)
RunsOnce ==
  /\ \A t \in Tasks : begun[t] <= 1
  /\ \A w \in Workers : \A d \in Queued(w) :
       /\ d.status = "ready" => begun[d.task] = 0
       /\ d.status = "done" <=> d.task \in ended

(* Tasks borrow from the frame that spawned them ('task): while a task     *)
(* runs or waits in a deque, its parent's body has not returned.  Only a   *)
(* panic can take that frame away before.                                  *)
ParentsOutlive ==
  \A t \in Tasks \ ((Active \ ended) \cup lost) :
    \A k \in 1 .. Len(Program[t]) :
      Starts(t, k) => Child(t, k) \notin Active \cup Pending

(* When a body has returned, whatever it started has returned too and is   *)
(* on no stack and no deque, even if other tasks have panicked: a caller   *)
(* of run gets its borrows back.                                           *)
NothingLeftBehind ==
  \A t \in ended : \A k \in 1 .. Len(Program[t]) :
    Starts(t, k) => Child(t, k) \in ended \ (Active \cup Pending)

(* After a run without panics the whole pool is at rest, and stop finds    *)
(* idle threads.                                                           *)
RestsAfterRun ==
  ~Running(Root) /\ lost = {} =>
    \A w \in Workers : ~Running(w) /\ deque[w] = <<>>

(* What a frame of w holds is what lies in w's deque above its base.       *)
Holding(f) == Held[f.task][f.pc - 1]
Height(f)  == f.base + Len(Holding(f))

(* run returns: leapfrogging, nested stealing and stale thief ids leave no *)
(* circle of workers that wait for each other.  The one thing that keeps   *)
(* it is a wait for a stolen task that panicked: nobody sets its flag.     *)
Awaited(w, f) == deque[w][Height(f)].task

Stuck == \E w \in Workers : \E f \in Frames(w) :
           f.at # "body" /\ Awaited(w, f) \in lost

RunReturns == Running(Root) ~> ~Running(Root) \/ Stuck

(* Nothing but workers of W can end what w waits for in sync_slow.         *)
WaitsWithin(w, W) ==
  /\ Running(w) /\ Top(w).at # "body"
  /\ LET d == Newest(deque[w])
     IN  /\ d.status # "done" /\ d.task \notin lost
         /\ d.status = "stolen" => d.thief \in W

(* Leapfrogging and random stealing put tasks on stacks whose lower frames *)
(* wait for other workers, and these for others: no group of workers ever  *)
(* waits for nobody but itself.                                            *)
NoCircle ==
  \A W \in (SUBSET Workers) \ {{}} : \E w \in W : ~WaitsWithin(w, W)

(* Each worker's deque is used as WorkDeque allows: one owner that pushes  *)
(* and settles the newest, thieves that take the oldest.                   *)
Index == 0 .. BufferSize - 1

TasksOf(q)    == [i \in Index |-> IF i < Len(q) THEN q[i + 1].task ELSE NoTask]
StatusesOf(q) == [i \in Index |-> IF i < Len(q) THEN q[i + 1].status ELSE "free"]

Deque(w) == INSTANCE WorkDeque WITH
  Capacity <- BufferSize, depth <- Len(deque[w]),
  task <- TasksOf(deque[w]), status <- StatusesOf(deque[w])

UsesWorkDeque ==
  /\ \A w \in Workers : Deque(w)!AbsInit
  /\ [][\A w \in Workers : [Deque(w)!AbsNext]_(Deque(w)!absVars)]_vars

(* Whatever the workers do, tasks behave as the fork-join program says.    *)
State == [t \in Tasks |->
  IF t \in ended THEN "ended" ELSE IF t \in lost THEN "lost"
  ELSE IF begun[t] # 0 THEN "running" ELSE IF t \in Pending THEN "forked"
  ELSE "fresh"]

FrameFor(t) == CHOOSE f \in UNION {Frames(w) : w \in Workers} : f.task = t

Place == [t \in Tasks |-> IF t \in Active THEN FrameFor(t).pc ELSE 0]

Promise == INSTANCE ForkJoin WITH state <- State, place <- Place

ImplementsForkJoin == Promise!FJSpec

------------------------------------------------------------------------------
(* The inductive invariant                                                 *)

(* The tokens that the frames of a stack hold are, from bottom to top, the *)
(* tasks in the worker's deque above what an unwound stack has left there. *)
Aligned(w, i) ==
  LET f == stack[w][i]
  IN  /\ f.pc \in 1 .. Len(Program[f.task]) + 1
      /\ f.at # "body" => /\ f.pc <= Len(Program[f.task])
                          /\ Program[f.task][f.pc].do = "sync"
      /\ f.at = "leap" => f.thief \in Workers
      /\ Height(f) <= Len(deque[w])
      /\ i = Len(stack[w]) => Height(f) = Len(deque[w])
      /\ i < Len(stack[w]) => Height(f) = stack[w][i + 1].base
      /\ \A l \in i + 1 .. Len(stack[w]) : Height(f) <= stack[w][l].base
      /\ \A j \in 1 .. Len(Holding(f)) :
           deque[w][f.base + j].task = Holding(f)[j]

StackInv ==
  \A w \in Workers : \A i \in 1 .. Len(stack[w]) : Aligned(w, i)

(* No task is in two places of the deques.  The thief of a stolen item has *)
(* it on its stack, unless a panic took it from there; items behind a      *)
(* ready one are ready.                                                    *)
Tracked(w, i) ==
  LET d == deque[w][i]
  IN  /\ d.task \notin Mains
      /\ \A v \in Workers : \A j \in 1 .. Len(deque[v]) :
           deque[v][j].task = d.task => v = w /\ j = i
      /\ d.status = "ready" => /\ begun[d.task] = 0
                               /\ \A j \in i .. Len(deque[w]) :
                                    deque[w][j].status = "ready"
      /\ d.status # "ready" => begun[d.task] = 1
      /\ d.status = "stolen" =>
           /\ d.thief \in Workers /\ d.task \notin ended
           /\ \/ d.task \in lost
              \/ \E l \in 1 .. Len(stack[d.thief]) :
                   /\ stack[d.thief][l].task = d.task
                   /\ stack[d.thief][l].home = [victim |-> w, slot |-> i]
      /\ d.status = "done" => d.task \in ended

ItemInv ==
  \A w \in Workers : \A i \in 1 .. Len(deque[w]) : Tracked(w, i)

Unqueued(t) == \A w \in Workers : \A i \in 1 .. Len(deque[w]) :
                 deque[w][i].task # t

(* Each task has one frame, and the frame of a stolen one knows its item.  *)
Homed(w, i) ==
  LET f == stack[w][i]
      h == stack[w][i].home
  IN  /\ begun[f.task] = 1 /\ f.task \notin ended \cup lost
      /\ \A v \in Workers : \A j \in 1 .. Len(stack[v]) :
           stack[v][j].task = f.task => v = w /\ j = i
      /\ h = Local => Unqueued(f.task)
      /\ h # Local => /\ h.victim \in Workers
                      /\ h.slot \in 1 .. Len(deque[h.victim])
                      /\ deque[h.victim][h.slot] =
                           [task |-> f.task, status |-> "stolen", thief |-> w]

FrameInv ==
  /\ \A w \in Workers : \A i \in 1 .. Len(stack[w]) : Homed(w, i)
  /\ \A t \in Tasks :
       /\ begun[t] \in {0, 1}
       /\ begun[t] = 1 => t \in Active \cup ended \cup lost
       /\ t \in ended \cup lost => begun[t] = 1
  /\ ended \cap lost = {}

(* The tasks that a body starts: those of the operations it has not come   *)
(* to are fresh, the others over, or held as tokens, or on top of it.      *)
Fresh(c) == begun[c] = 0 /\ Unqueued(c)
Over(c)  == c \in ended /\ Unqueued(c)

OnTop(w, i, c) == /\ i < Len(stack[w])
                  /\ stack[w][i + 1].task = c
                  /\ stack[w][i + 1].home = Local

Raised(w, i) ==
  LET f == stack[w][i]
  IN  \A k \in 1 .. Len(Program[f.task]) : Starts(f.task, k) =>
        LET c == Child(f.task, k)
        IN  IF k >= f.pc THEN Fresh(c)
            ELSE \/ Over(c)
                 \/ \E j \in 1 .. Len(Holding(f)) : Holding(f)[j] = c
                 \/ OnTop(w, i, c)

ChildInv ==
  /\ \A t \in Tasks : \A k \in 1 .. Len(Program[t]) :
       Starts(t, k) => /\ begun[t] = 0 => Fresh(Child(t, k))
                       /\ t \in ended => Over(Child(t, k))
  /\ \A w \in Workers : \A i \in 1 .. Len(stack[w]) : Raised(w, i)

PoolInv == TypeOK /\ StackInv /\ ItemInv /\ FrameInv /\ ChildInv

(* Four more, each inductive together with PoolInv.                        *)

(* Waits order the tasks: a body cannot return before the frame on top of  *)
(* it has, nor before the tasks whose tokens it holds.  In every set of    *)
(* running tasks one waits for no other.                                   *)
WaitsFor(t, u) ==
  \E w \in Workers : \E i \in 1 .. Len(stack[w]) :
    /\ stack[w][i].task = t
    /\ \/ i < Len(stack[w]) /\ stack[w][i + 1].task = u
       \/ \E j \in 1 .. Len(Holding(stack[w][i])) : Holding(stack[w][i])[j] = u

OrderInv == \A A \in (SUBSET Active) \ {{}} :
              \E t \in A : \A u \in A : ~WaitsFor(t, u)

(* Nobody waits for an item that is still ready.                           *)
AwaitInv ==
  \A w \in Workers : \A i \in 1 .. Len(stack[w]) :
    stack[w][i].at # "body" => deque[w][Height(stack[w][i])].status # "ready"

(* The tasks that a run can reach from those it starts with.  Only they    *)
(* are on stacks and in deques, and the root keeps the first ones.         *)
Closed(S) == /\ Mains \subseteq S
             /\ \A t \in S : \A k \in 1 .. Len(Program[t]) :
                  Starts(t, k) => Child(t, k) \in S

Reached == {t \in Tasks : \A S \in SUBSET Tasks : Closed(S) => t \in S}

OriginInv ==
  /\ Active \cup Pending \subseteq Reached
  /\ \A w \in Workers \ {Root} : \A f \in Frames(w) : f.task \notin Mains

(* What a body called or synced last has returned or is on top of it.      *)
PastLast(w, i) ==
  LET f == stack[w][i]
      k == stack[w][i].pc - 1
  IN  k >= 1 /\ Program[f.task][k].do # "spawn" =>
        Child(f.task, k) \in ended \/ OnTop(w, i, Child(f.task, k))

LastInv == \A w \in Workers : \A i \in 1 .. Len(stack[w]) : PastLast(w, i)

WholeInv == PoolInv /\ OrderInv /\ AwaitInv /\ OriginInv /\ LastInv
=============================================================================
