-------------------------- MODULE WorkerPoolProofs --------------------------
(***************************************************************************)
(* Proofs about WorkerPool, for any program whose bodies use their tokens  *)
(* newest first, any workers, any deque size and any panics.  PoolInv is   *)
(* inductive, and implies that syncs get their own tasks, that tasks run   *)
(* once and that parents outlive their children.  On it rest that every    *)
(* deque is used as WorkDeque allows, that WholeInv is inductive, that no  *)
(* workers wait for each other in a circle, that a run leaves the pool at  *)
(* rest, and that the pool implements ForkJoin.                            *)
(***************************************************************************)
EXTENDS WorkerPool, TLAPS

------------------------------------------------------------------------------
(* The program                                                             *)

LEMMA ProgramType ==
  ASSUME NEW t \in Tasks
  PROVE  /\ Len(Program[t]) \in Nat
         /\ \A k \in 1 .. Len(Program[t]) :
              /\ Program[t][k].do \in {"spawn", "sync", "call"}
              /\ Child(t, k) \in Tasks
         /\ \A k \in 0 .. Len(Program[t]) :
              Held[t][k] \in Seq(Tasks) /\ Len(Held[t][k]) \in Nat
         /\ Held[t][0] = <<>> /\ Held[t][Len(Program[t])] = <<>>
<1>1. Program[t] \in Seq(Op) /\ LifoTokens(t)
  BY ProgramAssumption
<1>2. \A k \in 1 .. Len(Program[t]) : Program[t][k] \in Op
  BY <1>1
<1>3. /\ Held[t] \in [0 .. Len(Program[t]) -> Seq(Tasks)]
      /\ Held[t][0] = <<>> /\ Held[t][Len(Program[t])] = <<>>
  BY <1>1 DEF LifoTokens
<1> QED  BY <1>1, <1>2, <1>3 DEF Op, Child

(* How an operation changes what a body holds.                             *)
LEMMA HeldMoves ==
  ASSUME NEW t \in Tasks, NEW k \in 1 .. Len(Program[t])
  PROVE  LET h == Held[t][k - 1]
             g == Held[t][k]
         IN  /\ Program[t][k].do = "spawn" =>
                  /\ Len(g) = Len(h) + 1 /\ g[Len(h) + 1] = Child(t, k)
                  /\ \A j \in 1 .. Len(h) : g[j] = h[j]
             /\ Program[t][k].do = "sync" =>
                  /\ Len(h) = Len(g) + 1 /\ h[Len(g) + 1] = Child(t, k)
                  /\ \A j \in 1 .. Len(g) : h[j] = g[j]
             /\ Program[t][k].do = "call" => g = h
<1> DEFINE h == Held[t][k - 1]
           g == Held[t][k]
           c == Child(t, k)
<1>1. /\ Program[t][k].do = "spawn" => g = Append(h, c)
      /\ Program[t][k].do = "sync" => h = Append(g, c)
      /\ Program[t][k].do = "call" => g = h
  BY ProgramAssumption, ProgramType DEF LifoTokens, Child
<1>2. h \in Seq(Tasks) /\ g \in Seq(Tasks) /\ c \in Tasks
  <2>1. k - 1 \in 0 .. Len(Program[t]) /\ k \in 0 .. Len(Program[t])
    BY ProgramType
  <2> QED  BY <2>1, ProgramType
<1> HIDE DEF h, g, c
<1>3. /\ Len(Append(h, c)) = Len(h) + 1 /\ Append(h, c)[Len(h) + 1] = c
      /\ \A j \in 1 .. Len(h) : Append(h, c)[j] = h[j]
  BY <1>2, AppendOnTop
<1>4. /\ Len(Append(g, c)) = Len(g) + 1 /\ Append(g, c)[Len(g) + 1] = c
      /\ \A j \in 1 .. Len(g) : Append(g, c)[j] = g[j]
  BY <1>2, AppendOnTop
<1>5. /\ Program[t][k].do = "spawn" =>
           /\ Len(g) = Len(h) + 1 /\ g[Len(h) + 1] = c
           /\ \A j \in 1 .. Len(h) : g[j] = h[j]
      /\ Program[t][k].do = "sync" =>
           /\ Len(h) = Len(g) + 1 /\ h[Len(g) + 1] = c
           /\ \A j \in 1 .. Len(g) : h[j] = g[j]
      /\ Program[t][k].do = "call" => g = h
  BY <1>1, <1>3, <1>4
<1> QED  BY <1>5 DEF h, g, c

(* A child has one parent, and is no main task.                            *)
LEMMA OneParent ==
  ASSUME NEW t \in Tasks, NEW u \in Tasks,
         NEW k \in 1 .. Len(Program[t]), NEW l \in 1 .. Len(Program[u]),
         Starts(t, k), Starts(u, l)
  PROVE  /\ Child(t, k) \notin Mains
         /\ Child(t, k) = Child(u, l) => t = u /\ k = l
BY ProgramAssumption

------------------------------------------------------------------------------
(* Stacks and deques                                                       *)

(* An interval that starts above a base.                                   *)
LEMMA InRange ==
  \A b, m, n \in Nat : b + m <= n => \A j \in 1 .. m : b + j \in 1 .. n
OBVIOUS

(* The elements of deques and stacks.                                      *)
LEMMA Elements ==
  ASSUME TypeOK, NEW w \in Workers
  PROVE  /\ deque[w] \in Seq(ItemType) /\ Len(deque[w]) \in Nat
         /\ \A i \in 1 .. Len(deque[w]) :
              /\ deque[w][i] \in ItemType
              /\ deque[w][i].task \in Tasks
              /\ deque[w][i].status \in {"ready", "stolen", "done"}
              /\ deque[w][i].thief \in Workers \cup {NoWorker}
         /\ stack[w] \in Seq(FrameType) /\ Len(stack[w]) \in Nat
         /\ \A i \in 1 .. Len(stack[w]) :
              /\ stack[w][i] \in FrameType
              /\ stack[w][i].task \in Tasks
              /\ stack[w][i].pc \in Nat /\ stack[w][i].base \in Nat
              /\ stack[w][i].home \in HomeType
<1>1. deque[w] \in Seq(ItemType) /\ stack[w] \in Seq(FrameType)
  BY DEF TypeOK
<1>2. Len(deque[w]) \in Nat /\ Len(stack[w]) \in Nat
  BY <1>1
<1>3. \A i \in 1 .. Len(deque[w]) : deque[w][i] \in ItemType
  BY <1>1
<1>4. \A i \in 1 .. Len(stack[w]) : stack[w][i] \in FrameType
  BY <1>1
<1> QED  BY <1>1, <1>2, <1>3, <1>4 DEF ItemType, FrameType

LEMMA ActiveTasks ==
  \A t : t \in Active <=> \E w \in Workers : \E i \in 1 .. Len(stack[w]) :
                            stack[w][i].task = t
BY DEF Active, Frames

LEMMA PendingTasks ==
  \A t : t \in Pending <=> ~Unqueued(t)
BY DEF Pending, Queued, Unqueued

(* The frame at the top of a stack.                                        *)
LEMMA TopFrame ==
  ASSUME TypeOK, NEW w \in Workers, Running(w)
  PROVE  /\ Len(stack[w]) \in Nat \ {0} /\ Len(stack[w]) \in 1 .. Len(stack[w])
         /\ Top(w) = stack[w][Len(stack[w])] /\ Top(w) \in FrameType
         /\ Top(w).task \in Tasks /\ Top(w).pc \in Nat /\ Top(w).base \in Nat
         /\ Top(w).home \in HomeType
         /\ Older(stack[w]) \in Seq(FrameType)
         /\ Len(Older(stack[w])) = Len(stack[w]) - 1
         /\ \A i \in 1 .. Len(stack[w]) - 1 : Older(stack[w])[i] = stack[w][i]
<1>1. stack[w] \in Seq(FrameType) /\ stack[w] # <<>>
  BY DEF TypeOK, Running
<1>2. /\ Len(stack[w]) \in Nat \ {0} /\ Newest(stack[w]) \in FrameType
      /\ Older(stack[w]) \in Seq(FrameType)
      /\ Len(Older(stack[w])) = Len(stack[w]) - 1
      /\ \A i \in 1 .. Len(stack[w]) - 1 : Older(stack[w])[i] = stack[w][i]
  BY <1>1, OlderProperties
<1>3. Top(w) = stack[w][Len(stack[w])]
  BY DEF Top, Newest
<1> QED  BY <1>2, <1>3 DEF Top, FrameType

(* The top frame replaced by g.                                            *)
LEMMA ReplacedTop ==
  ASSUME TypeOK, NEW w \in Workers, Running(w), NEW g \in FrameType
  PROVE  /\ WithTop(w, g) \in Seq(FrameType)
         /\ Len(WithTop(w, g)) = Len(stack[w])
         /\ WithTop(w, g)[Len(stack[w])] = g
         /\ \A i \in 1 .. Len(stack[w]) - 1 : WithTop(w, g)[i] = stack[w][i]
<1> DEFINE n == Len(stack[w]) - 1
           r == Older(stack[w])
<1>1. /\ r \in Seq(FrameType) /\ Len(r) = n /\ n \in Nat
      /\ \A i \in 1 .. n : r[i] = stack[w][i]
  BY TopFrame
<1> HIDE DEF r
<1>2. /\ Append(r, g) \in Seq(FrameType) /\ Len(Append(r, g)) = n + 1
      /\ Append(r, g)[n + 1] = g /\ \A i \in 1 .. n : Append(r, g)[i] = r[i]
  BY <1>1, AppendOnTop
<1>3. WithTop(w, g) = Append(r, g) /\ n + 1 = Len(stack[w])
  BY TopFrame DEF WithTop, r
<1> QED  BY <1>1, <1>2, <1>3

------------------------------------------------------------------------------
(* The shapes of steps, and stacks that stay aligned with their deques     *)

OnlyStackOf(w) == /\ stack' \in [Workers -> Seq(FrameType)]
                  /\ \A v \in Workers \ {w} : stack'[v] = stack[v]

(* The top frame of w becomes g.                                           *)
Replaced(w, g) ==
  /\ OnlyStackOf(w) /\ Running(w)
  /\ Len(stack'[w]) = Len(stack[w]) /\ stack'[w][Len(stack[w])] = g
  /\ \A i \in 1 .. Len(stack[w]) - 1 : stack'[w][i] = stack[w][i]

(* It becomes g, and a frame f goes on top of it.                          *)
Grown(w, g, f) ==
  /\ OnlyStackOf(w) /\ Running(w)
  /\ Len(stack'[w]) = Len(stack[w]) + 1
  /\ stack'[w][Len(stack[w])] = g /\ stack'[w][Len(stack[w]) + 1] = f
  /\ \A i \in 1 .. Len(stack[w]) - 1 : stack'[w][i] = stack[w][i]

(* f is the only frame.                                                    *)
Started(w, f) ==
  /\ OnlyStackOf(w) /\ ~Running(w)
  /\ Len(stack[w]) = 0 /\ Len(stack'[w]) = 1 /\ stack'[w][1] = f

(* The same task, further on in its body or in sync_slow.                  *)
Continues(w, g) ==
  /\ g \in FrameType
  /\ g.task = Top(w).task /\ g.base = Top(w).base /\ g.home = Top(w).home
  /\ g.pc \in 1 .. Len(Program[g.task]) + 1
  /\ g.at # "body" => /\ g.pc <= Len(Program[g.task])
                      /\ Program[g.task][g.pc].do = "sync"
  /\ g.at = "leap" => g.thief \in Workers

(* The items above g's base are those g holds, those below are the same.   *)
Carries(w, g) ==
  /\ Height(g) = Len(deque'[w])
  /\ \A j \in 1 .. Len(Holding(g)) :
       deque'[w][g.base + j].task = Holding(g)[j]
  /\ \A l \in 1 .. g.base : deque'[w][l].task = deque[w][l].task

LEMMA Heights ==
  ASSUME NEW f \in FrameType, f.pc \in 1 .. Len(Program[f.task]) + 1
  PROVE  /\ f.base \in Nat /\ f.task \in Tasks
         /\ Holding(f) \in Seq(Tasks) /\ Len(Holding(f)) \in Nat
         /\ Height(f) \in Nat /\ Height(f) >= f.base
         /\ Height(f) = f.base + Len(Holding(f))
<1>1. f.base \in Nat /\ f.task \in Tasks
  BY DEF FrameType
<1>2. f.pc - 1 \in 0 .. Len(Program[f.task])
  BY <1>1, ProgramType
<1>3. Holding(f) \in Seq(Tasks) /\ Len(Holding(f)) \in Nat
  BY <1>1, <1>2, ProgramType DEF Holding
<1> QED  BY <1>1, <1>3 DEF Height

(* What StackInv says of one frame.                                        *)
LEMMA FrameOf ==
  ASSUME TypeOK, StackInv, NEW w \in Workers, NEW i \in 1 .. Len(stack[w])
  PROVE  LET f == stack[w][i]
         IN  /\ f \in FrameType /\ f.base \in Nat /\ f.task \in Tasks
             /\ f.pc \in 1 .. Len(Program[f.task]) + 1
             /\ f.at # "body" => /\ f.pc <= Len(Program[f.task])
                                 /\ Program[f.task][f.pc].do = "sync"
             /\ f.at = "leap" => f.thief \in Workers
             /\ Len(Holding(f)) \in Nat /\ Height(f) \in Nat
             /\ Height(f) = f.base + Len(Holding(f))
             /\ Height(f) >= f.base /\ Height(f) <= Len(deque[w])
             /\ i = Len(stack[w]) => Height(f) = Len(deque[w])
             /\ i < Len(stack[w]) => Height(f) = stack[w][i + 1].base
             /\ \A l \in i + 1 .. Len(stack[w]) : Height(f) <= stack[w][l].base
             /\ \A j \in 1 .. Len(Holding(f)) :
                  deque[w][f.base + j].task = Holding(f)[j]
<1>1. Aligned(w, i) /\ stack[w][i] \in FrameType
  BY Elements DEF StackInv
<1> QED  BY <1>1, Heights DEF Aligned

LEMMA AlignedOthers ==
  ASSUME TypeOK, StackInv, NEW w \in Workers, OnlyStackOf(w),
         NEW v \in Workers \ {w},
         Len(deque'[v]) = Len(deque[v]),
         \A i \in 1 .. Len(deque[v]) : deque'[v][i].task = deque[v][i].task,
         NEW i \in 1 .. Len(stack'[v])
  PROVE  Aligned(v, i)'
<1>1. stack'[v] = stack[v] /\ i \in 1 .. Len(stack[v])
  BY DEF OnlyStackOf
<1> DEFINE f == stack[v][i]
<1>2. /\ f.base \in Nat /\ Len(Holding(f)) \in Nat
      /\ Height(f) = f.base + Len(Holding(f)) /\ Height(f) <= Len(deque[v])
      /\ \A j \in 1 .. Len(Holding(f)) :
           deque[v][f.base + j].task = Holding(f)[j]
      /\ Len(deque[v]) \in Nat
  BY <1>1, FrameOf, Elements
<1>3. \A j \in 1 .. Len(Holding(f)) : f.base + j \in 1 .. Len(deque[v])
  BY <1>2, InRange
<1>4. Aligned(v, i)
  BY <1>1 DEF StackInv
<1> QED  BY <1>1, <1>2, <1>3, <1>4 DEF Aligned, Height, Holding

(* Below the top.                                                          *)
LEMMA AlignedBelow ==
  ASSUME TypeOK, StackInv, NEW w \in Workers, NEW g, Continues(w, g),
         Carries(w, g), Running(w), Len(stack'[w]) \in Nat,
         Len(stack'[w]) >= Len(stack[w]), stack'[w][Len(stack[w])] = g,
         \A l \in 1 .. Len(stack[w]) - 1 : stack'[w][l] = stack[w][l],
         \A l \in Len(stack[w]) + 1 .. Len(stack'[w]) :
           stack'[w][l].base \in Nat /\ Height(g) <= stack'[w][l].base,
         NEW i \in 1 .. Len(stack[w]) - 1
  PROVE  Aligned(w, i)'
<1> DEFINE n == Len(stack[w])
           f == stack[w][i]
<1>1. /\ n \in Nat /\ i \in 1 .. n /\ i # n /\ n \in 1 .. n
      /\ stack'[w][i] = f /\ Top(w) = stack[w][n]
  BY TopFrame
<1>2. /\ f.base \in Nat /\ Len(Holding(f)) \in Nat /\ Height(f) \in Nat
      /\ Height(f) = f.base + Len(Holding(f))
      /\ Height(f) = stack[w][i + 1].base
      /\ \A l \in i + 1 .. n : Height(f) <= stack[w][l].base
      /\ \A j \in 1 .. Len(Holding(f)) :
           deque[w][f.base + j].task = Holding(f)[j]
  <2>1. i \in 1 .. Len(stack[w]) /\ i < Len(stack[w])
    BY <1>1
  <2>2. /\ f.base \in Nat /\ Len(Holding(f)) \in Nat /\ Height(f) \in Nat
        /\ Height(f) = f.base + Len(Holding(f))
        /\ i < Len(stack[w]) => Height(f) = stack[w][i + 1].base
        /\ \A l \in i + 1 .. Len(stack[w]) : Height(f) <= stack[w][l].base
        /\ \A j \in 1 .. Len(Holding(f)) :
             deque[w][f.base + j].task = Holding(f)[j]
    BY <2>1, FrameOf
  <2> QED  BY <2>1, <2>2
<1>3. /\ g.base = stack[w][n].base /\ g.base \in Nat
      /\ Height(g) \in Nat /\ Height(g) >= g.base
  BY <1>1, Heights DEF Continues
<1>b. Height(f) <= g.base
  <2>1. n \in i + 1 .. n
    BY <1>1
  <2>2. Height(f) <= stack[w][n].base
    BY <1>2, <2>1
  <2> QED  BY <1>3, <2>2
<1>4. \A l \in i + 1 .. Len(stack'[w]) : Height(f) <= stack'[w][l].base
  <2> SUFFICES ASSUME NEW l \in i + 1 .. Len(stack'[w])
               PROVE  Height(f) <= stack'[w][l].base
    OBVIOUS
  <2>1. CASE l < n
    <3>1. l \in 1 .. n - 1 /\ l \in i + 1 .. n
      BY <1>1, <2>1
    <3> QED  BY <1>2, <3>1
  <2>2. CASE l = n
    BY <1>1, <1>3, <1>b, <2>2
  <2>3. CASE l > n
    <3>1. l \in Len(stack[w]) + 1 .. Len(stack'[w])
      BY <1>1, <2>3
    <3>2. stack'[w][l].base \in Nat /\ Height(g) <= stack'[w][l].base
      BY <3>1
    <3> QED  BY SMTT(20), <1>2, <1>3, <1>b, <3>2
  <2> QED  BY <1>1, <2>1, <2>2, <2>3
<1>5. Height(f) <= Len(deque'[w])
  BY <1>2, <1>3, <1>b DEF Carries
<1>6. \A j \in 1 .. Len(Holding(f)) :
        deque'[w][f.base + j].task = Holding(f)[j]
  <2> SUFFICES ASSUME NEW j \in 1 .. Len(Holding(f))
               PROVE  deque'[w][f.base + j].task = Holding(f)[j]
    OBVIOUS
  <2>1. f.base + j \in 1 .. g.base
    <3>1. /\ f.base \in Nat /\ Len(Holding(f)) \in Nat /\ g.base \in Nat
          /\ f.base + Len(Holding(f)) <= g.base
      BY <1>2, <1>3, <1>b
    <3> HIDE DEF f
    <3> QED  BY <3>1
  <2> QED  BY <1>2, <2>1 DEF Carries
<1>7. i # Len(stack'[w]) /\ stack'[w][i + 1].base = stack[w][i + 1].base
  <2>1. CASE i + 1 = n
    BY <1>1, <1>3, <2>1
  <2>2. CASE i + 1 # n
    <3>1. i + 1 \in 1 .. n - 1
      BY <1>1, <2>2
    <3> QED  BY <1>1, <3>1
  <2> QED  BY <1>1, <2>1, <2>2
<1>8. Aligned(w, i)
  BY <1>1 DEF StackInv
<1> QED
  BY <1>1, <1>2, <1>4, <1>5, <1>6, <1>7, <1>8 DEF Aligned, Height, Holding

LEMMA AlignedReplaced ==
  ASSUME TypeOK, StackInv, NEW w \in Workers, NEW g,
         Replaced(w, g), Continues(w, g), Carries(w, g),
         NEW i \in 1 .. Len(stack'[w])
  PROVE  Aligned(w, i)'
<1> DEFINE n == Len(stack[w])
<1>1. n \in Nat \ {0} /\ Len(stack'[w]) = n /\ stack'[w][n] = g /\ i \in 1 .. n
  BY TopFrame DEF Replaced
<1>2. CASE i # n
  <2>1. i \in 1 .. n - 1 /\ n + 1 .. Len(stack'[w]) = {}
    BY <1>1, <1>2
  <2> QED  BY <1>1, <2>1, AlignedBelow DEF Replaced
<1>3. CASE i = n
  <2>1. /\ stack'[w][i] = g /\ i = Len(stack'[w]) /\ ~(i < Len(stack'[w]))
        /\ i + 1 .. Len(stack'[w]) = {}
    BY <1>1, <1>3
  <2>2. /\ Height(g) \in Nat /\ Height(g) = Len(deque'[w])
        /\ Height(g) <= Len(deque'[w])
    BY Heights DEF Continues, Carries
  <2> QED
    BY <2>1, <2>2 DEF Aligned, Continues, Carries, Height, Holding
<1> QED  BY <1>2, <1>3

LEMMA AlignedGrown ==
  ASSUME TypeOK, StackInv, NEW w \in Workers, NEW g, NEW t \in Tasks,
         NEW h \in HomeType, NEW f, f = Frame(t, h, Len(deque'[w])),
         Grown(w, g, f), Continues(w, g), Carries(w, g),
         NEW i \in 1 .. Len(stack'[w])
  PROVE  Aligned(w, i)'
<1> DEFINE n == Len(stack[w])
<1>1. /\ n \in Nat \ {0} /\ Len(stack'[w]) = n + 1 /\ stack'[w][n] = g
      /\ stack'[w][n + 1] = f /\ i \in 1 .. n + 1
  BY TopFrame DEF Grown
<1>2. /\ Height(g) \in Nat /\ Height(g) = Len(deque'[w])
      /\ Height(g) <= Len(deque'[w])
  BY Heights DEF Continues, Carries
<1>3. /\ f.base = Height(g) /\ f.task = t /\ f.pc = 1 /\ f.at = "body"
      /\ Holding(f) = <<>> /\ Height(f) = f.base /\ Len(Holding(f)) = 0
      /\ f.pc \in 1 .. Len(Program[f.task]) + 1
  <2>1. f.base = Height(g) /\ f.task = t /\ f.pc = 1 /\ f.at = "body"
    BY <1>2 DEF Frame
  <2>2. Held[t][0] = <<>> /\ Len(Program[t]) \in Nat
    BY ProgramType
  <2>3. Holding(f) = <<>>
    BY <2>1, <2>2 DEF Holding
  <2> QED  BY <1>2, <2>1, <2>2, <2>3 DEF Height
<1>4. CASE i < n
  <2>1. /\ i \in 1 .. n - 1
        /\ \A l \in n + 1 .. Len(stack'[w]) :
             stack'[w][l].base \in Nat /\ Height(g) <= stack'[w][l].base
    BY <1>1, <1>2, <1>3, <1>4
  <2> QED  BY SMTT(20), <1>1, <2>1, AlignedBelow DEF Grown
<1>5. CASE i = n
  <2>1. /\ stack'[w][i] = g /\ i # Len(stack'[w]) /\ stack'[w][i + 1] = f
        /\ \A l \in i + 1 .. Len(stack'[w]) : l = n + 1
    BY <1>1, <1>5
  <2>2. /\ Height(g) = stack'[w][i + 1].base
        /\ \A l \in i + 1 .. Len(stack'[w]) : Height(g) <= stack'[w][l].base
    BY <1>1, <1>2, <1>3, <2>1
  <2> QED
    BY <1>2, <2>1, <2>2 DEF Aligned, Continues, Carries, Height, Holding
<1>6. CASE i = n + 1
  <2>1. /\ stack'[w][i] = f /\ i = Len(stack'[w]) /\ ~(i < Len(stack'[w]))
        /\ i + 1 .. Len(stack'[w]) = {} /\ 1 .. Len(Holding(f)) = {}
    BY <1>1, <1>3, <1>6
  <2> QED  BY <1>2, <1>3, <2>1 DEF Aligned, Height, Holding
<1> QED  BY <1>1, <1>4, <1>5, <1>6

LEMMA AlignedStarted ==
  ASSUME TypeOK, NEW w \in Workers, NEW t \in Tasks,
         NEW h \in HomeType, NEW f, f = Frame(t, h, Len(deque'[w])),
         Len(deque'[w]) \in Nat, Started(w, f), NEW i \in 1 .. Len(stack'[w])
  PROVE  Aligned(w, i)'
<1>1. i = 1 /\ stack'[w][i] = f /\ Len(stack'[w]) = 1
  BY DEF Started
<1>2. /\ f.base = Len(deque'[w]) /\ f.task = t /\ f.pc = 1 /\ f.at = "body"
  BY DEF Frame
<1>3. Held[t][0] = <<>> /\ Len(Program[t]) \in Nat
  BY ProgramType
<1>4. Holding(f) = <<>>
  BY <1>2, <1>3 DEF Holding
<1>5. /\ Len(Holding(f)) = 0 /\ 1 .. Len(Holding(f)) = {}
      /\ Height(f) = Len(deque'[w]) /\ Height(f) <= Len(deque'[w])
      /\ f.pc \in 1 .. Len(Program[f.task]) + 1
  BY <1>2, <1>3, <1>4 DEF Height
<1>6. /\ i = Len(stack'[w]) /\ ~(i < Len(stack'[w]))
      /\ i + 1 .. Len(stack'[w]) = {}
  BY <1>1
<1> QED  BY <1>1, <1>2, <1>5, <1>6 DEF Aligned, Height, Holding

(* The body at its end has no more tokens.                                 *)
LEMMA EmptyHanded ==
  ASSUME TypeOK, StackInv, NEW w \in Workers, Running(w),
         Top(w).pc > Len(Program[Top(w).task])
  PROVE  /\ Len(Holding(Top(w))) = 0
         /\ \A k \in 1 .. Len(Program[Top(w).task]) : ~(k >= Top(w).pc)
<1> PICK f : f = Top(w)
  OBVIOUS
<1>1. /\ f = stack[w][Len(stack[w])] /\ f.task \in Tasks
      /\ Len(stack[w]) \in 1 .. Len(stack[w])
  BY TopFrame
<1>2. f.pc \in 1 .. Len(Program[f.task]) + 1
  BY <1>1, FrameOf
<1>3. /\ Len(Program[f.task]) \in Nat
      /\ Held[f.task][Len(Program[f.task])] = <<>>
  BY <1>1, ProgramType
<1>4. f.pc > Len(Program[f.task])
  OBVIOUS
<1>5. f.pc - 1 = Len(Program[f.task])
  <2> DEFINE m == Len(Program[f.task])
             p == f.pc
  <2>1. m \in Nat /\ p \in 1 .. m + 1 /\ p > m
    BY <1>2, <1>3, <1>4
  <2> HIDE DEF m, p
  <2>2. p - 1 = m
    BY <2>1
  <2> QED  BY <2>2 DEF m, p
<1>6. Len(Holding(f)) = 0
  BY <1>3, <1>5 DEF Holding
<1>7. \A k \in 1 .. Len(Program[f.task]) : ~(k >= f.pc)
  <2> DEFINE m == Len(Program[f.task])
             p == f.pc
  <2>1. m \in Nat /\ p \in 1 .. m + 1 /\ p > m
    BY <1>2, <1>3, <1>4
  <2> HIDE DEF m, p
  <2>2. \A k \in 1 .. m : ~(k >= p)
    BY <2>1
  <2> QED  BY <2>2 DEF m, p
<1> QED  BY <1>6, <1>7

(* The top frame is popped when its body is at its end.                    *)
LEMMA AlignedPopped ==
  ASSUME TypeOK, StackInv, NEW w \in Workers, Running(w),
         Top(w).pc > Len(Program[Top(w).task]),
         Len(stack'[w]) = Len(stack[w]) - 1,
         \A l \in 1 .. Len(stack[w]) - 1 : stack'[w][l] = stack[w][l],
         Len(deque'[w]) = Len(deque[w]),
         \A l \in 1 .. Len(deque[w]) : deque'[w][l].task = deque[w][l].task,
         NEW i \in 1 .. Len(stack'[w])
  PROVE  Aligned(w, i)'
<1> DEFINE n == Len(stack[w])
           f == stack[w][i]
           top == stack[w][n]
<1>1. /\ n \in Nat \ {0} /\ n \in 1 .. n /\ top = Top(w)
      /\ Len(stack'[w]) = n - 1
      /\ \A l \in 1 .. n - 1 : stack'[w][l] = stack[w][l]
  BY TopFrame
<1>2. i \in 1 .. n - 1 /\ i \in 1 .. n /\ i < n /\ stack'[w][i] = f
  BY <1>1
<1>3. /\ top.pc \in 1 .. Len(Program[top.task]) + 1 /\ top.task \in Tasks
      /\ Height(top) = top.base + Len(Holding(top)) /\ top.base \in Nat
      /\ Height(top) = Len(deque[w])
  BY <1>1, FrameOf
<1>4. Len(Holding(top)) = 0
  BY <1>1, EmptyHanded
<1>5. top.base = Len(deque[w])
  BY <1>3, <1>4
<1>6. /\ f.base \in Nat /\ Len(Holding(f)) \in Nat /\ Height(f) \in Nat
      /\ Height(f) = f.base + Len(Holding(f)) /\ Height(f) <= Len(deque[w])
      /\ Height(f) = stack[w][i + 1].base
      /\ \A l \in i + 1 .. n : Height(f) <= stack[w][l].base
      /\ \A j \in 1 .. Len(Holding(f)) :
           deque[w][f.base + j].task = Holding(f)[j]
      /\ Len(deque[w]) \in Nat
  <2>1. /\ f.base \in Nat /\ Len(Holding(f)) \in Nat /\ Height(f) \in Nat
        /\ Height(f) = f.base + Len(Holding(f)) /\ Height(f) <= Len(deque[w])
        /\ i < Len(stack[w]) => Height(f) = stack[w][i + 1].base
        /\ \A l \in i + 1 .. Len(stack[w]) : Height(f) <= stack[w][l].base
        /\ \A j \in 1 .. Len(Holding(f)) :
             deque[w][f.base + j].task = Holding(f)[j]
    BY <1>2, FrameOf
  <2> QED  BY <1>2, <2>1, Elements
<1>7. /\ i = n - 1 => Height(f) = Len(deque'[w])
      /\ i < n - 1 => Height(f) = stack'[w][i + 1].base
  <2>1. CASE i = n - 1
    <3>1. i + 1 = n
      BY <1>1, <2>1
    <3> QED  BY <1>5, <1>6, <2>1, <3>1
  <2>2. CASE i < n - 1
    <3>1. i + 1 \in 1 .. n - 1
      BY <1>1, <1>2, <2>2
    <3>2. stack'[w][i + 1] = stack[w][i + 1]
      BY <1>1, <3>1
    <3> QED  BY <1>6, <2>2, <3>2
  <2> QED  BY <1>1, <1>2, <2>1, <2>2
<1>8. \A l \in i + 1 .. Len(stack'[w]) : Height(f) <= stack'[w][l].base
  <2> SUFFICES ASSUME NEW l \in i + 1 .. n - 1
               PROVE  Height(f) <= stack'[w][l].base
    BY <1>1
  <2>1. l \in i + 1 .. n /\ l \in 1 .. n - 1
    BY <1>1, <1>2
  <2> QED  BY <1>1, <1>6, <2>1
<1>9. \A j \in 1 .. Len(Holding(f)) :
        deque'[w][f.base + j].task = Holding(f)[j]
  <2> SUFFICES ASSUME NEW j \in 1 .. Len(Holding(f))
               PROVE  deque'[w][f.base + j].task = Holding(f)[j]
    OBVIOUS
  <2>1. f.base + j \in 1 .. Len(deque[w])
    <3>1. /\ f.base \in Nat /\ Len(Holding(f)) \in Nat
          /\ Len(deque[w]) \in Nat
          /\ f.base + Len(Holding(f)) <= Len(deque[w])
      BY <1>6
    <3> HIDE DEF f
    <3> QED  BY SMTT(20), <3>1
  <2> QED  BY <1>6, <2>1
<1>10. Aligned(w, i)
  BY <1>2 DEF StackInv
<1> QED
  BY <1>1, <1>2, <1>6, <1>7, <1>8, <1>9, <1>10 DEF Aligned, Height, Holding

------------------------------------------------------------------------------
(* What steps do to frames and to items                                    *)

(* Frames stay where they are and keep their task and their home.          *)
Keeps ==
  \A v \in Workers : \A i \in 1 .. Len(stack[v]) :
    /\ i \in 1 .. Len(stack'[v])
    /\ stack'[v][i].task = stack[v][i].task
    /\ stack'[v][i].home = stack[v][i].home

NoNewFrame == \A v \in Workers : Len(stack'[v]) = Len(stack[v])

NewFrame(w, f) ==
  /\ Len(stack'[w]) = Len(stack[w]) + 1
  /\ stack'[w][Len(stack[w]) + 1] = f
  /\ \A v \in Workers \ {w} : Len(stack'[v]) = Len(stack[v])

(* Items only go, from the newest on.                                      *)
Shrinks ==
  \A v \in Workers : \A i \in 1 .. Len(deque'[v]) :
    i \in 1 .. Len(deque[v]) /\ deque'[v][i] = deque[v][i]

(* Stolen items stay.                                                      *)
StolenStay ==
  \A v \in Workers : \A i \in 1 .. Len(deque[v]) :
    deque[v][i].status = "stolen" =>
      i \in 1 .. Len(deque'[v]) /\ deque'[v][i] = deque[v][i]

LEMMA ReplacedKeeps ==
  ASSUME TypeOK, NEW w \in Workers, NEW g, Replaced(w, g), Continues(w, g)
  PROVE  Keeps /\ NoNewFrame
<1> DEFINE n == Len(stack[w])
<1>1. /\ n \in Nat \ {0} /\ Top(w) = stack[w][n]
      /\ \A v \in Workers \ {w} : stack'[v] = stack[v]
      /\ Len(stack'[w]) = n /\ stack'[w][n] = g
      /\ \A i \in 1 .. n - 1 : stack'[w][i] = stack[w][i]
      /\ g.task = Top(w).task /\ g.home = Top(w).home
  BY TopFrame DEF Replaced, Continues, OnlyStackOf
<1>2. \A i \in 1 .. n : i = n \/ i \in 1 .. n - 1
  BY <1>1
<1>3. NoNewFrame
  BY <1>1 DEF NoNewFrame
<1>4. \A i \in 1 .. n : /\ stack'[w][i].task = stack[w][i].task
                        /\ stack'[w][i].home = stack[w][i].home
  BY <1>1, <1>2
<1> QED  BY <1>1, <1>3, <1>4 DEF Keeps

LEMMA GrownKeeps ==
  ASSUME TypeOK, NEW w \in Workers, NEW g, NEW f, Grown(w, g, f),
         Continues(w, g)
  PROVE  Keeps /\ NewFrame(w, f)
<1> DEFINE n == Len(stack[w])
<1>1. /\ n \in Nat \ {0} /\ Top(w) = stack[w][n]
      /\ \A v \in Workers \ {w} : stack'[v] = stack[v]
      /\ Len(stack'[w]) = n + 1 /\ stack'[w][n] = g /\ stack'[w][n + 1] = f
      /\ \A i \in 1 .. n - 1 : stack'[w][i] = stack[w][i]
      /\ g.task = Top(w).task /\ g.home = Top(w).home
  BY TopFrame DEF Grown, Continues, OnlyStackOf
<1>2. \A i \in 1 .. n : i \in 1 .. n + 1 /\ (i = n \/ i \in 1 .. n - 1)
  BY <1>1
<1>3. NewFrame(w, f)
  BY <1>1 DEF NewFrame
<1>4. \A i \in 1 .. n : /\ i \in 1 .. Len(stack'[w])
                        /\ stack'[w][i].task = stack[w][i].task
                        /\ stack'[w][i].home = stack[w][i].home
  BY <1>1, <1>2
<1> QED  BY <1>1, <1>3, <1>4 DEF Keeps

LEMMA StartedKeeps ==
  ASSUME TypeOK, NEW w \in Workers, NEW f, Started(w, f)
  PROVE  Keeps /\ NewFrame(w, f)
<1>1. /\ Len(stack[w]) = 0 /\ 1 .. Len(stack[w]) = {}
      /\ \A v \in Workers \ {w} : stack'[v] = stack[v]
      /\ Len(stack'[w]) = 1 /\ stack'[w][1] = f
  BY DEF Started, OnlyStackOf
<1> QED  BY <1>1 DEF Keeps, NewFrame

------------------------------------------------------------------------------
(* Items                                                                   *)

(* Items that stay as they were, while other tasks begin or end.           *)
LEMMA ItemsShrink ==
  ASSUME TypeOK, ItemInv, Shrinks, lost \subseteq lost', ended' = ended,
         \A v \in Workers : \A i \in 1 .. Len(deque'[v]) :
           begun'[deque[v][i].task] = begun[deque[v][i].task],
         \A v \in Workers : \A i \in 1 .. Len(stack[v]) :
           \/ stack[v][i].task \in lost'
           \/ /\ i \in 1 .. Len(stack'[v])
              /\ stack'[v][i].task = stack[v][i].task
              /\ stack'[v][i].home = stack[v][i].home
  PROVE  ItemInv'
<1> SUFFICES ASSUME NEW w \in Workers, NEW i \in 1 .. Len(deque'[w])
             PROVE  Tracked(w, i)'
  BY DEF ItemInv
<1> DEFINE d == deque[w][i]
<1>1. /\ i \in 1 .. Len(deque[w]) /\ deque'[w][i] = d /\ Tracked(w, i)
      /\ begun'[d.task] = begun[d.task]
  BY DEF Shrinks, ItemInv
<1>2. \A v \in Workers : \A j \in 1 .. Len(deque'[v]) :
        deque'[v][j].task = d.task => v = w /\ j = i
  BY <1>1 DEF Tracked, Shrinks
<1>3. d.status = "ready" => \A j \in i .. Len(deque'[w]) :
                              deque'[w][j].status = "ready"
  <2> SUFFICES ASSUME d.status = "ready", NEW j \in i .. Len(deque'[w])
               PROVE  deque'[w][j].status = "ready"
    OBVIOUS
  <2>1. j \in 1 .. Len(deque'[w])
    OBVIOUS
  <2>2. j \in i .. Len(deque[w]) /\ deque'[w][j] = deque[w][j]
    BY <2>1 DEF Shrinks
  <2> QED  BY <1>1, <2>2 DEF Tracked
<1>4. d.status = "stolen" =>
        \/ d.task \in lost'
        \/ \E l \in 1 .. Len(stack'[d.thief]) :
             /\ stack'[d.thief][l].task = d.task
             /\ stack'[d.thief][l].home = [victim |-> w, slot |-> i]
  BY ZenonT(30), <1>1 DEF Tracked
<1>5. /\ d.task \notin Mains
      /\ d.status = "ready" => begun'[d.task] = 0
      /\ d.status # "ready" => begun'[d.task] = 1
      /\ d.status = "stolen" => d.thief \in Workers /\ d.task \notin ended'
      /\ d.status = "done" => d.task \in ended'
  BY <1>1 DEF Tracked
<1> QED  BY <1>1, <1>2, <1>3, <1>4, <1>5 DEF Tracked

(* A fresh task is pushed.                                                 *)
LEMMA ItemPushed ==
  ASSUME TypeOK, ItemInv, FrameInv, Keeps,
         UNCHANGED <<begun, ended, lost>>,
         NEW w \in Workers, NEW c \in Tasks, c \notin Mains, Fresh(c),
         \A v \in Workers \ {w} : deque'[v] = deque[v],
         Len(deque'[w]) = Len(deque[w]) + 1,
         deque'[w][Len(deque[w]) + 1] = Item(c),
         \A i \in 1 .. Len(deque[w]) : deque'[w][i] = deque[w][i]
  PROVE  ItemInv'
<1> DEFINE n == Len(deque[w])
<1>a. n \in Nat
  BY Elements
<1>b. \A v \in Workers : \A j \in 1 .. Len(deque'[v]) :
        \/ j \in 1 .. Len(deque[v]) /\ deque'[v][j] = deque[v][j]
        \/ v = w /\ j = n + 1 /\ deque'[v][j] = Item(c)
  BY <1>a
<1>c. /\ Item(c).task = c /\ Item(c).status = "ready"
      /\ begun[c] = 0 /\ \A v \in Workers : \A j \in 1 .. Len(deque[v]) :
                           deque[v][j].task # c
  BY DEF Item, Fresh, Unqueued
<1> SUFFICES ASSUME NEW v \in Workers, NEW i \in 1 .. Len(deque'[v])
             PROVE  Tracked(v, i)'
  BY DEF ItemInv
<1>1. CASE i \in 1 .. Len(deque[v]) /\ deque'[v][i] = deque[v][i]
  <2> DEFINE d == deque[v][i]
  <2>1. Tracked(v, i) /\ d.task # c
    BY <1>1, <1>c DEF ItemInv
  <2>2. \A u \in Workers : \A j \in 1 .. Len(deque'[u]) :
          deque'[u][j].task = d.task => u = v /\ j = i
    BY <1>b, <1>c, <2>1 DEF Tracked
  <2>3. d.status = "ready" => \A j \in i .. Len(deque'[v]) :
                                deque'[v][j].status = "ready"
    <3> SUFFICES ASSUME d.status = "ready", NEW j \in i .. Len(deque'[v])
                 PROVE  deque'[v][j].status = "ready"
      OBVIOUS
    <3>1. j \in 1 .. Len(deque'[v])
      OBVIOUS
    <3>2. j \in 1 .. Len(deque[v]) => j \in i .. Len(deque[v])
      OBVIOUS
    <3> QED  BY <1>b, <1>c, <2>1, <3>1, <3>2 DEF Tracked
  <2>4. d.status = "stolen" =>
          \/ d.task \in lost
          \/ \E l \in 1 .. Len(stack'[d.thief]) :
               /\ stack'[d.thief][l].task = d.task
               /\ stack'[d.thief][l].home = [victim |-> v, slot |-> i]
    <3> SUFFICES ASSUME d.status = "stolen", d.task \notin lost
                 PROVE  \E l \in 1 .. Len(stack'[d.thief]) :
                          /\ stack'[d.thief][l].task = d.task
                          /\ stack'[d.thief][l].home = [victim |-> v, slot |-> i]
      OBVIOUS
    <3>1. /\ d.thief \in Workers
          /\ \E l \in 1 .. Len(stack[d.thief]) :
               /\ stack[d.thief][l].task = d.task
               /\ stack[d.thief][l].home = [victim |-> v, slot |-> i]
      BY <2>1 DEF Tracked
    <3> HIDE DEF d
    <3> QED  BY <3>1 DEF Keeps
  <2> QED  BY SMTT(20), <1>1, <2>1, <2>2, <2>3, <2>4 DEF Tracked
<1>2. CASE v = w /\ i = n + 1 /\ deque'[v][i] = Item(c)
  <2>1. \A u \in Workers : \A j \in 1 .. Len(deque'[u]) :
          deque'[u][j].task = c => u = v /\ j = i
    BY <1>b, <1>c, <1>2
  <2>2. \A j \in i .. Len(deque'[v]) : j = i
    BY <1>a, <1>2
  <2> QED  BY SMTT(20), <1>c, <1>2, <2>1, <2>2 DEF Tracked
<1> QED  BY <1>b, <1>1, <1>2

(* What stealing does to the items: one becomes e.                         *)
Takes(v, i, e) ==
  /\ \A u \in Workers : Len(deque'[u]) = Len(deque[u])
  /\ deque'[v][i] = e
  /\ \A u \in Workers : \A j \in 1 .. Len(deque[u]) :
       (u = v /\ j = i) \/ deque'[u][j] = deque[u][j]

Begins(t) == /\ t \in Tasks /\ begun[t] = 0 /\ begun'[t] = 1
             /\ \A c \in Tasks \ {t} : begun'[c] = begun[c]
             /\ begun' \in [Tasks -> Nat]

LEMMA Changed ==
  ASSUME NEW S, NEW q \in Seq(S), NEW i \in 1 .. Len(q), NEW e \in S
  PROVE  /\ [q EXCEPT ![i] = e] \in Seq(S)
         /\ Len([q EXCEPT ![i] = e]) = Len(q) /\ [q EXCEPT ![i] = e][i] = e
         /\ \A j \in 1 .. Len(q) : j # i => [q EXCEPT ![i] = e][j] = q[j]
OBVIOUS

LEMMA TakesItem ==
  ASSUME TypeOK, NEW v \in Workers, NEW i \in 1 .. Len(deque[v]),
         NEW e \in ItemType, deque' = [deque EXCEPT ![v] =
                                         [deque[v] EXCEPT ![i] = e]]
  PROVE  deque' \in [Workers -> Seq(ItemType)] /\ Takes(v, i, e)
<1> DEFINE q == deque[v]
           r == [deque[v] EXCEPT ![i] = e]
<1>1. deque \in [Workers -> Seq(ItemType)] /\ q \in Seq(ItemType)
  BY DEF TypeOK
<1>2. /\ r \in Seq(ItemType) /\ Len(r) = Len(q) /\ r[i] = e
      /\ \A j \in 1 .. Len(q) : j # i => r[j] = q[j]
  <2>1. i \in 1 .. Len(q) /\ r = [q EXCEPT ![i] = e]
    OBVIOUS
  <2> HIDE DEF q, r
  <2> QED  BY <1>1, <2>1, Changed
<1>3. deque' = [deque EXCEPT ![v] = r]
  OBVIOUS
<1> HIDE DEF r
<1>4. /\ deque' \in [Workers -> Seq(ItemType)] /\ deque'[v] = r
      /\ \A u \in Workers \ {v} : deque'[u] = deque[u]
  BY <1>1, <1>2, <1>3
<1>5. \A u \in Workers : Len(deque'[u]) = Len(deque[u])
  BY <1>2, <1>4
<1>6. ASSUME NEW u \in Workers, NEW j \in 1 .. Len(deque[u])
      PROVE  (u = v /\ j = i) \/ deque'[u][j] = deque[u][j]
  BY <1>2, <1>4, <1>6
<1> QED  BY <1>2, <1>4, <1>5, <1>6 DEF Takes

LEMMA BeginsTask ==
  ASSUME TypeOK, NEW t \in Tasks, begun[t] = 0, Enter(t)
  PROVE  Begins(t)
BY DEF TypeOK, Enter, Begins

(* An item is stolen: the oldest ready one.                                *)
LEMMA ItemStolen ==
  ASSUME TypeOK, ItemInv, Keeps, UNCHANGED <<ended, lost>>,
         NEW w \in Workers, NEW v \in Workers, NEW i \in 1 .. Len(deque[v]),
         deque[v][i].status = "ready",
         \A j \in 1 .. i - 1 : deque[v][j].status # "ready",
         NEW t, t = deque[v][i].task, t \notin ended, Begins(t),
         Takes(v, i, [task |-> t, status |-> "stolen", thief |-> w]),
         NEW f, NewFrame(w, f), f.task = t,
         f.home = [victim |-> v, slot |-> i]
  PROVE  ItemInv'
<1> DEFINE e == [task |-> t, status |-> "stolen", thief |-> w]
<1>1. Tracked(v, i)
  BY DEF ItemInv
<1>2. /\ t \notin Mains
      /\ \A u \in Workers : \A j \in 1 .. Len(deque[u]) :
           deque[u][j].task = t => u = v /\ j = i
  BY <1>1 DEF Tracked
<1>3. /\ \A u \in Workers : Len(deque'[u]) = Len(deque[u])
      /\ \A u \in Workers : \A j \in 1 .. Len(deque[u]) :
           (u = v /\ j = i) \/ deque'[u][j] = deque[u][j]
      /\ deque'[v][i] = e /\ e.task = t /\ e.status = "stolen" /\ e.thief = w
  BY DEF Takes
<1> HIDE DEF e
<1>4. \A u \in Workers : \A j \in 1 .. Len(deque[u]) :
        deque'[u][j].task = deque[u][j].task
  BY <1>3
<1> SUFFICES ASSUME NEW u \in Workers, NEW j \in 1 .. Len(deque'[u])
             PROVE  Tracked(u, j)'
  BY DEF ItemInv
<1> DEFINE d == deque[u][j]
<1>5. j \in 1 .. Len(deque[u]) /\ Tracked(u, j) /\ d.task \in Tasks
      /\ deque'[u][j].task = d.task
  BY <1>3, <1>4, Elements DEF ItemInv
<1>6. \A x \in Workers : \A k \in 1 .. Len(deque'[x]) :
        deque'[x][k].task = d.task => x = u /\ k = j
  <2>1. \A x \in Workers : \A k \in 1 .. Len(deque[x]) :
          deque[x][k].task = d.task => x = u /\ k = j
    BY <1>5 DEF Tracked
  <2> HIDE DEF d
  <2> QED  BY <1>3, <1>4, <2>1
<1>7. CASE u = v /\ j = i
  <2>1. deque'[u][j] = e /\ d.task = t
    BY <1>3, <1>7
  <2>2. \E l \in 1 .. Len(stack'[w]) :
          /\ stack'[w][l].task = t
          /\ stack'[w][l].home = [victim |-> u, slot |-> j]
    <3>1. Len(stack[w]) + 1 \in 1 .. Len(stack'[w])
      BY Elements DEF NewFrame
    <3> QED  BY <1>7, <3>1 DEF NewFrame
  <2> HIDE DEF d
  <2>3. begun'[t] = 1
    BY DEF Begins
  <2>4. /\ deque'[u][j].task = t /\ deque'[u][j].status = "stolen"
        /\ deque'[u][j].thief = w
    BY <1>3, <2>1
  <2>5. \A x \in Workers : \A k \in 1 .. Len(deque'[x]) :
          deque'[x][k].task = t => x = u /\ k = j
    BY <1>6, <2>1
  <2> QED  BY <1>2, <2>2, <2>3, <2>4, <2>5 DEF Tracked
<1>8. CASE ~(u = v /\ j = i)
  <2>1. deque'[u][j] = d /\ d.task # t
    BY <1>2, <1>3, <1>5, <1>8
  <2>2. begun'[d.task] = begun[d.task]
    BY <1>5, <2>1 DEF Begins
  <2>3. /\ d.task \notin Mains
        /\ d.status = "ready" => begun[d.task] = 0
        /\ d.status # "ready" => begun[d.task] = 1
        /\ d.status = "stolen" => d.thief \in Workers /\ d.task \notin ended
        /\ d.status = "done" => d.task \in ended
    BY <1>5 DEF Tracked
  <2>4. d.status = "ready" => \A k \in j .. Len(deque'[u]) :
                                deque'[u][k].status = "ready"
    <3> SUFFICES ASSUME d.status = "ready", NEW k \in j .. Len(deque'[u])
                 PROVE  deque'[u][k].status = "ready"
      OBVIOUS
    <3>1. k \in j .. Len(deque[u]) /\ k \in 1 .. Len(deque[u])
      BY <1>3, <1>5
    <3>2. deque[u][k].status = "ready"
      BY <1>5, <3>1 DEF Tracked
    <3>3. ~(u = v /\ k = i)
      <4> SUFFICES ASSUME u = v, k = i  PROVE  FALSE
        OBVIOUS
      <4>1. j \in 1 .. i - 1
        BY <1>5, <1>8
      <4> QED  BY <4>1
    <3> QED  BY <1>3, <3>1, <3>2, <3>3
  <2>5. d.status = "stolen" =>
          \/ d.task \in lost'
          \/ \E l \in 1 .. Len(stack'[d.thief]) :
               /\ stack'[d.thief][l].task = d.task
               /\ stack'[d.thief][l].home = [victim |-> u, slot |-> j]
    <3> SUFFICES ASSUME d.status = "stolen", d.task \notin lost
                 PROVE  \E l \in 1 .. Len(stack'[d.thief]) :
                          /\ stack'[d.thief][l].task = d.task
                          /\ stack'[d.thief][l].home = [victim |-> u, slot |-> j]
      OBVIOUS
    <3>1. /\ d.thief \in Workers
          /\ \E l \in 1 .. Len(stack[d.thief]) :
               /\ stack[d.thief][l].task = d.task
               /\ stack[d.thief][l].home = [victim |-> u, slot |-> j]
      BY <1>5 DEF Tracked
    <3> HIDE DEF d
    <3> QED  BY <3>1 DEF Keeps
  <2> HIDE DEF d
  <2> QED  BY <1>6, <2>1, <2>2, <2>3, <2>4, <2>5 DEF Tracked
<1> QED  BY <1>7, <1>8

LEMMA StolenItem ==
  ASSUME NEW x \in ItemType, NEW w
  PROVE  [[x EXCEPT !.status = "stolen"] EXCEPT !.thief = w]
           = [task |-> x.task, status |-> "stolen", thief |-> w]
<1>1. PICK a \in Tasks, b \in {"ready", "stolen", "done"},
           c \in Workers \cup {NoWorker} :
        x = [task |-> a, status |-> b, thief |-> c]
  BY DEF ItemType
<1>2. [x EXCEPT !.status = "stolen"]
        = [task |-> a, status |-> "stolen", thief |-> c]
  BY <1>1
<1>3. [[task |-> a, status |-> "stolen", thief |-> c] EXCEPT !.thief = w]
        = [task |-> a, status |-> "stolen", thief |-> w]
  OBVIOUS
<1> QED  BY <1>1, <1>2, <1>3

(* What StealWork does.                                                    *)
Steals(w, v, i, t) ==
  /\ t \in Tasks /\ t \notin Mains /\ begun[t] = 0 /\ Begins(t)
  /\ deque' \in [Workers -> Seq(ItemType)] /\ StolenStay
  /\ Takes(v, i, [task |-> t, status |-> "stolen", thief |-> w])

LEMMA StealEffect ==
  ASSUME TypeOK, ItemInv, NEW w \in Workers, NEW v \in Workers,
         NEW i \in 1 .. Len(deque[v]), deque[v][i].status = "ready",
         deque' = [deque EXCEPT ![v][i].status = "stolen", ![v][i].thief = w],
         NEW t, t = deque[v][i].task, Enter(t)
  PROVE  Steals(w, v, i, t)
<1> DEFINE x == deque[v][i]
           e == [task |-> t, status |-> "stolen", thief |-> w]
<1>1. /\ t \in Tasks /\ x \in ItemType /\ e \in ItemType
      /\ t \notin Mains /\ begun[t] = 0
  <2>1. /\ x \in ItemType /\ x.task \in Tasks
        /\ Tracked(v, i)
    BY Elements DEF ItemInv
  <2>2. x.task \notin Mains /\ begun[x.task] = 0
    BY <2>1 DEF Tracked
  <2>3. t \in Tasks /\ t \notin Mains /\ begun[t] = 0
    BY <2>1, <2>2
  <2>4. e \in ItemType
    <3> HIDE DEF x
    <3> QED  BY <2>3 DEF ItemType
  <2> QED  BY <2>1, <2>3, <2>4
<1>2. Begins(t)
  BY <1>1, BeginsTask
<1>3. e = [[x EXCEPT !.status = "stolen"] EXCEPT !.thief = w]
  <2>1. x.task = t
    OBVIOUS
  <2> HIDE DEF x
  <2> QED  BY <1>1, <2>1, StolenItem
<1>4. deque' = [deque EXCEPT ![v] = [deque[v] EXCEPT ![i] = e]]
  <2>1. deque' = [deque EXCEPT ![v] = [deque[v] EXCEPT ![i] =
          [[x EXCEPT !.status = "stolen"] EXCEPT !.thief = w]]]
    BY DEF TypeOK
  <2> QED  BY <1>3, <2>1
<1> HIDE DEF e
<1>5. deque' \in [Workers -> Seq(ItemType)] /\ Takes(v, i, e)
  BY <1>1, <1>4, TakesItem
<1>6. StolenStay
  BY <1>5 DEF StolenStay, Takes
<1> QED  BY <1>1, <1>2, <1>5, <1>6 DEF Steals, e

(* A task t ends, on w's stack: the item it was stolen from is done.       *)
Finishes(t, w) ==
  /\ \A u \in Workers : Len(deque'[u]) = Len(deque[u])
  /\ \A u \in Workers : \A j \in 1 .. Len(deque[u]) :
       \/ /\ deque[u][j].task # t /\ deque'[u][j] = deque[u][j]
       \/ /\ deque[u][j].task = t /\ deque[u][j].status = "stolen"
          /\ deque'[u][j] = [task |-> t, status |-> "done", thief |-> w]
  /\ ended' = ended \cup {t}

Popped(w) ==
  /\ OnlyStackOf(w) /\ Running(w) /\ Len(stack'[w]) = Len(stack[w]) - 1
  /\ \A i \in 1 .. Len(stack[w]) - 1 : stack'[w][i] = stack[w][i]

LEMMA PoppedKeeps ==
  ASSUME TypeOK, NEW w \in Workers, Popped(w), NEW v \in Workers
  PROVE  /\ \A i \in 1 .. Len(stack[v]) :
              \/ v = w /\ i = Len(stack[w]) /\ stack[v][i] = Top(w)
              \/ i \in 1 .. Len(stack'[v]) /\ stack'[v][i] = stack[v][i]
         /\ \A i \in 1 .. Len(stack'[v]) :
              /\ i \in 1 .. Len(stack[v]) /\ stack'[v][i] = stack[v][i]
              /\ ~(v = w /\ i = Len(stack[w]))
<1>1. /\ Len(stack[w]) \in Nat \ {0} /\ Top(w) = stack[w][Len(stack[w])]
      /\ Len(stack'[w]) = Len(stack[w]) - 1
      /\ \A i \in 1 .. Len(stack[w]) - 1 : stack'[w][i] = stack[w][i]
  BY TopFrame DEF Popped
<1>2. CASE v = w
  <2>1. \A i \in 1 .. Len(stack[w]) :
          i = Len(stack[w]) \/ i \in 1 .. Len(stack[w]) - 1
    BY <1>1
  <2>2. \A i \in 1 .. Len(stack[w]) - 1 :
          i \in 1 .. Len(stack[w]) /\ i # Len(stack[w])
    BY <1>1
  <2> QED  BY <1>1, <1>2, <2>1, <2>2
<1>3. CASE v # w
  BY <1>3 DEF Popped, OnlyStackOf
<1> QED  BY <1>2, <1>3

(* Nobody else has the task of a frame.                                    *)
LEMMA OneFrame ==
  ASSUME TypeOK, FrameInv, NEW w \in Workers, Running(w)
  PROVE  LET t == Top(w).task
         IN  /\ t \in Tasks /\ begun[t] = 1 /\ t \notin ended \cup lost
             /\ \A v \in Workers : \A i \in 1 .. Len(stack[v]) :
                  stack[v][i].task = t => v = w /\ i = Len(stack[w])
<1>1. /\ Len(stack[w]) \in 1 .. Len(stack[w])
      /\ Top(w) = stack[w][Len(stack[w])] /\ Top(w).task \in Tasks
  BY TopFrame
<1>2. Homed(w, Len(stack[w]))
  BY <1>1 DEF FrameInv
<1> QED  BY <1>1, <1>2 DEF Homed

LEMMA ItemsOnReturn ==
  ASSUME TypeOK, ItemInv, FrameInv, NEW w \in Workers, Popped(w),
         NEW t, t = Top(w).task, Finishes(t, w), UNCHANGED <<begun, lost>>
  PROVE  ItemInv'
<1>1. /\ \A u \in Workers : Len(deque'[u]) = Len(deque[u])
      /\ \A u \in Workers : \A j \in 1 .. Len(deque[u]) :
           \/ deque[u][j].task # t /\ deque'[u][j] = deque[u][j]
           \/ /\ deque[u][j].task = t /\ deque[u][j].status = "stolen"
              /\ deque'[u][j] = [task |-> t, status |-> "done", thief |-> w]
      /\ \A u \in Workers : \A j \in 1 .. Len(deque[u]) :
           deque'[u][j].task = deque[u][j].task
  BY DEF Finishes
<1>2. begun[t] = 1 /\ ended' = ended \cup {t}
  BY OneFrame DEF Popped, Finishes
<1> SUFFICES ASSUME NEW u \in Workers, NEW j \in 1 .. Len(deque'[u])
             PROVE  Tracked(u, j)'
  BY DEF ItemInv
<1> DEFINE d == deque[u][j]
<1>3. /\ j \in 1 .. Len(deque[u]) /\ Tracked(u, j)
      /\ deque'[u][j].task = d.task
  BY <1>1 DEF ItemInv
<1>4. /\ d.task \notin Mains
      /\ d.status = "ready" => begun[d.task] = 0
      /\ d.status # "ready" => begun[d.task] = 1
      /\ d.status = "stolen" => d.thief \in Workers /\ d.task \notin ended
      /\ d.status = "done" => d.task \in ended
      /\ \A v \in Workers : \A i \in 1 .. Len(deque[v]) :
           deque[v][i].task = d.task => v = u /\ i = j
  BY <1>3 DEF Tracked
<1>5. \A v \in Workers : \A i \in 1 .. Len(deque'[v]) :
        deque'[v][i].task = d.task => v = u /\ i = j
  <2> HIDE DEF d
  <2> QED  BY <1>1, <1>4
<1>6. CASE d.task # t
  <2>1. deque'[u][j] = d
    BY <1>1, <1>3, <1>6
  <2>2. d.status = "ready" => \A k \in j .. Len(deque'[u]) :
                                deque'[u][k].status = "ready"
    <3> SUFFICES ASSUME d.status = "ready", NEW k \in j .. Len(deque'[u])
                 PROVE  deque'[u][k].status = "ready"
      OBVIOUS
    <3>1. k \in j .. Len(deque[u]) /\ k \in 1 .. Len(deque[u])
      BY <1>1, <1>3
    <3>2. deque[u][k].status = "ready"
      BY <1>3, <3>1 DEF Tracked
    <3> QED  BY <1>1, <3>1, <3>2
  <2>3. d.status = "stolen" =>
          \/ d.task \in lost'
          \/ \E l \in 1 .. Len(stack'[d.thief]) :
               /\ stack'[d.thief][l].task = d.task
               /\ stack'[d.thief][l].home = [victim |-> u, slot |-> j]
    <3> SUFFICES ASSUME d.status = "stolen", d.task \notin lost
                 PROVE  \E l \in 1 .. Len(stack'[d.thief]) :
                          /\ stack'[d.thief][l].task = d.task
                          /\ stack'[d.thief][l].home = [victim |-> u, slot |-> j]
      OBVIOUS
    <3>1. d.thief \in Workers
      BY <1>4
    <3>2. PICK l \in 1 .. Len(stack[d.thief]) :
               /\ stack[d.thief][l].task = d.task
               /\ stack[d.thief][l].home = [victim |-> u, slot |-> j]
      BY <1>3 DEF Tracked
    <3> HIDE DEF d
    <3>3. l \in 1 .. Len(stack'[d.thief])
          /\ stack'[d.thief][l] = stack[d.thief][l]
      BY <1>6, <3>1, <3>2, PoppedKeeps
    <3> QED  BY <3>2, <3>3
  <2> HIDE DEF d
  <2> QED  BY <1>2, <1>4, <1>5, <1>6, <2>1, <2>2, <2>3 DEF Tracked
<1>7. CASE d.task = t
  <2>1. deque'[u][j] = [task |-> t, status |-> "done", thief |-> w]
    BY <1>1, <1>3, <1>7
  <2> HIDE DEF d
  <2> QED  BY <1>2, <1>4, <1>5, <1>7, <2>1 DEF Tracked
<1> QED  BY <1>6, <1>7

------------------------------------------------------------------------------
(* Frames                                                                  *)

(* A frame keeps its item, or stays out of the deques.                     *)
LEMMA HomedKept ==
  ASSUME TypeOK, FrameInv, Keeps, StolenStay, UNCHANGED <<ended, lost>>,
         NEW v \in Workers, NEW i \in 1 .. Len(stack[v]),
         NEW t, t = stack[v][i].task, begun'[t] = begun[t],
         Unqueued(t) => Unqueued(t)',
         \A u \in Workers : \A j \in 1 .. Len(stack'[u]) :
           j \in 1 .. Len(stack[u]) \/ stack'[u][j].task # t
  PROVE  Homed(v, i)'
<1> DEFINE h == stack[v][i].home
<1>1. Homed(v, i) /\ stack'[v][i].task = t /\ stack'[v][i].home = h
  BY DEF FrameInv, Keeps
<1>2. begun[t] = 1 /\ t \notin ended \cup lost
  BY <1>1 DEF Homed
<1>3. \A u \in Workers : \A j \in 1 .. Len(stack'[u]) :
        stack'[u][j].task = t => u = v /\ j = i
  <2>1. \A u \in Workers : \A j \in 1 .. Len(stack[u]) :
          stack[u][j].task = t => u = v /\ j = i
    BY <1>1 DEF Homed
  <2>2. \A u \in Workers : \A j \in 1 .. Len(stack[u]) :
          stack'[u][j].task = stack[u][j].task
    BY DEF Keeps
  <2> QED  BY <2>1, <2>2
<1>4. h = Local => Unqueued(t)'
  BY <1>1 DEF Homed
<1>5. h # Local =>
        /\ h.victim \in Workers
        /\ h.slot \in 1 .. Len(deque'[h.victim])
        /\ deque'[h.victim][h.slot] =
             [task |-> t, status |-> "stolen", thief |-> v]
  <2> SUFFICES ASSUME h # Local
               PROVE  /\ h.victim \in Workers
                      /\ h.slot \in 1 .. Len(deque'[h.victim])
                      /\ deque'[h.victim][h.slot] =
                           [task |-> t, status |-> "stolen", thief |-> v]
    OBVIOUS
  <2>1. /\ h.victim \in Workers
        /\ h.slot \in 1 .. Len(deque[h.victim])
        /\ deque[h.victim][h.slot] =
             [task |-> t, status |-> "stolen", thief |-> v]
    BY <1>1 DEF Homed
  <2> HIDE DEF h
  <2>2. deque[h.victim][h.slot].status = "stolen"
    BY <2>1
  <2> QED  BY <2>1, <2>2 DEF StolenStay
<1> HIDE DEF h
<1>6. begun'[t] = 1
  BY <1>2
<1>7. /\ stack'[v][i].task = t /\ stack'[v][i].home = h
      /\ t \notin ended' \cup lost'
  BY <1>1, <1>2 DEF h
<1> QED  BY <1>3, <1>4, <1>5, <1>6, <1>7 DEF Homed

LEMMA FramesKept ==
  ASSUME TypeOK, FrameInv, Keeps, NoNewFrame, StolenStay,
         UNCHANGED <<begun, ended, lost>>,
         \A t \in Tasks : begun[t] = 1 /\ Unqueued(t) => Unqueued(t)'
  PROVE  FrameInv'
<1>1. ASSUME NEW v \in Workers, NEW i \in 1 .. Len(stack'[v])
      PROVE  Homed(v, i)'
  <2> PICK t : t = stack[v][i].task
    OBVIOUS
  <2>1. i \in 1 .. Len(stack[v]) /\ t \in Tasks
    BY <1>1, Elements DEF NoNewFrame
  <2>2. begun[t] = 1
    <3>1. Homed(v, i)
      BY <2>1 DEF FrameInv
    <3> QED  BY <3>1 DEF Homed
  <2>3. \A u \in Workers : \A j \in 1 .. Len(stack'[u]) :
          j \in 1 .. Len(stack[u])
    BY DEF NoNewFrame
  <2> QED  BY <2>1, <2>2, <2>3, HomedKept
<1>2. \A t : t \in Active => t \in Active'
  BY ActiveTasks DEF Keeps, Active, Frames
<1> QED  BY <1>1, <1>2 DEF FrameInv

(* A task begins, in a frame f of its own.                                 *)
LEMMA FramePushed ==
  ASSUME TypeOK, FrameInv, Keeps, StolenStay, UNCHANGED <<ended, lost>>,
         NEW w \in Workers, NEW f, NewFrame(w, f),
         NEW t, t = f.task, Begins(t),
         f.home = Local => Unqueued(t)',
         f.home # Local =>
           /\ f.home.victim \in Workers
           /\ f.home.slot \in 1 .. Len(deque'[f.home.victim])
           /\ deque'[f.home.victim][f.home.slot] =
                [task |-> t, status |-> "stolen", thief |-> w],
         \A c \in Tasks : begun[c] = 1 /\ Unqueued(c) => Unqueued(c)'
  PROVE  FrameInv'
<1> PICK n : n = Len(stack[w])
  OBVIOUS
<1>1. /\ n \in Nat /\ Len(stack'[w]) = n + 1 /\ stack'[w][n + 1] = f
      /\ \A v \in Workers \ {w} : Len(stack'[v]) = Len(stack[v])
  BY Elements DEF NewFrame
<1>2. \A v \in Workers : \A i \in 1 .. Len(stack'[v]) :
        \/ i \in 1 .. Len(stack[v])
        \/ v = w /\ i = n + 1 /\ stack'[v][i] = f
  BY <1>1
<1>3. \A v \in Workers : \A i \in 1 .. Len(stack[v]) :
        /\ stack[v][i].task \in Tasks /\ begun[stack[v][i].task] = 1
        /\ stack[v][i].task # t
  <2> SUFFICES ASSUME NEW v \in Workers, NEW i \in 1 .. Len(stack[v])
               PROVE  /\ stack[v][i].task \in Tasks
                      /\ begun[stack[v][i].task] = 1 /\ stack[v][i].task # t
    OBVIOUS
  <2>1. Homed(v, i) /\ stack[v][i].task \in Tasks
    BY Elements DEF FrameInv
  <2> QED  BY <2>1 DEF Homed, Begins
<1>4. ASSUME NEW v \in Workers, NEW i \in 1 .. Len(stack[v])
      PROVE  Homed(v, i)'
  <2> PICK c : c = stack[v][i].task
    OBVIOUS
  <2>1. c \in Tasks /\ begun[c] = 1 /\ c # t
    BY <1>3, <1>4
  <2>2. begun'[c] = begun[c]
    BY <2>1 DEF Begins
  <2>3. \A u \in Workers : \A j \in 1 .. Len(stack'[u]) :
          j \in 1 .. Len(stack[u]) \/ stack'[u][j].task # c
    BY <1>2, <2>1
  <2> QED  BY <1>4, <2>1, <2>2, <2>3, HomedKept
<1>5. Homed(w, n + 1)'
  <2>1. stack'[w][n + 1] = f
    BY <1>1
  <2>2. begun'[t] = 1 /\ t \notin ended' \cup lost'
    BY DEF Begins, FrameInv
  <2>3. \A v \in Workers : \A j \in 1 .. Len(stack'[v]) :
          stack'[v][j].task = t => v = w /\ j = n + 1
    <3> SUFFICES ASSUME NEW v \in Workers, NEW j \in 1 .. Len(stack'[v]),
                        j \in 1 .. Len(stack[v])
                 PROVE  stack'[v][j].task # t
      BY <1>2
    <3> QED  BY <1>3 DEF Keeps
  <2> QED  BY <2>1, <2>2, <2>3 DEF Homed
<1>6. ASSUME NEW v \in Workers, NEW i \in 1 .. Len(stack'[v])
      PROVE  Homed(v, i)'
  BY <1>2, <1>4, <1>5, <1>6
<1>7. t \in Active' /\ \A c : c \in Active => c \in Active'
  <2>1. \A c : c \in Active' <=>
          \E v \in Workers : \E i \in 1 .. Len(stack'[v]) :
            stack'[v][i].task = c
    BY DEF Active, Frames
  <2>2. n + 1 \in 1 .. Len(stack'[w])
    BY <1>1
  <2>3. t \in Active'
    BY <1>1, <2>1, <2>2
  <2> QED  BY SMTT(20), <2>1, <2>3, ActiveTasks DEF Keeps
<1>8. \A c \in Tasks :
        /\ begun'[c] \in {0, 1}
        /\ begun'[c] = 1 => c \in Active' \cup ended' \cup lost'
        /\ c \in ended' \cup lost' => begun'[c] = 1
  <2> SUFFICES ASSUME NEW c \in Tasks
               PROVE  /\ begun'[c] \in {0, 1}
                      /\ begun'[c] = 1 => c \in Active' \cup ended' \cup lost'
                      /\ c \in ended' \cup lost' => begun'[c] = 1
    OBVIOUS
  <2>1. CASE c = t
    BY <1>7, <2>1 DEF Begins
  <2>2. CASE c # t
    <3>1. begun'[c] = begun[c]
      BY <2>2 DEF Begins
    <3> QED  BY <1>7, <3>1 DEF FrameInv
  <2> QED  BY <2>1, <2>2
<1>9. ended' \cap lost' = {}
  BY DEF FrameInv
<1> QED  BY <1>6, <1>8, <1>9 DEF FrameInv

LEMMA FramesOnReturn ==
  ASSUME TypeOK, FrameInv, NEW w \in Workers, Popped(w),
         NEW t, t = Top(w).task, Finishes(t, w), UNCHANGED <<begun, lost>>
  PROVE  FrameInv'
<1>1. /\ t \in Tasks /\ begun[t] = 1 /\ t \notin ended \cup lost
      /\ \A v \in Workers : \A i \in 1 .. Len(stack[v]) :
           stack[v][i].task = t => v = w /\ i = Len(stack[w])
  BY OneFrame DEF Popped
<1>2. /\ \A u \in Workers : Len(deque'[u]) = Len(deque[u])
      /\ \A u \in Workers : \A j \in 1 .. Len(deque[u]) :
           deque[u][j].task # t => deque'[u][j] = deque[u][j]
      /\ \A u \in Workers : \A j \in 1 .. Len(deque[u]) :
           deque'[u][j].task = deque[u][j].task
      /\ ended' = ended \cup {t}
  BY DEF Finishes
<1>3. ASSUME NEW v \in Workers, NEW i \in 1 .. Len(stack'[v])
      PROVE  Homed(v, i)'
  <2>1. /\ i \in 1 .. Len(stack[v]) /\ stack'[v][i] = stack[v][i]
        /\ ~(v = w /\ i = Len(stack[w]))
    BY <1>3, PoppedKeeps
  <2> PICK f : f = stack[v][i]
    OBVIOUS
  <2>2. /\ begun[f.task] = 1 /\ f.task \notin ended \cup lost
        /\ \A u \in Workers : \A j \in 1 .. Len(stack[u]) :
             stack[u][j].task = f.task => u = v /\ j = i
        /\ f.home = Local => Unqueued(f.task)
        /\ f.home # Local =>
             /\ f.home.victim \in Workers
             /\ f.home.slot \in 1 .. Len(deque[f.home.victim])
             /\ deque[f.home.victim][f.home.slot] =
                  [task |-> f.task, status |-> "stolen", thief |-> v]
    <3>1. Homed(v, i)
      BY <2>1 DEF FrameInv
    <3> QED  BY <3>1 DEF Homed
  <2>3. f.task # t
    BY <1>1, <2>1
  <2>4. \A u \in Workers : \A j \in 1 .. Len(stack'[u]) :
          stack'[u][j].task = f.task => u = v /\ j = i
    BY <2>2, PoppedKeeps
  <2>5. f.home = Local => Unqueued(f.task)'
    BY <1>2, <2>2 DEF Unqueued
  <2>6. f.home # Local =>
          /\ f.home.victim \in Workers
          /\ f.home.slot \in 1 .. Len(deque'[f.home.victim])
          /\ deque'[f.home.victim][f.home.slot] =
               [task |-> f.task, status |-> "stolen", thief |-> v]
    BY SMTT(20), <1>2, <2>2, <2>3
  <2>7. /\ stack'[v][i] = f /\ begun'[f.task] = 1
        /\ f.task \notin ended' \cup lost'
    BY <1>2, <2>1, <2>2, <2>3
  <2> QED  BY <2>4, <2>5, <2>6, <2>7 DEF Homed
<1>4. \A c : c \in Active => c = t \/ c \in Active'
  <2>1. \A c : c \in Active' <=>
          \E v \in Workers : \E i \in 1 .. Len(stack'[v]) :
            stack'[v][i].task = c
    BY DEF Active, Frames
  <2> QED  BY <2>1, ActiveTasks, PoppedKeeps
<1> QED  BY <1>1, <1>2, <1>3, <1>4 DEF FrameInv

(* A stack is unwound.                                                     *)
Unwound(w) ==
  /\ OnlyStackOf(w) /\ Len(stack'[w]) = 0
  /\ lost' = lost \cup {f.task : f \in Frames(w)}
  /\ UNCHANGED <<deque, begun, ended>>

LEMMA UnwoundKeeps ==
  ASSUME TypeOK, NEW w \in Workers, Unwound(w), NEW v \in Workers
  PROVE  /\ \A i \in 1 .. Len(stack[v]) :
              \/ v = w /\ stack[v][i].task \in lost'
              \/ /\ v # w /\ i \in 1 .. Len(stack'[v])
                 /\ stack'[v][i] = stack[v][i]
                 /\ Len(stack'[v]) = Len(stack[v])
         /\ \A i \in 1 .. Len(stack'[v]) :
              /\ v # w /\ i \in 1 .. Len(stack[v])
              /\ stack'[v][i] = stack[v][i]
<1>1. \A i \in 1 .. Len(stack[w]) : stack[w][i].task \in lost'
  BY DEF Unwound, Frames
<1>2. 1 .. Len(stack'[w]) = {}
  BY DEF Unwound
<1>3. v # w => stack'[v] = stack[v]
  BY DEF Unwound, OnlyStackOf
<1> QED  BY <1>1, <1>2, <1>3

LEMMA ItemsOnUnwind ==
  ASSUME TypeOK, ItemInv, NEW w \in Workers, Unwound(w)
  PROVE  ItemInv'
<1>1. /\ Shrinks /\ lost \subseteq lost' /\ ended' = ended
      /\ \A v \in Workers : \A i \in 1 .. Len(deque'[v]) :
           begun'[deque[v][i].task] = begun[deque[v][i].task]
  BY DEF Unwound, Shrinks
<1>2. \A v \in Workers : \A i \in 1 .. Len(stack[v]) :
        \/ stack[v][i].task \in lost'
        \/ /\ i \in 1 .. Len(stack'[v])
           /\ stack'[v][i].task = stack[v][i].task
           /\ stack'[v][i].home = stack[v][i].home
  BY UnwoundKeeps
<1> QED  BY <1>1, <1>2, ItemsShrink

LEMMA FramesOnUnwind ==
  ASSUME TypeOK, FrameInv, NEW w \in Workers, Unwound(w)
  PROVE  FrameInv'
<1>1. /\ deque' = deque /\ begun' = begun /\ ended' = ended
      /\ \A t : t \in lost' <=> \/ t \in lost
                                \/ \E i \in 1 .. Len(stack[w]) :
                                     stack[w][i].task = t
  BY DEF Unwound, Frames
<1>2. \A t : t \in lost' \ lost => begun[t] = 1 /\ t \notin ended
  <2> SUFFICES ASSUME NEW i \in 1 .. Len(stack[w])
               PROVE  begun[stack[w][i].task] = 1
                      /\ stack[w][i].task \notin ended
    BY <1>1
  <2>1. Homed(w, i)
    BY DEF FrameInv
  <2> QED  BY <2>1 DEF Homed
<1>3. ASSUME NEW v \in Workers, NEW i \in 1 .. Len(stack'[v])
      PROVE  Homed(v, i)'
  <2>1. /\ v # w /\ i \in 1 .. Len(stack[v]) /\ stack'[v][i] = stack[v][i]
    BY <1>3, UnwoundKeeps
  <2> PICK f : f = stack[v][i]
    OBVIOUS
  <2>2. /\ begun[f.task] = 1 /\ f.task \notin ended \cup lost
        /\ \A u \in Workers : \A j \in 1 .. Len(stack[u]) :
             stack[u][j].task = f.task => u = v /\ j = i
        /\ f.home = Local => Unqueued(f.task)
        /\ f.home # Local =>
             /\ f.home.victim \in Workers
             /\ f.home.slot \in 1 .. Len(deque[f.home.victim])
             /\ deque[f.home.victim][f.home.slot] =
                  [task |-> f.task, status |-> "stolen", thief |-> v]
    <3>1. Homed(v, i)
      BY <2>1 DEF FrameInv
    <3> QED  BY <3>1 DEF Homed
  <2>3. f.task \notin lost'
    BY <1>1, <2>1, <2>2
  <2>4. \A u \in Workers : \A j \in 1 .. Len(stack'[u]) :
          stack'[u][j].task = f.task => u = v /\ j = i
    BY <2>2, UnwoundKeeps
  <2>5. f.home = Local => Unqueued(f.task)'
    BY <1>1, <2>2 DEF Unqueued
  <2>6. /\ stack'[v][i] = f /\ begun'[f.task] = 1
        /\ f.task \notin ended' \cup lost'
    BY <1>1, <2>1, <2>2, <2>3
  <2> QED  BY <1>1, <2>2, <2>4, <2>5, <2>6 DEF Homed
<1>4. \A c : c \in Active => c \in lost' \/ c \in Active'
  <2>1. \A c : c \in Active' <=>
          \E v \in Workers : \E i \in 1 .. Len(stack'[v]) :
            stack'[v][i].task = c
    BY DEF Active, Frames
  <2> QED  BY <2>1, ActiveTasks, UnwoundKeeps
<1>5. \A t \in Tasks :
        /\ begun'[t] \in {0, 1}
        /\ begun'[t] = 1 => t \in Active' \cup ended' \cup lost'
        /\ t \in ended' \cup lost' => begun'[t] = 1
  BY <1>1, <1>2, <1>4 DEF FrameInv
<1>6. ended' \cap lost' = {}
  <2>1. \A t \in ended : t \in Tasks
    BY DEF TypeOK
  <2> QED  BY <1>1, <1>2, <2>1 DEF FrameInv
<1> QED  BY <1>3, <1>5, <1>6 DEF FrameInv

------------------------------------------------------------------------------
(* Children                                                                *)

OverStays     == \A c \in Tasks : Over(c) => Over(c)'
FreshStays(x) == \A c \in Tasks : c # x /\ Fresh(c) => Fresh(c)'

(* If x is a fresh child, w's top frame is about to start it.              *)
Ours(w, x) ==
  \A t \in Tasks : \A k \in 1 .. Len(Program[t]) :
    Starts(t, k) /\ Child(t, k) = x /\ Fresh(x) =>
      Running(w) /\ t = Top(w).task /\ k = Top(w).pc

(* A frame that does nothing itself.                                       *)
LEMMA RaisedKept ==
  ASSUME ChildInv, NEW v \in Workers, NEW i \in 1 .. Len(stack[v]),
         NEW f, f = stack[v][i],
         stack'[v][i].task = f.task, stack'[v][i].pc = f.pc,
         \A k \in 1 .. Len(Program[f.task]) : Starts(f.task, k) =>
           /\ k >= f.pc /\ Fresh(Child(f.task, k)) => Fresh(Child(f.task, k))'
           /\ Over(Child(f.task, k)) => Over(Child(f.task, k))'
           /\ OnTop(v, i, Child(f.task, k)) =>
                \/ OnTop(v, i, Child(f.task, k))'
                \/ Over(Child(f.task, k))'
  PROVE  Raised(v, i)'
<1>1. Raised(v, i)
  BY DEF ChildInv
<1>2. \A k \in 1 .. Len(Program[f.task]) : Starts(f.task, k) =>
        IF k >= f.pc THEN Fresh(Child(f.task, k))
        ELSE \/ Over(Child(f.task, k))
             \/ \E j \in 1 .. Len(Holding(f)) :
                  Holding(f)[j] = Child(f.task, k)
             \/ OnTop(v, i, Child(f.task, k))
  BY <1>1 DEF Raised
<1>3. Holding(stack[v][i])' = Holding(f)
  BY DEF Holding
<1>4. \A k \in 1 .. Len(Program[f.task]) : Starts(f.task, k) =>
        IF k >= f.pc THEN Fresh(Child(f.task, k))'
        ELSE \/ Over(Child(f.task, k))'
             \/ \E j \in 1 .. Len(Holding(f)) :
                  Holding(f)[j] = Child(f.task, k)
             \/ OnTop(v, i, Child(f.task, k))'
  BY <1>2
<1> QED  BY <1>3, <1>4 DEF Raised

(* The frame whose body goes on: what it starts is a token or on top of    *)
(* it, what it syncs is over or on top of it.                              *)
LEMMA RaisedOn ==
  ASSUME TypeOK, StackInv, ChildInv, OverStays, NEW w \in Workers, Running(w),
         NEW x, FreshStays(x), Ours(w, x),
         NEW n, n = Len(stack[w]), NEW f, f = Top(w), f.pc <= Len(Program[f.task]),
         NEW g, stack'[w][n] = g, g.task = f.task, g.pc = f.pc + 1,
         Program[f.task][f.pc].do # "spawn" =>
           \/ Over(Child(f.task, f.pc))'
           \/ OnTop(w, n, Child(f.task, f.pc))'
  PROVE  Raised(w, n)'
<1>1. /\ n \in Nat \ {0} /\ n \in 1 .. n /\ f = stack[w][n]
      /\ f.task \in Tasks /\ f.pc \in Nat
  BY TopFrame
<1>2. f.pc \in 1 .. Len(Program[f.task]) + 1
  BY <1>1, FrameOf
<1>3. Len(Program[f.task]) \in Nat /\ f.pc \in 1 .. Len(Program[f.task])
  BY <1>1, <1>2, ProgramType
<1> DEFINE c(k) == Child(f.task, k)
           h == Holding(f)
           e == Held[f.task][f.pc]
<1>4. /\ Program[f.task][f.pc].do \in {"spawn", "sync", "call"}
      /\ Program[f.task][f.pc].do = "spawn" =>
           /\ Len(e) = Len(h) + 1 /\ e[Len(h) + 1] = c(f.pc)
           /\ \A j \in 1 .. Len(h) : e[j] = h[j]
      /\ Program[f.task][f.pc].do = "sync" =>
           /\ Len(h) = Len(e) + 1 /\ h[Len(e) + 1] = c(f.pc)
           /\ \A j \in 1 .. Len(e) : h[j] = e[j]
      /\ Program[f.task][f.pc].do = "call" => e = h
      /\ Len(h) \in Nat /\ Len(e) \in Nat
  <2>1. f.pc - 1 \in 0 .. Len(Program[f.task]) /\ f.pc \in 0 .. Len(Program[f.task])
    BY <1>3
  <2> QED  BY ZenonT(30), <1>1, <1>3, <2>1, ProgramType, HeldMoves DEF Holding
<1>5. Holding(stack[w][n])' = e
  <2>1. g.pc - 1 = f.pc
    BY <1>3
  <2> QED  BY <2>1 DEF Holding
<1>6. Raised(w, n)
  BY <1>1 DEF ChildInv
<1> HIDE DEF h, e
<1>7. ASSUME NEW k \in 1 .. Len(Program[f.task]), Starts(f.task, k)
      PROVE  IF k >= g.pc THEN Fresh(c(k))'
             ELSE \/ Over(c(k))'
                  \/ \E j \in 1 .. Len(e) : e[j] = c(k)
                  \/ OnTop(w, n, c(k))'
  <2>1. /\ c(k) \in Tasks /\ k \in Nat
        /\ k >= f.pc => Fresh(c(k))
        /\ ~(k >= f.pc) => \/ Over(c(k))
                           \/ \E j \in 1 .. Len(h) : h[j] = c(k)
                           \/ OnTop(w, n, c(k))
    BY <1>1, <1>6, <1>7, ProgramType DEF Raised, h
  <2>2. CASE k >= g.pc
    <3>1. k >= f.pc /\ k # f.pc
      BY <1>1, <2>1, <2>2
    <3>2. c(k) # x
      BY <1>1, <1>7, <2>1, <3>1 DEF Ours
    <3> QED  BY <2>1, <2>2, <3>1, <3>2 DEF FreshStays
  <2>3. CASE k = f.pc
    <3>1. ~(k >= g.pc)
      BY <1>1, <2>3
    <3>2. CASE Program[f.task][f.pc].do = "spawn"
      <4>1. Len(h) + 1 \in 1 .. Len(e) /\ e[Len(h) + 1] = c(k)
        BY <1>4, <2>3, <3>2
      <4> QED  BY <3>1, <4>1
    <3>3. CASE Program[f.task][f.pc].do # "spawn"
      BY <2>3, <3>1, <3>3
    <3> QED  BY <3>2, <3>3
  <2>4. CASE k < f.pc
    <3>1. ~(k >= g.pc) /\ ~(k >= f.pc)
      BY <1>1, <2>1, <2>4
    <3>2. ~OnTop(w, n, c(k))
      BY <1>1 DEF OnTop
    <3>3. CASE Over(c(k))
      BY <2>1, <3>1, <3>3 DEF OverStays
    <3>4. CASE \E j \in 1 .. Len(h) : h[j] = c(k)
      <4> PICK j \in 1 .. Len(h) : h[j] = c(k)
        BY <3>4
      <4>1. CASE j \in 1 .. Len(e) /\ e[j] = h[j]
        BY <3>1, <4>1
      <4>2. CASE ~(j \in 1 .. Len(e) /\ e[j] = h[j])
        <5>1. /\ Program[f.task][f.pc].do = "sync" /\ j = Len(e) + 1
              /\ h[j] = c(f.pc)
          BY <1>4, <4>2
        <5>2. c(k) = c(f.pc)
          BY <5>1
        <5>3. \/ Over(c(f.pc))'
              \/ OnTop(w, n, c(f.pc))'
          BY <5>1
        <5> QED  BY <3>1, <5>2, <5>3
      <4> QED  BY <4>1, <4>2
    <3> QED  BY <2>1, <3>1, <3>2, <3>3, <3>4
  <2> QED  BY <1>1, <2>1, <2>2, <2>3, <2>4
<1> HIDE DEF c
<1>8. \A k \in 1 .. Len(Program[f.task]) : Starts(f.task, k) =>
        IF k >= g.pc THEN Fresh(c(k))'
        ELSE \/ Over(c(k))'
             \/ \E j \in 1 .. Len(e) : e[j] = c(k)
             \/ OnTop(w, n, c(k))'
  BY <1>7
<1> QED  BY <1>5, <1>8 DEF Raised, c

(* A frame that stays at its sync.                                         *)
LEMMA RaisedStays ==
  ASSUME TypeOK, ChildInv, OverStays, NEW w \in Workers, Running(w),
         NEW x, FreshStays(x), Ours(w, x),
         NEW n, n = Len(stack[w]), NEW f, f = Top(w),
         f.pc <= Len(Program[f.task]) => Program[f.task][f.pc].do = "sync",
         stack'[w][n].task = f.task, stack'[w][n].pc = f.pc
  PROVE  Raised(w, n)'
<1>1. /\ n \in Nat \ {0} /\ n \in 1 .. Len(stack[w]) /\ f = stack[w][n]
      /\ f.task \in Tasks /\ f.pc \in Nat
  BY TopFrame
<1>2. ASSUME NEW k \in 1 .. Len(Program[f.task]), Starts(f.task, k)
      PROVE  LET c == Child(f.task, k)
             IN  /\ k >= f.pc /\ Fresh(c) => Fresh(Child(f.task, k))'
                 /\ Over(c) => Over(Child(f.task, k))'
                 /\ ~OnTop(w, n, c)
  <2> PICK c : c = Child(f.task, k)
    OBVIOUS
  <2>1. c \in Tasks /\ k # f.pc
    BY <1>1, <1>2, ProgramType DEF Starts
  <2>2. Fresh(c) => c # x
    BY <1>1, <1>2, <2>1 DEF Ours
  <2>3. /\ Fresh(c) => Fresh(c)'
        /\ Over(c) => Over(c)'
    BY <2>1, <2>2 DEF FreshStays, OverStays
  <2>4. ~OnTop(w, n, c)
    BY <1>1 DEF OnTop
  <2> QED  BY <2>3, <2>4
<1> QED  BY <1>1, <1>2, RaisedKept

(* A frame that has just begun.                                            *)
LEMMA RaisedNew ==
  ASSUME TypeOK, FrameInv, ChildInv, NEW w \in Workers,
         NEW x, FreshStays(x), Ours(w, x), NEW m, NEW f, stack'[w][m] = f,
         f.task \in Tasks, f.pc = 1, begun[f.task] = 0
  PROVE  Raised(w, m)'
<1>1. \A k \in 1 .. Len(Program[f.task]) : Starts(f.task, k) =>
        Fresh(Child(f.task, k))'
  <2> SUFFICES ASSUME NEW k \in 1 .. Len(Program[f.task]), Starts(f.task, k)
               PROVE  Fresh(Child(f.task, k))'
    OBVIOUS
  <2> PICK c : c = Child(f.task, k)
    OBVIOUS
  <2>1. Fresh(c) /\ c \in Tasks
    BY ProgramType DEF ChildInv
  <2>2. c # x
    BY <2>1, OneFrame DEF Ours
  <2> QED  BY <2>1, <2>2 DEF FreshStays
<1>2. \A k \in 1 .. Len(Program[f.task]) : k >= f.pc
  BY ProgramType
<1> QED  BY <1>1, <1>2 DEF Raised

LEMMA ChildrenOn ==
  ASSUME TypeOK, StackInv, FrameInv, ChildInv, ended' = ended, OverStays,
         NEW w \in Workers, NEW x, FreshStays(x), Ours(w, x), Keeps,
         \A t \in Tasks : begun'[t] = 0 => begun[t] = 0,
         OnlyStackOf(w),
         NEW n, n = Len(stack[w]),
         \A i \in 1 .. n - 1 : stack'[w][i] = stack[w][i],
         Running(w) => Raised(w, n)',
         \A i \in 1 .. Len(stack'[w]) : i \in 1 .. n \/ Raised(w, i)'
  PROVE  ChildInv'
<1>1. ASSUME NEW t \in Tasks, NEW k \in 1 .. Len(Program[t]), Starts(t, k)
      PROVE  /\ begun'[t] = 0 => Fresh(Child(t, k))'
             /\ t \in ended' => Over(Child(t, k))'
  <2> PICK c : c = Child(t, k)
    OBVIOUS
  <2>1. /\ c \in Tasks
        /\ begun[t] = 0 => Fresh(c)
        /\ t \in ended => Over(c)
    BY <1>1, ProgramType DEF ChildInv
  <2>2. begun[t] = 0 /\ Fresh(c) => c # x
    BY <1>1, OneFrame DEF Ours
  <2> QED  BY <2>1, <2>2 DEF FreshStays, OverStays
<1>2. ASSUME NEW v \in Workers, NEW i \in 1 .. Len(stack[v]), v # w \/ i # n
      PROVE  Raised(v, i)'
  <2> PICK f : f = stack[v][i]
    OBVIOUS
  <2>1. f.task \in Tasks /\ stack'[v][i] = f
    <3>1. CASE v = w
      <4>1. i \in 1 .. n - 1
        BY <1>2, <3>1, Elements
      <4> QED  BY <3>1, <4>1, Elements
    <3>2. CASE v # w
      BY <3>2, Elements DEF OnlyStackOf
    <3> QED  BY <3>1, <3>2
  <2>2. ASSUME NEW k \in 1 .. Len(Program[f.task]), Starts(f.task, k)
        PROVE  /\ Fresh(Child(f.task, k)) => Fresh(Child(f.task, k))'
               /\ Over(Child(f.task, k)) => Over(Child(f.task, k))'
               /\ OnTop(v, i, Child(f.task, k)) => OnTop(v, i, Child(f.task, k))'
    <3> PICK c : c = Child(f.task, k)
      OBVIOUS
    <3>1. c \in Tasks
      BY <2>1, <2>2, ProgramType
    <3>2. Fresh(c) => c # x
      BY <1>2, <2>1, <2>2, OneFrame DEF Ours
    <3>3. OnTop(v, i, c) => OnTop(v, i, c)'
      <4>1. i < Len(stack[v]) => i + 1 \in 1 .. Len(stack[v])
        BY Elements
      <4>2. OnTop(v, i, c) =>
              /\ i + 1 \in 1 .. Len(stack'[v])
              /\ stack'[v][i + 1].task = c /\ stack'[v][i + 1].home = Local
        BY <4>1 DEF OnTop, Keeps
      <4>3. stack'[v] \in Seq(FrameType) /\ Len(stack'[v]) \in Nat
        BY DEF OnlyStackOf
      <4>4. i + 1 \in 1 .. Len(stack'[v]) => i < Len(stack'[v])
        BY <4>3
      <4> QED  BY <4>2, <4>4 DEF OnTop
    <3> QED  BY <3>1, <3>2, <3>3 DEF FreshStays, OverStays
  <2> QED  BY <1>2, <2>1, <2>2, RaisedKept
<1>3. ASSUME NEW v \in Workers, NEW i \in 1 .. Len(stack'[v])
      PROVE  Raised(v, i)'
  <2>1. CASE v # w
    BY <1>2, <1>3, <2>1 DEF OnlyStackOf
  <2>2. CASE v = w /\ i \in 1 .. n /\ i # n
    BY <1>2, <2>2
  <2>3. CASE v = w /\ i \in 1 .. n /\ i = n
    <3>1. Running(w)
      BY <2>3 DEF Running
    <3> QED  BY <2>3, <3>1
  <2> QED  BY <1>3, <2>1, <2>2, <2>3
<1> QED  BY <1>1, <1>3 DEF ChildInv

LEMMA ChildrenOnReturn ==
  ASSUME TypeOK, StackInv, FrameInv, ChildInv, NEW w \in Workers, Popped(w),
         Top(w).pc > Len(Program[Top(w).task]),
         NEW t, t = Top(w).task, Finishes(t, w), UNCHANGED <<begun, lost>>
  PROVE  ChildInv'
<1> PICK n : n = Len(stack[w])
  OBVIOUS
<1>1. /\ n \in Nat \ {0} /\ n \in 1 .. Len(stack[w]) /\ Top(w) = stack[w][n]
      /\ t \in Tasks
  BY TopFrame DEF Popped
<1>2. \A c : /\ Unqueued(c) => Unqueued(c)'
             /\ Fresh(c) => Fresh(c)'
             /\ Over(c) => Over(c)'
  BY DEF Finishes, Unqueued, Fresh, Over
<1>3. \A k \in 1 .. Len(Program[t]) : Starts(t, k) => Over(Child(t, k))
  <2> SUFFICES ASSUME NEW k \in 1 .. Len(Program[t]), Starts(t, k)
               PROVE  Over(Child(t, k))
    OBVIOUS
  <2> PICK f : f = Top(w)
    OBVIOUS
  <2>1. Raised(w, n)
    BY <1>1 DEF ChildInv
  <2>2. Len(Holding(f)) = 0 /\ ~(k >= f.pc)
    BY EmptyHanded DEF Popped
  <2>3. ~OnTop(w, n, Child(t, k))
    BY <1>1 DEF OnTop
  <2>4. \/ Over(Child(t, k))
        \/ \E j \in 1 .. Len(Holding(f)) : Holding(f)[j] = Child(t, k)
    BY <1>1, <2>1, <2>2, <2>3 DEF Raised
  <2> QED  BY <2>2, <2>4
<1>4. Top(w).home = Local => Over(t)'
  <2>1. Homed(w, n)
    BY <1>1 DEF FrameInv
  <2> QED  BY <1>1, <1>2, <2>1 DEF Homed, Over, Finishes
<1>5. ASSUME NEW u \in Tasks, NEW k \in 1 .. Len(Program[u]), Starts(u, k)
      PROVE  /\ begun'[u] = 0 => Fresh(Child(u, k))'
             /\ u \in ended' => Over(Child(u, k))'
  <2>1. /\ begun[u] = 0 => Fresh(Child(u, k))
        /\ u \in ended => Over(Child(u, k))
    BY <1>5 DEF ChildInv
  <2>2. u = t => Over(Child(u, k))
    BY <1>3, <1>5
  <2> PICK c : c = Child(u, k)
    OBVIOUS
  <2> QED  BY <1>2, <2>1, <2>2 DEF Finishes
<1>6. ASSUME NEW v \in Workers, NEW i \in 1 .. Len(stack'[v])
      PROVE  Raised(v, i)'
  <2> PICK f : f = stack[v][i]
    OBVIOUS
  <2>1. /\ i \in 1 .. Len(stack[v]) /\ stack'[v][i] = f
    BY <1>6, PoppedKeeps
  <2>2. ASSUME NEW c, OnTop(v, i, c)  PROVE OnTop(v, i, c)' \/ Over(c)'
    <3>1. /\ i + 1 \in 1 .. Len(stack[v]) /\ stack[v][i + 1].task = c
          /\ stack[v][i + 1].home = Local
      BY <2>1, <2>2, Elements DEF OnTop
    <3>2. CASE i + 1 \in 1 .. Len(stack'[v])
               /\ stack'[v][i + 1] = stack[v][i + 1]
      <4>1. stack'[v] \in Seq(FrameType)
        BY DEF Popped, OnlyStackOf
      <4>2. i < Len(stack'[v])
        BY <3>2, <4>1
      <4> QED  BY <3>1, <3>2, <4>2 DEF OnTop
    <3>3. CASE stack[v][i + 1] = Top(w)
      BY <1>4, <3>1, <3>3
    <3> QED  BY <3>1, <3>2, <3>3, PoppedKeeps
  <2> QED  BY <1>2, <2>1, <2>2, RaisedKept
<1> QED  BY <1>5, <1>6 DEF ChildInv

LEMMA ChildrenOnUnwind ==
  ASSUME TypeOK, ChildInv, NEW w \in Workers, Unwound(w)
  PROVE  ChildInv'
<1>1. deque' = deque /\ begun' = begun /\ ended' = ended
  BY DEF Unwound
<1>2. \A c : /\ Fresh(c) => Fresh(c)'
             /\ Over(c) => Over(c)'
  BY <1>1 DEF Unqueued, Fresh, Over
<1>3. ASSUME NEW u \in Tasks, NEW k \in 1 .. Len(Program[u]), Starts(u, k)
      PROVE  /\ begun'[u] = 0 => Fresh(Child(u, k))'
             /\ u \in ended' => Over(Child(u, k))'
  <2> PICK c : c = Child(u, k)
    OBVIOUS
  <2>1. /\ begun[u] = 0 => Fresh(c)
        /\ u \in ended => Over(c)
    BY <1>3 DEF ChildInv
  <2> QED  BY <1>1, <1>2, <2>1
<1>4. ASSUME NEW v \in Workers, NEW i \in 1 .. Len(stack'[v])
      PROVE  Raised(v, i)'
  <2> PICK f : f = stack[v][i]
    OBVIOUS
  <2>1. /\ v # w /\ i \in 1 .. Len(stack[v]) /\ stack'[v] = stack[v]
    BY <1>4, UnwoundKeeps DEF Unwound, OnlyStackOf
  <2>2. \A c : OnTop(v, i, c) => OnTop(v, i, c)'
    BY <2>1 DEF OnTop
  <2> QED  BY <1>2, <2>1, <2>2, RaisedKept
<1> QED  BY <1>3, <1>4 DEF ChildInv

------------------------------------------------------------------------------
(* The stacks after a step                                                 *)

SameTasks(v) ==
  /\ Len(deque'[v]) = Len(deque[v])
  /\ \A i \in 1 .. Len(deque[v]) : deque'[v][i].task = deque[v][i].task

LEMMA StackReplaced ==
  ASSUME TypeOK, StackInv, NEW w \in Workers, NEW g, Replaced(w, g),
         Continues(w, g), Carries(w, g),
         \A v \in Workers \ {w} : SameTasks(v)
  PROVE  StackInv'
<1> SUFFICES ASSUME NEW v \in Workers, NEW i \in 1 .. Len(stack'[v])
             PROVE  Aligned(v, i)'
  BY DEF StackInv
<1>1. CASE v = w
  BY <1>1, AlignedReplaced
<1>2. CASE v # w
  BY <1>2, AlignedOthers DEF Replaced, SameTasks
<1> QED  BY <1>1, <1>2

LEMMA StackGrown ==
  ASSUME TypeOK, StackInv, NEW w \in Workers, NEW g, NEW t \in Tasks,
         NEW h \in HomeType, NEW f, f = Frame(t, h, Len(deque'[w])),
         Grown(w, g, f), Continues(w, g), Carries(w, g),
         \A v \in Workers \ {w} : SameTasks(v)
  PROVE  StackInv'
<1> SUFFICES ASSUME NEW v \in Workers, NEW i \in 1 .. Len(stack'[v])
             PROVE  Aligned(v, i)'
  BY DEF StackInv
<1>1. CASE v = w
  BY <1>1, AlignedGrown
<1>2. CASE v # w
  BY <1>2, AlignedOthers DEF Grown, SameTasks
<1> QED  BY <1>1, <1>2

LEMMA StackStarted ==
  ASSUME TypeOK, StackInv, NEW w \in Workers, NEW t \in Tasks,
         NEW h \in HomeType, NEW f, f = Frame(t, h, Len(deque'[w])),
         Len(deque'[w]) \in Nat, Started(w, f),
         \A v \in Workers \ {w} : SameTasks(v)
  PROVE  StackInv'
<1> SUFFICES ASSUME NEW v \in Workers, NEW i \in 1 .. Len(stack'[v])
             PROVE  Aligned(v, i)'
  BY DEF StackInv
<1>1. CASE v = w
  BY <1>1, AlignedStarted
<1>2. CASE v # w
  BY <1>2, AlignedOthers DEF Started, SameTasks
<1> QED  BY <1>1, <1>2

(* The steps of the code replace the top frame, or push one more.          *)
LEMMA WithTopReplaced ==
  ASSUME TypeOK, NEW w \in Workers, Running(w), NEW g \in FrameType,
         stack' = [stack EXCEPT ![w] = WithTop(w, g)]
  PROVE  Replaced(w, g)
<1> DEFINE s == WithTop(w, g)
<1>1. /\ s \in Seq(FrameType) /\ Len(s) = Len(stack[w])
      /\ s[Len(stack[w])] = g
      /\ \A i \in 1 .. Len(stack[w]) - 1 : s[i] = stack[w][i]
  BY ReplacedTop
<1>2. stack \in [Workers -> Seq(FrameType)]
  BY DEF TypeOK
<1>3. stack' = [stack EXCEPT ![w] = s]
  OBVIOUS
<1> HIDE DEF s
<1> QED  BY <1>1, <1>2, <1>3 DEF Replaced, OnlyStackOf

LEMMA WithTopGrown ==
  ASSUME TypeOK, NEW w \in Workers, Running(w), NEW g \in FrameType,
         NEW f \in FrameType,
         stack' = [stack EXCEPT ![w] = Append(WithTop(w, g), f)]
  PROVE  Grown(w, g, f)
<1> DEFINE s == WithTop(w, g)
           r == Append(s, f)
           n == Len(stack[w])
<1>1. /\ s \in Seq(FrameType) /\ Len(s) = n /\ s[n] = g
      /\ \A i \in 1 .. n - 1 : s[i] = stack[w][i]
  BY ReplacedTop
<1>2. n \in Nat \ {0} /\ stack \in [Workers -> Seq(FrameType)]
  BY TopFrame DEF TypeOK
<1>3. stack' = [stack EXCEPT ![w] = r]
  OBVIOUS
<1> HIDE DEF s
<1>4. /\ r \in Seq(FrameType) /\ Len(r) = Len(s) + 1 /\ r[Len(s) + 1] = f
      /\ \A i \in 1 .. Len(s) : r[i] = s[i]
  BY <1>1, AppendOnTop
<1> HIDE DEF r
<1>5. /\ stack' \in [Workers -> Seq(FrameType)] /\ stack'[w] = r
      /\ \A v \in Workers \ {w} : stack'[v] = stack[v]
  BY <1>2, <1>3, <1>4
<1>6. n \in 1 .. n /\ \A i \in 1 .. n - 1 : i \in 1 .. n
  BY <1>2
<1> QED  BY <1>1, <1>4, <1>5, <1>6 DEF Grown, OnlyStackOf

LEMMA FrameTyped ==
  ASSUME NEW t \in Tasks, NEW h \in HomeType, NEW b \in Nat
  PROVE  /\ Frame(t, h, b) \in FrameType /\ Frame(t, h, b).task = t
         /\ Frame(t, h, b).home = h /\ Frame(t, h, b).pc = 1
BY DEF Frame, FrameType

(* The top frame goes on to at, or to its next operation.                  *)
Stays(w, a, v) == [Top(w) EXCEPT !.at = a, !.thief = v]
Goes(w)        == [Top(w) EXCEPT !.pc = @ + 1, !.at = "body",
                                 !.thief = NoWorker]

LEMMA StaysContinues ==
  ASSUME TypeOK, StackInv, NEW w \in Workers, Running(w),
         NEW a \in {"look", "leap"}, NEW v \in Workers \cup {NoWorker},
         a = "leap" => v \in Workers,
         Top(w).pc <= Len(Body(w)), Body(w)[Top(w).pc].do = "sync"
  PROVE  Continues(w, Stays(w, a, v)) /\ Stays(w, a, v).pc = Top(w).pc
<1> DEFINE f == Top(w)
           g == Stays(w, a, v)
<1>1. f \in FrameType /\ f.pc \in 1 .. Len(Program[f.task]) + 1
  <2>1. /\ f \in FrameType /\ f = stack[w][Len(stack[w])]
        /\ Len(stack[w]) \in 1 .. Len(stack[w])
    BY TopFrame
  <2>2. f.pc \in 1 .. Len(Program[f.task]) + 1
    BY <2>1, FrameOf
  <2> QED  BY <2>1, <2>2
<1>2. f.pc <= Len(Program[f.task]) /\ Program[f.task][f.pc].do = "sync"
  BY DEF Body
<1>3. g = [f EXCEPT !.at = a, !.thief = v]
  BY DEF Stays
<1> HIDE DEF f, g
<1>4. /\ g \in FrameType /\ g.task = f.task /\ g.base = f.base
      /\ g.home = f.home /\ g.pc = f.pc /\ g.at = a /\ g.thief = v
  BY <1>1, <1>3 DEF FrameType
<1>5. /\ g.pc \in 1 .. Len(Program[g.task]) + 1
      /\ g.pc <= Len(Program[g.task]) /\ Program[g.task][g.pc].do = "sync"
      /\ g.at = "leap" => g.thief \in Workers
  BY <1>1, <1>2, <1>4
<1> QED  BY <1>4, <1>5 DEF Continues, f, g

LEMMA GoesContinues ==
  ASSUME TypeOK, StackInv, NEW w \in Workers, Running(w),
         Top(w).pc <= Len(Body(w))
  PROVE  /\ Continues(w, Goes(w)) /\ Goes(w).pc = Top(w).pc + 1
         /\ Top(w).pc \in 1 .. Len(Program[Top(w).task])
<1> DEFINE f == Top(w)
           g == Goes(w)
<1>1. /\ f \in FrameType /\ f.pc \in 1 .. Len(Program[f.task]) + 1
      /\ Len(Program[f.task]) \in Nat
  <2>1. /\ f \in FrameType /\ f.task \in Tasks
        /\ f = stack[w][Len(stack[w])]
        /\ Len(stack[w]) \in 1 .. Len(stack[w])
    BY TopFrame
  <2>2. f.pc \in 1 .. Len(Program[f.task]) + 1
    BY <2>1, FrameOf
  <2> HIDE DEF f
  <2> QED  BY <2>1, <2>2, ProgramType
<1>2. f.pc <= Len(Program[f.task])
  BY DEF Body
<1>3. g = [f EXCEPT !.pc = @ + 1, !.at = "body", !.thief = NoWorker]
  BY DEF Goes
<1> DEFINE p == f.pc + 1
<1>p. p \in Nat /\ g = [f EXCEPT !.pc = p, !.at = "body", !.thief = NoWorker]
  <2>1. f.pc \in Nat
    BY <1>1 DEF FrameType
  <2> QED  BY <1>3, <2>1
<1> HIDE DEF f, g, p
<1>4. /\ g \in FrameType /\ g.task = f.task /\ g.base = f.base
      /\ g.home = f.home /\ g.pc = p /\ g.at = "body"
  BY <1>1, <1>p DEF FrameType
<1>5. /\ g.pc \in 1 .. Len(Program[g.task]) + 1
      /\ f.pc \in 1 .. Len(Program[f.task])
  BY <1>1, <1>2, <1>4 DEF p
<1> QED  BY <1>4, <1>5 DEF Continues, f, g, p

LEMMA TopHolds ==
  ASSUME TypeOK, StackInv, NEW w \in Workers, Running(w)
  PROVE  LET f == Top(w)
         IN  /\ f \in FrameType /\ f.base \in Nat /\ f.task \in Tasks
             /\ f.pc \in 1 .. Len(Program[f.task]) + 1
             /\ Len(Holding(f)) \in Nat
             /\ f.base + Len(Holding(f)) = Len(deque[w])
             /\ \A j \in 1 .. Len(Holding(f)) :
                  deque[w][f.base + j].task = Holding(f)[j]
<1> PICK f : f = Top(w)
  OBVIOUS
<1> PICK n : n = Len(stack[w])
  OBVIOUS
<1>1. f = stack[w][n] /\ n \in 1 .. Len(stack[w])
  BY TopFrame
<1>2. /\ f \in FrameType /\ f.base \in Nat /\ f.task \in Tasks
      /\ f.pc \in 1 .. Len(Program[f.task]) + 1
      /\ Len(Holding(f)) \in Nat
  BY <1>1, FrameOf
<1>3. Height(f) = f.base + Len(Holding(f)) /\ Height(f) = Len(deque[w])
  BY <1>1, FrameOf
<1>4. \A j \in 1 .. Len(Holding(f)) :
        deque[w][f.base + j].task = Holding(f)[j]
  <2>1. Aligned(w, n)
    BY <1>1 DEF StackInv
  <2>2. \A j \in 1 .. Len(Holding(stack[w][n])) :
          deque[w][stack[w][n].base + j].task = Holding(stack[w][n])[j]
    BY <2>1, Zenon DEF Aligned
  <2> QED  BY <1>1, <2>2, Zenon
<1> QED  BY <1>2, <1>3, <1>4

(* What the body's next operation does to what it holds.                   *)
LEMMA HoldsNext ==
  ASSUME TypeOK, StackInv, NEW w \in Workers, Running(w),
         NEW f, f = Top(w), f.pc <= Len(Program[f.task])
  PROVE  LET h == Holding(f)
             e == Held[f.task][f.pc]
         IN  /\ f.pc \in 1 .. Len(Program[f.task])
             /\ Operand(w) = Child(f.task, f.pc) /\ Operand(w) \in Tasks
             /\ Len(h) \in Nat /\ Len(e) \in Nat
             /\ Program[f.task][f.pc].do = "spawn" =>
                  /\ Len(e) = Len(h) + 1 /\ e[Len(h) + 1] = Operand(w)
                  /\ \A j \in 1 .. Len(h) : e[j] = h[j]
             /\ Program[f.task][f.pc].do = "sync" =>
                  /\ Len(h) = Len(e) + 1 /\ h[Len(e) + 1] = Operand(w)
                  /\ \A j \in 1 .. Len(e) : h[j] = e[j]
             /\ Program[f.task][f.pc].do = "call" => e = h
<1>1. /\ f.task \in Tasks /\ f.pc \in 1 .. Len(Program[f.task]) + 1
      /\ Operand(w) = Child(f.task, f.pc)
  BY TopHolds DEF Operand, Body, Child
<1>2. Len(Program[f.task]) \in Nat
  BY <1>1, ProgramType
<1>3. /\ f.pc \in 1 .. Len(Program[f.task])
      /\ f.pc - 1 \in 0 .. Len(Program[f.task])
      /\ f.pc \in 0 .. Len(Program[f.task])
  BY <1>1, <1>2
<1> PICK k : k = f.pc
  OBVIOUS
<1>4. /\ Child(f.task, k) \in Tasks
      /\ Len(Held[f.task][k - 1]) \in Nat /\ Len(Held[f.task][k]) \in Nat
  BY <1>1, <1>3, ProgramType
<1>5. LET h == Held[f.task][k - 1]
          e == Held[f.task][k]
      IN  /\ Program[f.task][k].do = "spawn" =>
               /\ Len(e) = Len(h) + 1 /\ e[Len(h) + 1] = Child(f.task, k)
               /\ \A j \in 1 .. Len(h) : e[j] = h[j]
          /\ Program[f.task][k].do = "sync" =>
               /\ Len(h) = Len(e) + 1 /\ h[Len(e) + 1] = Child(f.task, k)
               /\ \A j \in 1 .. Len(e) : h[j] = e[j]
          /\ Program[f.task][k].do = "call" => e = h
  BY ZenonT(30), <1>1, <1>3, HeldMoves
<1> QED  BY <1>1, <1>3, <1>4, <1>5 DEF Holding

(* A sync's token is the newest item.                                      *)
LEMMA AtSync ==
  ASSUME TypeOK, StackInv, NEW w \in Workers, Running(w),
         Top(w).pc <= Len(Body(w)), Body(w)[Top(w).pc].do = "sync"
  PROVE  /\ deque[w] # <<>> /\ Len(deque[w]) \in 1 .. Len(deque[w])
         /\ Newest(deque[w]) = deque[w][Len(deque[w])]
         /\ Newest(deque[w]).task = Operand(w)
         /\ Top(w).base <= Len(deque[w]) - 1
<1> PICK f : f = Top(w)
  OBVIOUS
<1> DEFINE h == Holding(f)
           e == Held[f.task][f.pc]
<1>1. /\ f.base \in Nat /\ Len(h) \in Nat /\ f.base + Len(h) = Len(deque[w])
      /\ \A j \in 1 .. Len(h) : deque[w][f.base + j].task = h[j]
  BY TopHolds
<1>2. /\ Len(e) \in Nat /\ Len(h) = Len(e) + 1 /\ h[Len(e) + 1] = Operand(w)
  BY HoldsNext DEF Body
<1> HIDE DEF h, e
<1>3. /\ Len(h) \in 1 .. Len(h) /\ f.base + Len(h) = Len(deque[w])
      /\ Len(deque[w]) \in 1 .. Len(deque[w]) /\ h[Len(h)] = Operand(w)
      /\ f.base <= Len(deque[w]) - 1
  BY <1>1, <1>2
<1>4. deque[w][Len(deque[w])].task = Operand(w)
  BY <1>1, <1>3
<1>5. deque[w] # <<>>
  BY <1>3
<1> QED  BY <1>3, <1>4, <1>5 DEF Newest

LEMMA CarriesSame ==
  ASSUME TypeOK, StackInv, NEW w \in Workers, Running(w),
         NEW g, Continues(w, g), g.pc = Top(w).pc, SameTasks(w)
  PROVE  Carries(w, g)
<1> PICK f : f = Top(w)
  OBVIOUS
<1>1. /\ f.base \in Nat /\ Len(Holding(f)) \in Nat
      /\ f.base + Len(Holding(f)) = Len(deque[w])
      /\ \A j \in 1 .. Len(Holding(f)) :
           deque[w][f.base + j].task = Holding(f)[j]
  BY TopHolds
<1>2. g.base = f.base /\ Holding(g) = Holding(f)
  BY DEF Continues, Holding
<1>3. /\ Len(deque'[w]) = Len(deque[w])
      /\ \A i \in 1 .. Len(deque[w]) : deque'[w][i].task = deque[w][i].task
  BY DEF SameTasks
<1> DEFINE h == Holding(f)
<1> HIDE DEF h
<1>4. /\ \A j \in 1 .. Len(h) : f.base + j \in 1 .. Len(deque[w])
      /\ \A l \in 1 .. f.base : l \in 1 .. Len(deque[w])
  BY <1>1 DEF h
<1> QED  BY <1>1, <1>2, <1>3, <1>4 DEF Carries, Height, h

LEMMA CarriesOn ==
  ASSUME TypeOK, StackInv, NEW w \in Workers, Running(w),
         NEW f, f = Top(w), f.pc <= Len(Program[f.task]),
         NEW g, Continues(w, g), g.pc = f.pc + 1,
         NEW n, n = Len(deque[w]),
         \/ /\ Program[f.task][f.pc].do = "spawn"
            /\ Len(deque'[w]) = n + 1 /\ deque'[w][n + 1].task = Operand(w)
            /\ \A i \in 1 .. n : deque'[w][i].task = deque[w][i].task
         \/ Program[f.task][f.pc].do = "call" /\ SameTasks(w)
         \/ /\ Program[f.task][f.pc].do = "sync"
            /\ Len(deque'[w]) = n - 1
            /\ \A i \in 1 .. n - 1 : deque'[w][i].task = deque[w][i].task
  PROVE  Carries(w, g)
<1> DEFINE h == Holding(f)
           e == Held[f.task][f.pc]
           b == f.base
<1>1. /\ b \in Nat /\ Len(h) \in Nat /\ b + Len(h) = n
      /\ \A j \in 1 .. Len(h) : deque[w][b + j].task = h[j]
      /\ f.pc \in 1 .. Len(Program[f.task]) + 1
  BY TopHolds
<1>2. /\ Len(e) \in Nat
      /\ Program[f.task][f.pc].do = "spawn" =>
           /\ Len(e) = Len(h) + 1 /\ e[Len(h) + 1] = Operand(w)
           /\ \A j \in 1 .. Len(h) : e[j] = h[j]
      /\ Program[f.task][f.pc].do = "sync" =>
           /\ Len(h) = Len(e) + 1
           /\ \A j \in 1 .. Len(e) : h[j] = e[j]
      /\ Program[f.task][f.pc].do = "call" => e = h
  BY HoldsNext
<1>3. g.base = b /\ Holding(g) = e
  <2>1. g.task = f.task /\ g.base = f.base
    BY DEF Continues
  <2>2. g.pc - 1 = f.pc
    BY <1>1
  <2> QED  BY <2>1, <2>2 DEF Holding
<1> HIDE DEF h, e, b
<1> SUFFICES /\ b + Len(e) = Len(deque'[w])
             /\ \A j \in 1 .. Len(e) : deque'[w][b + j].task = e[j]
             /\ \A l \in 1 .. b : deque'[w][l].task = deque[w][l].task
  BY <1>3 DEF Carries, Height
<1>4. CASE /\ Program[f.task][f.pc].do = "spawn"
           /\ Len(deque'[w]) = n + 1 /\ deque'[w][n + 1].task = Operand(w)
           /\ \A i \in 1 .. n : deque'[w][i].task = deque[w][i].task
  <2>1. /\ Len(e) = Len(h) + 1 /\ e[Len(h) + 1] = Operand(w)
        /\ \A j \in 1 .. Len(h) : e[j] = h[j]
    BY <1>2, <1>4
  <2>2. /\ \A j \in 1 .. Len(h) : b + j \in 1 .. n
        /\ \A l \in 1 .. b : l \in 1 .. n
        /\ \A j \in 1 .. Len(e) : \/ j \in 1 .. Len(h)
                                  \/ j = Len(h) + 1 /\ b + j = n + 1
    <3> DEFINE m == Len(h)
    <3>1. m \in Nat /\ b \in Nat /\ n \in Nat /\ n = b + m /\ Len(e) = m + 1
      BY <1>1, <2>1
    <3> HIDE DEF m
    <3>2. \A j \in 1 .. m : b + j \in 1 .. n
      BY <3>1, InRange
    <3>3. \A l \in 1 .. b : l \in 1 .. n
      BY <3>1
    <3>4. \A j \in 1 .. m + 1 : \/ j \in 1 .. m
                                \/ j = m + 1 /\ b + j = n + 1
      BY <3>1
    <3> QED  BY <3>1, <3>2, <3>3, <3>4 DEF m
  <2>3. b + Len(e) = Len(deque'[w])
    BY <1>1, <1>4, <2>1
  <2>4. ASSUME NEW j \in 1 .. Len(e)
        PROVE  deque'[w][b + j].task = e[j]
    BY SMTT(20), <1>1, <1>4, <2>1, <2>2, <2>4
  <2> QED  BY <1>4, <2>2, <2>3, <2>4
<1>5. CASE Program[f.task][f.pc].do = "call" /\ SameTasks(w)
  <2>1. /\ e = h /\ Len(deque'[w]) = n
        /\ \A i \in 1 .. n : deque'[w][i].task = deque[w][i].task
    BY <1>2, <1>5 DEF SameTasks
  <2>2. /\ \A j \in 1 .. Len(h) : b + j \in 1 .. n
        /\ \A l \in 1 .. b : l \in 1 .. n
    BY <1>1
  <2> QED  BY <1>1, <2>1, <2>2
<1>6. CASE /\ Program[f.task][f.pc].do = "sync"
           /\ Len(deque'[w]) = n - 1
           /\ \A i \in 1 .. n - 1 : deque'[w][i].task = deque[w][i].task
  <2>1. /\ Len(h) = Len(e) + 1
        /\ \A j \in 1 .. Len(e) : h[j] = e[j]
    BY <1>2, <1>6
  <2>2. /\ \A j \in 1 .. Len(e) : b + j \in 1 .. n - 1 /\ j \in 1 .. Len(h)
        /\ \A l \in 1 .. b : l \in 1 .. n - 1
        /\ b + Len(e) = n - 1
    BY <1>1, <1>2, <2>1
  <2> QED  BY <1>1, <1>6, <2>1, <2>2
<1> QED  BY <1>4, <1>5, <1>6

LEMMA CarriesPopped ==
  ASSUME TypeOK, StackInv, NEW w \in Workers, Running(w),
         Top(w).pc <= Len(Body(w)), Body(w)[Top(w).pc].do = "sync",
         NEW g, Continues(w, g), g.pc = Top(w).pc + 1,
         Len(deque'[w]) = Len(deque[w]) - 1,
         \A i \in 1 .. Len(deque[w]) - 1 :
           deque'[w][i].task = deque[w][i].task
  PROVE  Carries(w, g)
<1> PICK f : f = Top(w)
  OBVIOUS
<1> PICK n : n = Len(deque[w])
  OBVIOUS
<1>1. f.pc <= Len(Program[f.task]) /\ Program[f.task][f.pc].do = "sync"
  BY DEF Body
<1>2. /\ Len(deque'[w]) = n - 1
      /\ \A i \in 1 .. n - 1 : deque'[w][i].task = deque[w][i].task
  OBVIOUS
<1> QED  BY <1>1, <1>2, CarriesOn

LEMMA AtLook ==
  ASSUME TypeOK, StackInv, NEW w \in Workers, Running(w), Top(w).at # "body"
  PROVE  /\ Top(w).pc <= Len(Body(w)) /\ Body(w)[Top(w).pc].do = "sync"
         /\ Top(w).at = "leap" => Top(w).thief \in Workers
<1> PICK f : f = Top(w)
  OBVIOUS
<1> PICK n : n = Len(stack[w])
  OBVIOUS
<1>1. f = stack[w][n] /\ n \in 1 .. Len(stack[w])
  BY TopFrame
<1>2. /\ f.pc <= Len(Program[f.task]) /\ Program[f.task][f.pc].do = "sync"
      /\ f.at = "leap" => f.thief \in Workers
  BY <1>1, FrameOf
<1> QED  BY <1>2 DEF Body

------------------------------------------------------------------------------
(* Every step preserves PoolInv                                            *)

LEMMA NobodysTask ==
  ASSUME NEW w \in Workers
  PROVE  NoTask \notin Tasks /\ Ours(w, NoTask)
BY ProgramAssumption, ProgramType DEF Ours

LEMMA SameDeques ==
  ASSUME TypeOK, deque' = deque
  PROVE  /\ Shrinks /\ StolenStay /\ \A v \in Workers : SameTasks(v)
         /\ \A c : Unqueued(c)' <=> Unqueued(c)
BY DEF Shrinks, StolenStay, SameTasks, Unqueued

(* A worker at its sync looks, leaps, or looks again.                      *)
LEMMA TopOnlyInv ==
  ASSUME PoolInv, NEW w \in Workers, Running(w), NEW g, Replaced(w, g),
         Continues(w, g), g.pc = Top(w).pc, Top(w).pc <= Len(Body(w)),
         Body(w)[Top(w).pc].do = "sync",
         UNCHANGED <<deque, begun, ended, panics>>
  PROVE  PoolInv'
<1> USE DEF PoolInv, panics
<1>1. TypeOK'
  BY DEF TypeOK, Replaced, OnlyStackOf
<1>2. /\ Shrinks /\ StolenStay /\ \A v \in Workers : SameTasks(v)
      /\ \A c : Unqueued(c)' <=> Unqueued(c)
  BY SameDeques
<1>3. Keeps /\ NoNewFrame
  BY ReplacedKeeps
<1>4. StackInv'
  BY <1>2, CarriesSame, StackReplaced
<1>5. ItemInv'
  BY <1>2, <1>3, ItemsShrink DEF Keeps
<1>6. FrameInv'
  BY <1>2, <1>3, FramesKept
<1>7. ChildInv'
  <2> PICK n : n = Len(stack[w])
    OBVIOUS
  <2> PICK f : f = Top(w)
    OBVIOUS
  <2>1. OverStays /\ FreshStays(NoTask) /\ Ours(w, NoTask)
    BY <1>2, NobodysTask DEF OverStays, FreshStays, Over, Fresh
  <2>2. /\ stack'[w][n] = g /\ g.task = f.task /\ g.pc = f.pc
        /\ Program[f.task][f.pc].do = "sync"
        /\ OnlyStackOf(w) /\ Len(stack'[w]) = n
        /\ \A i \in 1 .. n - 1 : stack'[w][i] = stack[w][i]
    BY DEF Replaced, Continues, Body
  <2>3. Raised(w, n)'
    BY <2>1, <2>2, RaisedStays
  <2> QED  BY <1>3, <2>1, <2>2, <2>3, ChildrenOn
<1> QED  BY <1>1, <1>4, <1>5, <1>6, <1>7

LEMMA SyncStolenInv ==
  ASSUME PoolInv, NEW w \in Workers, SyncStolen(w)
  PROVE  PoolInv'
<1> DEFINE g == Stays(w, "look", NoWorker)
<1>1. /\ TypeOK /\ StackInv /\ Running(w) /\ Top(w).pc <= Len(Body(w))
      /\ Body(w)[Top(w).pc].do = "sync"
      /\ UNCHANGED <<deque, begun, ended, panics>>
  BY DEF PoolInv, SyncStolen, Doing, InBody
<1>2. stack' = [stack EXCEPT ![w] = WithTop(w, g)]
  BY DEF SyncStolen, Looking, Stays
<1>3. Continues(w, g) /\ g.pc = Top(w).pc
  BY <1>1, StaysContinues
<1> HIDE DEF g
<1>4. Replaced(w, g)
  BY <1>1, <1>2, <1>3, WithTopReplaced DEF Continues
<1> QED  BY <1>1, <1>3, <1>4, TopOnlyInv

LEMMA LeapFailInv ==
  ASSUME PoolInv, NEW w \in Workers, LeapFail(w)
  PROVE  PoolInv'
<1> DEFINE g == Stays(w, "look", NoWorker)
<1>1. /\ TypeOK /\ StackInv /\ Running(w) /\ Top(w).at = "leap"
      /\ UNCHANGED <<deque, begun, ended, panics>>
  BY DEF PoolInv, LeapFail
<1>2. Top(w).pc <= Len(Body(w)) /\ Body(w)[Top(w).pc].do = "sync"
  BY <1>1, AtLook
<1>3. stack' = [stack EXCEPT ![w] = WithTop(w, g)]
  BY DEF LeapFail, Looking, Stays
<1>4. Continues(w, g) /\ g.pc = Top(w).pc
  BY <1>1, <1>2, StaysContinues
<1> HIDE DEF g
<1>5. Replaced(w, g)
  BY <1>1, <1>3, <1>4, WithTopReplaced DEF Continues
<1> QED  BY <1>1, <1>2, <1>4, <1>5, TopOnlyInv

LEMMA LookBusyInv ==
  ASSUME PoolInv, NEW w \in Workers, LookBusy(w)
  PROVE  PoolInv'
<1> PICK v : v = Newest(deque[w]).thief
  OBVIOUS
<1> DEFINE g == Stays(w, "leap", v)
<1>1. /\ TypeOK /\ StackInv /\ ItemInv /\ Running(w) /\ Top(w).at = "look"
      /\ Newest(deque[w]).status = "stolen"
      /\ UNCHANGED <<deque, begun, ended, panics>>
  BY DEF PoolInv, LookBusy
<1>2. Top(w).pc <= Len(Body(w)) /\ Body(w)[Top(w).pc].do = "sync"
  BY <1>1, AtLook
<1>3. /\ Len(deque[w]) \in 1 .. Len(deque[w])
      /\ Newest(deque[w]) = deque[w][Len(deque[w])]
  BY <1>1, <1>2, AtSync
<1>4. v \in Workers
  <2>1. Tracked(w, Len(deque[w]))
    BY <1>1, <1>3 DEF ItemInv
  <2> QED  BY <1>1, <1>3, <2>1 DEF Tracked
<1>5. stack' = [stack EXCEPT ![w] = WithTop(w, g)]
  BY DEF LookBusy, Stays
<1>6. Continues(w, g) /\ g.pc = Top(w).pc
  BY <1>1, <1>2, <1>4, StaysContinues
<1> HIDE DEF g
<1>7. Replaced(w, g)
  BY <1>1, <1>5, <1>6, WithTopReplaced DEF Continues
<1> QED  BY <1>1, <1>2, <1>6, <1>7, TopOnlyInv

(* The operation that starts a child: fresh, and nobody else's.            *)
LEMMA NextChild ==
  ASSUME PoolInv, NEW w \in Workers, Running(w), Top(w).pc <= Len(Body(w)),
         Body(w)[Top(w).pc].do # "sync"
  PROVE  LET c == Operand(w)
         IN  /\ c \in Tasks /\ c \notin Mains /\ Fresh(c) /\ Ours(w, c)
<1> USE DEF PoolInv
<1> PICK f : f = Top(w)
  OBVIOUS
<1> PICK n : n = Len(stack[w])
  OBVIOUS
<1> PICK c : c = Operand(w)
  OBVIOUS
<1>1. f = stack[w][n] /\ n \in 1 .. Len(stack[w]) /\ f.task \in Tasks
  BY TopFrame
<1>2. /\ f.pc \in 1 .. Len(Program[f.task]) /\ c = Child(f.task, f.pc)
      /\ c \in Tasks
  BY HoldsNext DEF Body
<1>3. Starts(f.task, f.pc)
  BY DEF Starts, Body
<1>4. Raised(w, n)
  BY <1>1 DEF ChildInv
<1>5. f.pc >= f.pc
  BY <1>1, <1>2, ProgramType
<1>6. Fresh(c)
  BY <1>1, <1>2, <1>3, <1>4, <1>5 DEF Raised
<1>7. c \notin Mains /\ Ours(w, c)
  BY <1>1, <1>2, <1>3, OneParent DEF Ours
<1> QED  BY <1>2, <1>6, <1>7

LEMMA SpawnInv ==
  ASSUME PoolInv, NEW w \in Workers, Spawn(w)
  PROVE  PoolInv'
<1> USE DEF PoolInv
<1> DEFINE g == Goes(w)
<1> PICK f : f = Top(w)
  OBVIOUS
<1> PICK c : c = Operand(w)
  OBVIOUS
<1> PICK m : m = Len(deque[w])
  OBVIOUS
<1>1. /\ Running(w) /\ Top(w).pc <= Len(Body(w))
      /\ Body(w)[Top(w).pc].do = "spawn"
      /\ UNCHANGED <<begun, ended, lost, dead>>
      /\ stack' = [stack EXCEPT ![w] = WithTop(w, g)]
      /\ deque' = [deque EXCEPT ![w] = Append(deque[w], Item(c))]
  BY DEF Spawn, Doing, InBody, panics, Advanced, Goes, TypeOK
<1>2. /\ Continues(w, g) /\ g.pc = f.pc + 1
      /\ f.pc \in 1 .. Len(Program[f.task])
  BY <1>1, GoesContinues
<1> HIDE DEF g
<1>3. Replaced(w, g)
  BY <1>1, <1>2, WithTopReplaced DEF Continues
<1>4. c \in Tasks /\ c \notin Mains /\ Fresh(c) /\ Ours(w, c)
  BY <1>1, NextChild
<1>5. Keeps /\ NoNewFrame
  BY <1>2, <1>3, ReplacedKeeps
<1>6. /\ deque' \in [Workers -> Seq(ItemType)]
      /\ \A v \in Workers \ {w} : deque'[v] = deque[v]
      /\ m \in Nat /\ Len(deque'[w]) = m + 1 /\ deque'[w][m + 1] = Item(c)
      /\ \A i \in 1 .. m : deque'[w][i] = deque[w][i]
  <2> DEFINE q == deque[w]
             r == Append(q, Item(c))
  <2>1. Item(c) \in ItemType /\ q \in Seq(ItemType)
        /\ deque \in [Workers -> Seq(ItemType)]
    BY <1>4 DEF Item, ItemType, TypeOK
  <2>2. deque' = [deque EXCEPT ![w] = r]
    BY <1>1
  <2>3. m = Len(q) /\ q = deque[w]
    OBVIOUS
  <2> HIDE DEF q
  <2>4. /\ r \in Seq(ItemType) /\ Len(q) \in Nat /\ Len(r) = Len(q) + 1
        /\ r[Len(q) + 1] = Item(c) /\ \A i \in 1 .. Len(q) : r[i] = q[i]
    BY <2>1, AppendOnTop
  <2> HIDE DEF r
  <2>5. /\ deque' \in [Workers -> Seq(ItemType)] /\ deque'[w] = r
        /\ \A v \in Workers \ {w} : deque'[v] = deque[v]
    BY <2>1, <2>2, <2>4
  <2> QED  BY <2>3, <2>4, <2>5
<1>7. TypeOK'
  BY <1>1, <1>3, <1>6 DEF TypeOK, Replaced, OnlyStackOf
<1>8. Item(c).task = c /\ begun[c] = 0 /\ c \notin ended
  BY <1>4 DEF Item, Fresh, FrameInv
<1>9. StackInv'
  <2>1. Carries(w, g)
    <3>1. /\ Running(w) /\ f.pc <= Len(Program[f.task])
          /\ Program[f.task][f.pc].do = "spawn" /\ g.pc = f.pc + 1
          /\ Continues(w, g)
      BY <1>1, <1>2 DEF Body
    <3>2. /\ Len(deque'[w]) = m + 1 /\ deque'[w][m + 1].task = Operand(w)
          /\ \A i \in 1 .. m : deque'[w][i].task = deque[w][i].task
      BY <1>6, <1>8
    <3> QED  BY <3>1, <3>2, CarriesOn
  <2>2. \A v \in Workers \ {w} : SameTasks(v)
    BY <1>6 DEF SameTasks
  <2> QED  BY <1>2, <1>3, <2>1, <2>2, StackReplaced
<1>10. ItemInv'
  BY <1>1, <1>4, <1>5, <1>6, ItemPushed
<1>11. \A d : d # c /\ Unqueued(d) => Unqueued(d)'
  <2>1. \A v \in Workers : \A i \in 1 .. Len(deque'[v]) :
          \/ i \in 1 .. Len(deque[v]) /\ deque'[v][i] = deque[v][i]
          \/ deque'[v][i].task = c
    BY <1>6, <1>8
  <2> QED  BY <2>1 DEF Unqueued
<1>12. FrameInv'
  <2>1. StolenStay
    <3>1. \A i \in 1 .. m : i \in 1 .. Len(deque'[w])
      BY <1>6
    <3> QED  BY <1>6, <3>1 DEF StolenStay
  <2> QED  BY <1>1, <1>5, <1>8, <1>11, <2>1, FramesKept
<1>13. ChildInv'
  <2> PICK n : n = Len(stack[w])
    OBVIOUS
  <2>1. OverStays /\ FreshStays(c)
    BY <1>1, <1>8, <1>11 DEF OverStays, FreshStays, Over, Fresh
  <2>2. /\ stack'[w][n] = g /\ g.task = f.task
        /\ OnlyStackOf(w) /\ Len(stack'[w]) = n
        /\ \A i \in 1 .. n - 1 : stack'[w][i] = stack[w][i]
        /\ f.pc <= Len(Program[f.task])
        /\ Program[f.task][f.pc].do = "spawn"
    BY <1>1, <1>2, <1>3 DEF Replaced, Continues, Body
  <2>3. Raised(w, n)'
    <3>1. Running(w) /\ g.pc = f.pc + 1 /\ Ours(w, c)
      BY <1>1, <1>2, <1>4
    <3> QED  BY <2>1, <2>2, <3>1, RaisedOn
  <2> QED  BY <1>1, <1>4, <1>5, <2>1, <2>2, <2>3, ChildrenOn
<1> QED  BY <1>7, <1>9, <1>10, <1>12, <1>13

LEMMA CallInv ==
  ASSUME PoolInv, NEW w \in Workers, Call(w)
  PROVE  PoolInv'
<1> USE DEF PoolInv
<1> DEFINE g == Goes(w)
<1> PICK f : f = Top(w)
  OBVIOUS
<1> PICK c : c = Operand(w)
  OBVIOUS
<1> PICK e : e = Frame(c, Local, Len(deque[w]))
  OBVIOUS
<1>1. /\ Running(w) /\ Top(w).pc <= Len(Body(w))
      /\ Body(w)[Top(w).pc].do = "call"
      /\ UNCHANGED <<deque, ended, lost, dead>> /\ Enter(c)
      /\ stack' = [stack EXCEPT ![w] = Append(WithTop(w, g), e)]
  BY DEF Call, Doing, InBody, panics, Advanced, Goes
<1>2. /\ Continues(w, g) /\ g.pc = f.pc + 1
      /\ f.pc \in 1 .. Len(Program[f.task])
  BY <1>1, GoesContinues
<1> HIDE DEF g
<1>3. c \in Tasks /\ c \notin Mains /\ Fresh(c) /\ Ours(w, c)
  BY <1>1, NextChild
<1>4. /\ Local \in HomeType /\ e = Frame(c, Local, Len(deque'[w]))
      /\ e \in FrameType /\ e.task = c /\ e.home = Local /\ e.pc = 1
  <2>1. Local \in HomeType /\ Len(deque[w]) \in Nat
    BY Elements DEF Local, HomeType
  <2> QED  BY <1>1, <1>3, <2>1, FrameTyped
<1>5. Grown(w, g, e)
  BY <1>1, <1>2, <1>4, WithTopGrown DEF Continues
<1>6. Keeps /\ NewFrame(w, e)
  BY <1>2, <1>5, GrownKeeps
<1>7. begun[c] = 0 /\ Unqueued(c) /\ c \notin ended /\ Begins(c)
  BY <1>1, <1>3, BeginsTask DEF Fresh, FrameInv
<1>8. TypeOK'
  BY <1>1, <1>5, <1>7 DEF TypeOK, Grown, OnlyStackOf, Begins
<1>9. /\ Shrinks /\ StolenStay /\ \A v \in Workers : SameTasks(v)
      /\ \A d : Unqueued(d)' <=> Unqueued(d)
  BY <1>1, SameDeques
<1>10. StackInv'
  <2>1. Carries(w, g)
    BY <1>1, <1>2, <1>9, CarriesOn DEF Body
  <2> QED  BY <1>2, <1>3, <1>4, <1>5, <1>9, <2>1, StackGrown
<1>11. ItemInv'
  <2>1. \A v \in Workers : \A i \in 1 .. Len(deque'[v]) :
          begun'[deque[v][i].task] = begun[deque[v][i].task]
    BY <1>1, <1>7, Elements DEF Begins, Unqueued
  <2> QED  BY <1>1, <1>6, <1>9, <2>1, ItemsShrink DEF Keeps
<1>12. FrameInv'
  BY <1>1, <1>4, <1>6, <1>7, <1>9, FramePushed
<1>13. ChildInv'
  <2> PICK n : n = Len(stack[w])
    OBVIOUS
  <2>1. OverStays /\ FreshStays(c)
    BY <1>1, <1>7, <1>9 DEF OverStays, FreshStays, Over, Fresh, Begins
  <2>2. /\ n \in Nat \ {0} /\ stack'[w][n] = g /\ g.task = f.task
        /\ OnlyStackOf(w) /\ Len(stack'[w]) = n + 1 /\ stack'[w][n + 1] = e
        /\ \A i \in 1 .. n - 1 : stack'[w][i] = stack[w][i]
        /\ f.pc <= Len(Program[f.task])
        /\ Program[f.task][f.pc].do = "call" /\ c = Child(f.task, f.pc)
    BY <1>1, <1>2, <1>5, TopFrame
    DEF Grown, Continues, Body, Operand, Child
  <2>3. OnTop(w, n, c)'
    BY <1>4, <2>2 DEF OnTop
  <2>4. Raised(w, n)'
    <3>1. /\ Running(w) /\ g.pc = f.pc + 1 /\ Ours(w, c)
          /\ OnTop(w, n, Child(f.task, f.pc))'
      BY <1>1, <1>2, <1>3, <2>2, <2>3
    <3> QED  BY <2>1, <2>2, <3>1, RaisedOn
  <2>5. Raised(w, n + 1)'
    BY <1>3, <1>4, <1>7, <2>1, <2>2, RaisedNew
  <2>6. /\ \A i \in 1 .. Len(stack'[w]) : i \in 1 .. n \/ Raised(w, i)'
        /\ \A t \in Tasks : begun'[t] = 0 => begun[t] = 0
    BY <1>7, <2>2, <2>5 DEF Begins
  <2> QED  BY <1>1, <1>3, <1>6, <2>1, <2>2, <2>4, <2>6, ChildrenOn
<1> QED  BY <1>8, <1>10, <1>11, <1>12, <1>13

(* The newest item, the m-th, is popped; its task is t.                    *)
Pops(w, m, t) ==
  /\ deque' \in [Workers -> Seq(ItemType)]
  /\ Len(deque'[w]) = m - 1
  /\ \A i \in 1 .. m - 1 : deque'[w][i].task = deque[w][i].task
  /\ \A v \in Workers \ {w} : SameTasks(v)
  /\ Shrinks /\ Unqueued(t)'
  /\ \A d : Unqueued(d) => Unqueued(d)'
  /\ \A v \in Workers : \A i \in 1 .. Len(deque'[v]) :
       deque[v][i].task # t
  /\ deque[w][m].status # "stolen" => StolenStay
  /\ Tracked(w, m) /\ t \in Tasks /\ ~Unqueued(t)

LEMMA PopEffect ==
  ASSUME TypeOK, ItemInv, NEW w \in Workers, NEW m, m = Len(deque[w]),
         m \in 1 .. m, NEW t, t = deque[w][m].task,
         deque' = [deque EXCEPT ![w] = Older(deque[w])]
  PROVE  Pops(w, m, t)
<1> DEFINE r == Older(deque[w])
<1>1. /\ deque \in [Workers -> Seq(ItemType)] /\ m \in Nat
      /\ m \in 1 .. Len(deque[w]) /\ deque[w] # <<>> /\ t \in Tasks
  BY Elements DEF TypeOK
<1>2. /\ r \in Seq(ItemType) /\ Len(r) = m - 1
      /\ \A i \in 1 .. m - 1 : r[i] = deque[w][i]
  <2>1. deque[w] \in Seq(ItemType)
    BY <1>1
  <2> QED  BY <1>1, <2>1, OlderProperties
<1>3. deque' = [deque EXCEPT ![w] = r]
  OBVIOUS
<1> HIDE DEF r
<1>4. /\ deque' \in [Workers -> Seq(ItemType)] /\ deque'[w] = r
      /\ \A v \in Workers \ {w} : deque'[v] = deque[v]
  BY <1>1, <1>2, <1>3
<1>5. \A v \in Workers : \A i \in 1 .. Len(deque'[v]) :
        /\ i \in 1 .. Len(deque[v]) /\ deque'[v][i] = deque[v][i]
        /\ ~(v = w /\ i = m)
  <2>1. \A i \in 1 .. m - 1 : i \in 1 .. m /\ i # m
    BY <1>1
  <2> QED  BY <1>2, <1>4, <2>1
<1>6. /\ Tracked(w, m)
      /\ \A v \in Workers : \A i \in 1 .. Len(deque[v]) :
           deque[v][i].task = t => v = w /\ i = m
  <2>1. Tracked(w, m)
    BY <1>1 DEF ItemInv
  <2> QED  BY <2>1 DEF Tracked
<1>7. /\ Shrinks /\ \A d : Unqueued(d) => Unqueued(d)'
      /\ \A v \in Workers : \A i \in 1 .. Len(deque'[v]) :
           deque[v][i].task # t /\ deque'[v][i].task # t
  BY <1>5, <1>6 DEF Shrinks, Unqueued
<1>8. Unqueued(t)' /\ ~Unqueued(t)
  BY <1>1, <1>7 DEF Unqueued
<1>9. deque[w][m].status # "stolen" => StolenStay
  <2>1. \A i \in 1 .. m : i = m \/ i \in 1 .. m - 1
    BY <1>1
  <2> QED  BY <1>2, <1>4, <2>1 DEF StolenStay
<1>10. \A v \in Workers \ {w} : SameTasks(v)
  BY <1>4 DEF SameTasks
<1> QED  BY <1>1, <1>2, <1>4, <1>6, <1>7, <1>8, <1>9, <1>10 DEF Pops

LEMMA SyncWorkInv ==
  ASSUME PoolInv, NEW w \in Workers, SyncWork(w)
  PROVE  PoolInv'
<1> USE DEF PoolInv
<1> DEFINE g == Goes(w)
<1> PICK f : f = Top(w)
  OBVIOUS
<1> PICK m : m = Len(deque[w])
  OBVIOUS
<1> PICK c : c = Operand(w)
  OBVIOUS
<1> PICK e : e = Frame(c, Local, m - 1)
  OBVIOUS
<1>1. /\ Running(w) /\ Top(w).pc <= Len(Body(w))
      /\ Body(w)[Top(w).pc].do = "sync"
      /\ UNCHANGED <<ended, lost, dead>>
      /\ deque' = [deque EXCEPT ![w] = Older(deque[w])]
  BY DEF SyncWork, Doing, InBody, panics, TypeOK
<1>2. m \in 1 .. m /\ Newest(deque[w]) = deque[w][m] /\ c = deque[w][m].task
  BY <1>1, AtSync
<1>3. /\ deque[w][m].status = "ready" /\ Enter(c)
      /\ stack' = [stack EXCEPT ![w] = Append(WithTop(w, g), e)]
  BY <1>2 DEF SyncWork, Advanced, Goes
<1>4. /\ Continues(w, g) /\ g.pc = f.pc + 1
      /\ f.pc \in 1 .. Len(Program[f.task])
  BY <1>1, GoesContinues
<1> HIDE DEF g
<1>5. /\ deque' \in [Workers -> Seq(ItemType)]
      /\ Len(deque'[w]) = m - 1
      /\ \A i \in 1 .. m - 1 : deque'[w][i].task = deque[w][i].task
      /\ \A v \in Workers \ {w} : SameTasks(v)
      /\ Shrinks /\ Unqueued(c)' /\ StolenStay
      /\ \A d : Unqueued(d) => Unqueued(d)'
      /\ \A v \in Workers : \A i \in 1 .. Len(deque'[v]) :
           deque[v][i].task # c
      /\ Tracked(w, m) /\ c \in Tasks /\ ~Unqueued(c)
  <2>1. /\ deque' = [deque EXCEPT ![w] = Older(deque[w])]
        /\ deque[w][m].status # "stolen"
    BY <1>1, <1>3
  <2>2. Pops(w, m, c)
    BY <1>2, <2>1, PopEffect
  <2> QED  BY <2>1, <2>2 DEF Pops
<1>6. begun[c] = 0 /\ Begins(c)
  <2>1. begun[c] = 0
    BY <1>2, <1>3, <1>5 DEF Tracked
  <2> QED  BY <1>3, <1>5, <2>1, BeginsTask
<1>7. /\ Local \in HomeType /\ e = Frame(c, Local, Len(deque'[w]))
      /\ e \in FrameType /\ e.task = c /\ e.home = Local /\ e.pc = 1
  <2>1. Local \in HomeType /\ m - 1 \in Nat
    BY <1>2 DEF Local, HomeType
  <2> QED  BY <1>5, <2>1, FrameTyped
<1>8. Grown(w, g, e)
  BY <1>1, <1>3, <1>4, <1>7, WithTopGrown DEF Continues
<1>9. Keeps /\ NewFrame(w, e)
  BY <1>4, <1>8, GrownKeeps
<1>10. TypeOK'
  BY <1>1, <1>5, <1>6, <1>8 DEF TypeOK, Grown, OnlyStackOf, Begins
<1>11. StackInv'
  <2>1. Carries(w, g)
    <3>1. /\ Running(w) /\ Top(w).pc <= Len(Body(w))
          /\ Body(w)[Top(w).pc].do = "sync" /\ g.pc = Top(w).pc + 1
          /\ Continues(w, g)
      BY <1>1, <1>4
    <3>2. /\ Len(deque'[w]) = Len(deque[w]) - 1
          /\ \A i \in 1 .. Len(deque[w]) - 1 :
               deque'[w][i].task = deque[w][i].task
      BY <1>5
    <3> QED  BY <3>1, <3>2, CarriesPopped
  <2> QED  BY <1>4, <1>5, <1>7, <1>8, <2>1, StackGrown
<1>12. ItemInv'
  <2>1. \A v \in Workers : \A i \in 1 .. Len(deque'[v]) :
          begun'[deque[v][i].task] = begun[deque[v][i].task]
    BY <1>5, <1>6, Elements DEF Begins, Shrinks
  <2>2. lost \subseteq lost' /\ ended' = ended
    BY <1>1
  <2> QED  BY <1>5, <1>9, <2>1, <2>2, ItemsShrink DEF Keeps
<1>13. FrameInv'
  <2>1. UNCHANGED <<ended, lost>>
    BY <1>1
  <2> QED  BY <1>5, <1>6, <1>7, <1>9, <2>1, FramePushed
<1>14. ChildInv'
  <2> PICK n : n = Len(stack[w])
    OBVIOUS
  <2>1. OverStays /\ FreshStays(c) /\ Ours(w, c) /\ ended' = ended
    BY <1>1, <1>5, <1>6
    DEF OverStays, FreshStays, Over, Fresh, Begins, Ours
  <2>2. /\ n \in Nat \ {0} /\ stack'[w][n] = g /\ g.task = f.task
        /\ OnlyStackOf(w) /\ Len(stack'[w]) = n + 1 /\ stack'[w][n + 1] = e
        /\ \A i \in 1 .. n - 1 : stack'[w][i] = stack[w][i]
        /\ f.pc <= Len(Program[f.task]) /\ c = Child(f.task, f.pc)
        /\ Running(w) /\ g.pc = f.pc + 1
    BY <1>1, <1>4, <1>8, TopFrame
    DEF Grown, Continues, Body, Operand, Child
  <2>3. OnTop(w, n, c)'
    BY <1>7, <2>2 DEF OnTop
  <2>4. Raised(w, n)'
    <3>1. OnTop(w, n, Child(f.task, f.pc))'
      BY <2>2, <2>3
    <3> QED  BY <2>1, <2>2, <3>1, RaisedOn
  <2>5. Raised(w, n + 1)'
    BY <1>5, <1>7, <1>6, <2>1, <2>2, RaisedNew
  <2>6. /\ \A i \in 1 .. Len(stack'[w]) : i \in 1 .. n \/ Raised(w, i)'
        /\ \A t \in Tasks : begun'[t] = 0 => begun[t] = 0
    BY <1>6, <2>2, <2>5 DEF Begins
  <2> QED  BY <1>9, <2>1, <2>2, <2>4, <2>6, ChildrenOn
<1> QED  BY <1>10, <1>11, <1>12, <1>13, <1>14

LEMMA LookDoneInv ==
  ASSUME PoolInv, NEW w \in Workers, LookDone(w)
  PROVE  PoolInv'
<1> USE DEF PoolInv
<1> DEFINE g == Goes(w)
<1> PICK f : f = Top(w)
  OBVIOUS
<1> PICK m : m = Len(deque[w])
  OBVIOUS
<1> PICK c : c = Operand(w)
  OBVIOUS
<1>1. /\ Running(w) /\ Top(w).at # "body"
      /\ UNCHANGED <<begun, ended, lost, dead>>
      /\ deque' = [deque EXCEPT ![w] = Older(deque[w])]
      /\ stack' = [stack EXCEPT ![w] = WithTop(w, g)]
  BY DEF LookDone, panics, Advanced, Goes, TypeOK
<1>2. Top(w).pc <= Len(Body(w)) /\ Body(w)[Top(w).pc].do = "sync"
  BY <1>1, AtLook
<1>3. /\ m \in 1 .. m /\ c = deque[w][m].task
      /\ deque[w][m].status = "done"
  BY <1>1, <1>2, AtSync DEF LookDone
<1>4. /\ Continues(w, g) /\ g.pc = f.pc + 1
      /\ f.pc \in 1 .. Len(Program[f.task])
  BY <1>1, <1>2, GoesContinues
<1> HIDE DEF g
<1>5. /\ deque' \in [Workers -> Seq(ItemType)]
      /\ Len(deque'[w]) = m - 1
      /\ \A i \in 1 .. m - 1 : deque'[w][i].task = deque[w][i].task
      /\ \A v \in Workers \ {w} : SameTasks(v)
      /\ Shrinks /\ Unqueued(c)' /\ StolenStay
      /\ \A d : Unqueued(d) => Unqueued(d)'
      /\ Tracked(w, m) /\ c \in Tasks
  <2>1. Pops(w, m, c)
    BY <1>1, <1>3, PopEffect
  <2> QED  BY <1>3, <2>1 DEF Pops
<1>6. c \in ended
  BY <1>3, <1>5 DEF Tracked
<1>7. Replaced(w, g)
  BY <1>1, <1>4, WithTopReplaced DEF Continues
<1>8. Keeps /\ NoNewFrame
  BY <1>4, <1>7, ReplacedKeeps
<1>9. TypeOK'
  BY <1>1, <1>5, <1>7 DEF TypeOK, Replaced, OnlyStackOf
<1>10. StackInv'
  <2>1. Carries(w, g)
    <3>1. /\ Running(w) /\ Top(w).pc <= Len(Body(w))
          /\ Body(w)[Top(w).pc].do = "sync" /\ g.pc = Top(w).pc + 1
          /\ Continues(w, g)
      BY <1>1, <1>2, <1>4
    <3>2. /\ Len(deque'[w]) = Len(deque[w]) - 1
          /\ \A i \in 1 .. Len(deque[w]) - 1 :
               deque'[w][i].task = deque[w][i].task
      BY <1>5
    <3> QED  BY <3>1, <3>2, CarriesPopped
  <2> QED  BY <1>4, <1>5, <1>7, <2>1, StackReplaced
<1>11. ItemInv'
  <2>1. lost \subseteq lost' /\ ended' = ended /\ begun' = begun
    BY <1>1
  <2> QED  BY <1>5, <1>8, <2>1, ItemsShrink DEF Keeps
<1>12. FrameInv'
  <2>1. UNCHANGED <<begun, ended, lost>>
    BY <1>1
  <2> QED  BY <1>5, <1>8, <2>1, FramesKept
<1>13. ChildInv'
  <2> PICK n : n = Len(stack[w])
    OBVIOUS
  <2>1. OverStays /\ FreshStays(NoTask) /\ Ours(w, NoTask)
        /\ ended' = ended /\ begun' = begun
    BY <1>1, <1>5, NobodysTask DEF OverStays, FreshStays, Over, Fresh
  <2>2. /\ stack'[w][n] = g /\ g.task = f.task
        /\ OnlyStackOf(w) /\ Len(stack'[w]) = n
        /\ \A i \in 1 .. n - 1 : stack'[w][i] = stack[w][i]
        /\ f.pc <= Len(Program[f.task]) /\ c = Child(f.task, f.pc)
        /\ Running(w) /\ g.pc = f.pc + 1
    BY <1>1, <1>2, <1>4, <1>7
    DEF Replaced, Continues, Body, Operand, Child
  <2>3. Raised(w, n)'
    <3>1. Over(c)'
      BY <1>5, <1>6, <2>1 DEF Over
    <3>2. Over(Child(f.task, f.pc))'
      BY <2>2, <3>1
    <3> QED  BY <2>1, <2>2, <3>2, RaisedOn
  <2> QED  BY <1>8, <2>1, <2>2, <2>3, ChildrenOn
<1> QED  BY <1>9, <1>10, <1>11, <1>12, <1>13

(* A steal, whatever the thief's stack was before.                         *)
LEMMA StealCommon ==
  ASSUME PoolInv, NEW w \in Workers, NEW v \in Workers,
         NEW i \in 1 .. Len(deque[v]), deque[v][i].status = "ready",
         \A j \in 1 .. i - 1 : deque[v][j].status # "ready",
         deque' = [deque EXCEPT ![v][i].status = "stolen", ![v][i].thief = w],
         NEW t, t = deque[v][i].task, Enter(t), UNCHANGED <<ended, panics>>,
         NEW f, f = StolenFrame(w, v, i), Keeps, NewFrame(w, f)
  PROVE  /\ deque' \in [Workers -> Seq(ItemType)] /\ Begins(t)
         /\ \A u \in Workers : SameTasks(u)
         /\ ItemInv' /\ FrameInv'
         /\ OverStays /\ FreshStays(t) /\ Ours(w, t)
<1> USE DEF PoolInv, panics
<1> DEFINE e == [task |-> t, status |-> "stolen", thief |-> w]
<1>1. /\ t \in Tasks /\ t \notin Mains /\ begun[t] = 0 /\ Begins(t)
      /\ deque' \in [Workers -> Seq(ItemType)] /\ StolenStay
      /\ Takes(v, i, e)
  <2>1. Steals(w, v, i, t)
    BY StealEffect
  <2> QED  BY <2>1 DEF Steals
<1>2. t \notin ended
  BY <1>1 DEF FrameInv
<1>3. f.task = t /\ f.home = [victim |-> v, slot |-> i]
  BY DEF StolenFrame, Frame
<1>4. ItemInv'
  BY <1>1, <1>2, <1>3, ItemStolen
<1>5. \A u \in Workers : SameTasks(u)
  <2>1. e.task = t
    OBVIOUS
  <2> HIDE DEF e
  <2> QED  BY <1>1, <2>1 DEF Takes, SameTasks
<1>6. \A d : Unqueued(d) <=> Unqueued(d)'
  <2>1. /\ \A u \in Workers : Len(deque'[u]) = Len(deque[u])
        /\ \A u \in Workers : \A j \in 1 .. Len(deque[u]) :
             deque'[u][j].task = deque[u][j].task
    BY <1>5 DEF SameTasks
  <2>2. ASSUME NEW d, Unqueued(d)  PROVE Unqueued(d)'
    <3>1. \A u \in Workers : \A j \in 1 .. Len(deque[u]) :
            deque'[u][j].task # d
      BY ZenonT(30), <2>1, <2>2 DEF Unqueued
    <3> QED  BY <2>1, <3>1 DEF Unqueued
  <2>3. ASSUME NEW d, Unqueued(d)'  PROVE Unqueued(d)
    <3>1. \A u \in Workers : \A j \in 1 .. Len(deque'[u]) :
            deque'[u][j].task # d
      BY <2>3 DEF Unqueued
    <3>2. \A u \in Workers : \A j \in 1 .. Len(deque[u]) :
            deque[u][j].task # d
      <4> SUFFICES ASSUME NEW u \in Workers, NEW j \in 1 .. Len(deque[u])
                   PROVE  deque[u][j].task # d
        OBVIOUS
      <4>1. /\ j \in 1 .. Len(deque'[u])
            /\ deque'[u][j].task = deque[u][j].task
        BY <2>1
      <4> QED  BY <3>1, <4>1
    <3> QED  BY <3>2 DEF Unqueued
  <2> QED  BY <2>2, <2>3
<1>7. f.home # Local
  <2>1. v # NoWorker
    BY WorkerAssumption
  <2> QED  BY <1>3, <2>1 DEF Local
<1>8. FrameInv'
  <2>1. /\ f.home.victim \in Workers
        /\ f.home.slot \in 1 .. Len(deque'[f.home.victim])
        /\ deque'[f.home.victim][f.home.slot] = e
    <3>1. f.home.victim = v /\ f.home.slot = i
      BY <1>3
    <3> HIDE DEF e
    <3> QED  BY <1>1, <3>1 DEF Takes
  <2> QED  BY <1>1, <1>3, <1>6, <1>7, <2>1, FramePushed
<1>9. ~Unqueued(t)
  BY DEF Unqueued
<1>10. OverStays /\ FreshStays(t) /\ Ours(w, t)
  BY <1>1, <1>6, <1>9 DEF OverStays, FreshStays, Over, Fresh, Begins, Ours
<1> QED  BY <1>1, <1>4, <1>5, <1>8, <1>10

LEMMA StolenFrameTyped ==
  ASSUME TypeOK, NEW w \in Workers, NEW v \in Workers,
         NEW i \in 1 .. Len(deque[v])
  PROVE  /\ [victim |-> v, slot |-> i] \in HomeType
         /\ deque[v][i].task \in Tasks /\ Len(deque[w]) \in Nat
         /\ StolenFrame(w, v, i) \in FrameType
         /\ StolenFrame(w, v, i).task = deque[v][i].task
         /\ StolenFrame(w, v, i).pc = 1
<1>1. /\ [victim |-> v, slot |-> i] \in HomeType
      /\ deque[v][i].task \in Tasks /\ Len(deque[w]) \in Nat
  BY Elements DEF HomeType
<1> QED  BY <1>1, FrameTyped DEF StolenFrame

LEMMA LeapInv ==
  ASSUME PoolInv, NEW w \in Workers, Leap(w)
  PROVE  PoolInv'
<1> USE DEF PoolInv
<1> DEFINE g == Stays(w, "look", NoWorker)
<1>1. Running(w) /\ Top(w).at # "body" /\ Top(w).at = "leap"
  BY DEF Leap
<1>2. /\ Top(w).pc <= Len(Body(w)) /\ Body(w)[Top(w).pc].do = "sync"
      /\ Top(w).thief \in Workers
  BY <1>1, AtLook
<1>3. PICK v \in Workers : StealWork(w, v, Looking(w))
  BY <1>2 DEF Leap, Victims
<1>4. PICK i \in 1 .. Len(deque[v]) :
        /\ deque[v][i].status = "ready"
        /\ \A j \in 1 .. i - 1 : deque[v][j].status # "ready"
        /\ deque' = [deque EXCEPT ![v][i].status = "stolen", ![v][i].thief = w]
        /\ stack' = [stack EXCEPT ![w] =
             Append(Looking(w), StolenFrame(w, v, i))]
        /\ Enter(deque[v][i].task)
        /\ UNCHANGED <<ended, panics>>
  BY <1>3 DEF StealWork
<1> PICK t : t = deque[v][i].task
  OBVIOUS
<1> PICK f : f = StolenFrame(w, v, i)
  OBVIOUS
<1>5. /\ [victim |-> v, slot |-> i] \in HomeType /\ t \in Tasks
      /\ f \in FrameType /\ f.task = t /\ f.pc = 1
  BY StolenFrameTyped
<1>6. Continues(w, g) /\ g.pc = Top(w).pc
  BY <1>1, <1>2, StaysContinues
<1>7. stack' = [stack EXCEPT ![w] = Append(WithTop(w, g), f)]
  BY <1>4 DEF Looking, Stays
<1> HIDE DEF g
<1>8. Grown(w, g, f)
  BY <1>1, <1>5, <1>6, <1>7, WithTopGrown DEF Continues
<1>9. Keeps /\ NewFrame(w, f)
  BY <1>6, <1>8, GrownKeeps
<1>10. /\ deque' \in [Workers -> Seq(ItemType)] /\ Begins(t)
       /\ \A u \in Workers : SameTasks(u)
       /\ ItemInv' /\ FrameInv'
       /\ OverStays /\ FreshStays(t) /\ Ours(w, t)
  BY <1>4, <1>9, StealCommon
<1>11. ended' = ended /\ lost' = lost /\ dead' = dead
  BY <1>4 DEF panics
<1>12. TypeOK'
  BY <1>8, <1>10, <1>11 DEF TypeOK, Grown, OnlyStackOf, Begins
<1>13. StackInv'
  <2>1. Carries(w, g)
    BY <1>1, <1>6, <1>10, CarriesSame
  <2>2. f = Frame(t, [victim |-> v, slot |-> i], Len(deque'[w]))
    BY <1>10 DEF StolenFrame, SameTasks
  <2> QED  BY <1>5, <1>6, <1>8, <1>10, <2>1, <2>2, StackGrown
<1>14. ChildInv'
  <2> PICK n : n = Len(stack[w])
    OBVIOUS
  <2> PICK h : h = Top(w)
    OBVIOUS
  <2>1. /\ n \in Nat \ {0} /\ stack'[w][n] = g /\ g.task = h.task
        /\ OnlyStackOf(w) /\ Len(stack'[w]) = n + 1 /\ stack'[w][n + 1] = f
        /\ \A j \in 1 .. n - 1 : stack'[w][j] = stack[w][j]
        /\ Program[h.task][h.pc].do = "sync" /\ g.pc = h.pc
    BY <1>1, <1>2, <1>6, <1>8, TopFrame
    DEF Grown, Continues, Body
  <2>2. Raised(w, n)'
    BY SMTT(20), <1>1, <1>10, <2>1, RaisedStays
  <2>3. Raised(w, n + 1)'
    <3>1. /\ FreshStays(t) /\ Ours(w, t) /\ stack'[w][n + 1] = f
          /\ f.task \in Tasks /\ f.pc = 1 /\ begun[f.task] = 0
      BY <1>5, <1>10, <2>1 DEF Begins
    <3> QED  BY <3>1, RaisedNew
  <2>4. /\ \A j \in 1 .. Len(stack'[w]) : j \in 1 .. n \/ Raised(w, j)'
        /\ \A u \in Tasks : begun'[u] = 0 => begun[u] = 0
    BY <1>10, <2>1, <2>3 DEF Begins
  <2> QED  BY <1>9, <1>10, <1>11, <2>1, <2>2, <2>4, ChildrenOn
<1> QED  BY <1>10, <1>12, <1>13, <1>14

LEMMA PushedAlone ==
  ASSUME TypeOK, NEW w \in Workers, ~Running(w), NEW f \in FrameType,
         stack' = [stack EXCEPT ![w] = <<f>>]
  PROVE  Started(w, f)
<1>1. <<f>> \in Seq(FrameType) /\ Len(<<f>>) = 1 /\ <<f>>[1] = f
  OBVIOUS
<1>2. stack[w] = <<>> /\ stack \in [Workers -> Seq(FrameType)]
  BY DEF Running, TypeOK
<1>3. Len(stack[w]) = 0
  BY <1>2
<1>4. /\ stack' \in [Workers -> Seq(FrameType)] /\ stack'[w] = <<f>>
      /\ \A u \in Workers \ {w} : stack'[u] = stack[u]
  BY <1>1, <1>2
<1> QED  BY <1>1, <1>3, <1>4 DEF Started, OnlyStackOf

(* The only frame has just begun.                                          *)
LEMMA AloneChildren ==
  ASSUME TypeOK, StackInv, FrameInv, ChildInv, NEW w \in Workers, NEW f,
         Started(w, f), f.pc = 1, NEW t, t = f.task, Begins(t),
         OverStays, FreshStays(t), Ours(w, t), ended' = ended
  PROVE  ChildInv'
<1> PICK n : n = Len(stack[w])
  OBVIOUS
<1>1. /\ n = 0 /\ Len(stack'[w]) = 1 /\ stack'[w][1] = f /\ OnlyStackOf(w)
      /\ ~Running(w)
  BY DEF Started
<1>2. Raised(w, 1)'
  BY <1>1, RaisedNew DEF Begins
<1>3. /\ \A j \in 1 .. Len(stack'[w]) : j \in 1 .. n \/ Raised(w, j)'
      /\ \A u \in Tasks : begun'[u] = 0 => begun[u] = 0
      /\ \A j \in 1 .. n - 1 : stack'[w][j] = stack[w][j]
  BY <1>1, <1>2 DEF Begins
<1> QED  BY <1>1, <1>3, StartedKeeps, ChildrenOn

LEMMA StealRandomInv ==
  ASSUME PoolInv, NEW w \in Workers, StealRandom(w)
  PROVE  PoolInv'
<1> USE DEF PoolInv
<1>1. ~Running(w)
  BY DEF StealRandom
<1>2. PICK v \in Workers : StealWork(w, v, <<>>)
  BY DEF StealRandom
<1>3. PICK i \in 1 .. Len(deque[v]) :
        /\ deque[v][i].status = "ready"
        /\ \A j \in 1 .. i - 1 : deque[v][j].status # "ready"
        /\ deque' = [deque EXCEPT ![v][i].status = "stolen", ![v][i].thief = w]
        /\ stack' = [stack EXCEPT ![w] = Append(<<>>, StolenFrame(w, v, i))]
        /\ Enter(deque[v][i].task)
        /\ UNCHANGED <<ended, panics>>
  BY <1>2 DEF StealWork
<1> PICK t : t = deque[v][i].task
  OBVIOUS
<1> PICK f : f = StolenFrame(w, v, i)
  OBVIOUS
<1>4. /\ [victim |-> v, slot |-> i] \in HomeType /\ t \in Tasks
      /\ f \in FrameType /\ f.task = t /\ f.pc = 1
  BY StolenFrameTyped
<1>5. stack' = [stack EXCEPT ![w] = <<f>>]
  BY <1>3
<1>6. Started(w, f)
  BY <1>1, <1>4, <1>5, PushedAlone
<1>7. Keeps /\ NewFrame(w, f)
  BY <1>6, StartedKeeps
<1>8. /\ deque' \in [Workers -> Seq(ItemType)] /\ Begins(t)
      /\ \A u \in Workers : SameTasks(u)
      /\ ItemInv' /\ FrameInv'
      /\ OverStays /\ FreshStays(t) /\ Ours(w, t)
  BY <1>3, <1>7, StealCommon
<1>9. ended' = ended /\ lost' = lost /\ dead' = dead
  BY <1>3 DEF panics
<1>10. TypeOK'
  BY <1>6, <1>8, <1>9 DEF TypeOK, Started, OnlyStackOf, Begins
<1>11. StackInv'
  <2>1. /\ f = Frame(t, [victim |-> v, slot |-> i], Len(deque'[w]))
        /\ Len(deque'[w]) \in Nat
    BY <1>8, Elements DEF StolenFrame, SameTasks
  <2> QED  BY <1>4, <1>6, <1>8, <2>1, StackStarted
<1>12. ChildInv'
  BY <1>4, <1>6, <1>8, <1>9, AloneChildren
<1> QED  BY <1>8, <1>10, <1>11, <1>12

LEMMA ReturnEffect ==
  ASSUME PoolInv, NEW w \in Workers, Return(w), NEW t, t = Top(w).task
  PROVE  /\ Popped(w) /\ Finishes(t, w)
         /\ deque' \in [Workers -> Seq(ItemType)]
         /\ t \in Tasks /\ UNCHANGED <<begun, lost, dead>>
         /\ Top(w).pc > Len(Program[Top(w).task])
<1> USE DEF PoolInv
<1> PICK h : h = Top(w).home
  OBVIOUS
<1> PICK n : n = Len(stack[w])
  OBVIOUS
<1>1. /\ Running(w) /\ Top(w).pc > Len(Body(w))
      /\ stack' = [stack EXCEPT ![w] = Older(stack[w])]
      /\ ended' = ended \cup {t}
      /\ h = Local => deque' = deque
      /\ h # Local => deque' = [deque EXCEPT ![h.victim][h.slot].status = "done"]
      /\ UNCHANGED <<begun, lost, dead>>
  BY DEF Return, InBody, panics
<1>2. /\ n \in 1 .. Len(stack[w]) /\ Top(w) = stack[w][n] /\ t \in Tasks
      /\ Older(stack[w]) \in Seq(FrameType)
      /\ Len(Older(stack[w])) = n - 1
      /\ \A i \in 1 .. n - 1 : Older(stack[w])[i] = stack[w][i]
  BY <1>1, TopFrame
<1>3. Popped(w)
  <2> DEFINE r == Older(stack[w])
  <2>1. /\ stack' = [stack EXCEPT ![w] = r] /\ r \in Seq(FrameType)
        /\ Len(r) = n - 1 /\ \A i \in 1 .. n - 1 : r[i] = stack[w][i]
        /\ stack \in [Workers -> Seq(FrameType)] /\ Running(w)
    BY <1>1, <1>2 DEF TypeOK
  <2> HIDE DEF r
  <2>2. /\ stack' \in [Workers -> Seq(FrameType)] /\ stack'[w] = r
        /\ \A v \in Workers \ {w} : stack'[v] = stack[v]
    BY <2>1
  <2> QED  BY <2>1, <2>2 DEF Popped, OnlyStackOf
<1>4. /\ h = Local => Unqueued(t)
      /\ h # Local =>
           /\ h.victim \in Workers
           /\ h.slot \in 1 .. Len(deque[h.victim])
           /\ deque[h.victim][h.slot] =
                [task |-> t, status |-> "stolen", thief |-> w]
  <2>1. Homed(w, n)
    BY <1>2 DEF FrameInv
  <2> QED  BY <1>2, <2>1 DEF Homed
<1>5. CASE h = Local
  <2>1. deque' = deque /\ Unqueued(t)
    BY <1>1, <1>4, <1>5
  <2>2. Finishes(t, w)
    BY <1>1, <2>1 DEF Finishes, Unqueued
  <2>3. deque' \in [Workers -> Seq(ItemType)]
    BY <2>1 DEF TypeOK
  <2> QED  BY <1>1, <1>2, <1>3, <2>2, <2>3 DEF Body
<1>6. CASE h # Local
  <2> PICK v : v = h.victim
    OBVIOUS
  <2> PICK i : i = h.slot
    OBVIOUS
  <2> DEFINE x == [task |-> t, status |-> "stolen", thief |-> w]
             e == [task |-> t, status |-> "done", thief |-> w]
  <2>1. /\ v \in Workers /\ i \in 1 .. Len(deque[v]) /\ deque[v][i] = x
        /\ deque' = [deque EXCEPT ![v][i].status = "done"]
    BY <1>1, <1>4, <1>6
  <2>2. e \in ItemType
    BY <1>2 DEF ItemType
  <2>3. deque' = [deque EXCEPT ![v] = [deque[v] EXCEPT ![i] = e]]
    <3>1. deque' = [deque EXCEPT ![v] = [deque[v] EXCEPT ![i] =
            [deque[v][i] EXCEPT !.status = "done"]]]
      BY <2>1 DEF TypeOK
    <3>2. [x EXCEPT !.status = "done"] = e
      OBVIOUS
    <3> QED  BY <2>1, <3>1, <3>2
  <2> HIDE DEF x, e
  <2>4. deque' \in [Workers -> Seq(ItemType)] /\ Takes(v, i, e)
    <3>1. v \in Workers /\ i \in 1 .. Len(deque[v])
      BY <2>1
    <3> QED  BY <2>2, <2>3, <3>1, TakesItem
  <2>5. \A u \in Workers : \A j \in 1 .. Len(deque[u]) :
          deque[u][j].task = t => u = v /\ j = i
    <3>1. Tracked(v, i) /\ deque[v][i].task = t
      BY <2>1 DEF ItemInv, x
    <3>2. \A u \in Workers : \A j \in 1 .. Len(deque[u]) :
            deque[u][j].task = deque[v][i].task => u = v /\ j = i
      BY <3>1 DEF Tracked
    <3> QED  BY <3>1, <3>2
  <2>6. deque[v][i].task = t /\ deque[v][i].status = "stolen"
    BY <2>1 DEF x
  <2>7. \A u \in Workers : \A j \in 1 .. Len(deque[u]) :
          \/ deque[u][j].task # t /\ deque'[u][j] = deque[u][j]
          \/ /\ deque[u][j].task = t /\ deque[u][j].status = "stolen"
             /\ deque'[u][j] = e
    BY <2>4, <2>5, <2>6 DEF Takes
  <2>8. Finishes(t, w)
    BY <1>1, <2>4, <2>7 DEF Finishes, Takes, e
  <2> QED  BY <1>1, <1>2, <1>3, <2>4, <2>8 DEF Body
<1> QED  BY <1>5, <1>6

LEMMA ReturnInv ==
  ASSUME PoolInv, NEW w \in Workers, Return(w)
  PROVE  PoolInv'
<1> USE DEF PoolInv
<1> PICK t : t = Top(w).task
  OBVIOUS
<1>1. /\ Popped(w) /\ Finishes(t, w)
      /\ deque' \in [Workers -> Seq(ItemType)]
      /\ t \in Tasks /\ UNCHANGED <<begun, lost, dead>>
      /\ Top(w).pc > Len(Program[Top(w).task])
  BY ReturnEffect
<1>2. TypeOK'
  BY <1>1 DEF TypeOK, Popped, OnlyStackOf, Finishes
<1>3. StackInv'
  <2>1. ASSUME NEW v \in Workers
        PROVE  /\ Len(deque'[v]) = Len(deque[v])
               /\ \A j \in 1 .. Len(deque[v]) :
                    deque'[v][j].task = deque[v][j].task
    BY <1>1, <2>1 DEF Finishes
  <2> SUFFICES ASSUME NEW v \in Workers, NEW i \in 1 .. Len(stack'[v])
               PROVE  Aligned(v, i)'
    BY DEF StackInv
  <2>2. CASE v = w
    BY <1>1, <2>1, <2>2, AlignedPopped DEF Popped
  <2>3. CASE v # w
    BY <1>1, <2>1, <2>3, AlignedOthers DEF Popped
  <2> QED  BY <2>2, <2>3
<1>4. ItemInv'
  BY <1>1, ItemsOnReturn
<1>5. FrameInv'
  BY <1>1, FramesOnReturn
<1>6. ChildInv'
  BY <1>1, ChildrenOnReturn
<1> QED  BY <1>2, <1>3, <1>4, <1>5, <1>6

LEMMA UnwindInv ==
  ASSUME PoolInv, NEW w \in Workers, Unwind(w)
  PROVE  PoolInv'
<1> USE DEF PoolInv
<1>1. Unwound(w) /\ stack \in [Workers -> Seq(FrameType)]
  BY DEF Unwind, Unwound, OnlyStackOf, TypeOK
<1>2. \A f \in Frames(w) : f.task \in Tasks
  BY Elements DEF Frames
<1>3. TypeOK'
  BY <1>1, <1>2 DEF TypeOK, Unwind, Unwound, OnlyStackOf
<1>4. StackInv'
  <2> SUFFICES ASSUME NEW v \in Workers, NEW i \in 1 .. Len(stack'[v])
               PROVE  Aligned(v, i)'
    BY DEF StackInv
  <2>1. v # w
    BY <1>1, UnwoundKeeps
  <2> QED  BY <1>1, <2>1, AlignedOthers DEF Unwound
<1>5. ItemInv' /\ FrameInv' /\ ChildInv'
  BY <1>1, ItemsOnUnwind, FramesOnUnwind, ChildrenOnUnwind
<1> QED  BY <1>3, <1>4, <1>5

LEMMA RunInv ==
  ASSUME PoolInv, NEW t \in Mains, Run(t)
  PROVE  PoolInv'
<1> USE DEF PoolInv
<1> PICK f : f = Frame(t, Local, Len(deque[Root]))
  OBVIOUS
<1>1. /\ ~Running(Root) /\ begun[t] = 0 /\ Enter(t) /\ t \in Tasks
      /\ Root \in Workers /\ stack' = [stack EXCEPT ![Root] = <<f>>]
      /\ UNCHANGED <<deque, ended, lost, dead>>
  BY ProgramAssumption, WorkerAssumption DEF Run, panics
<1>2. /\ Local \in HomeType /\ Len(deque[Root]) \in Nat
      /\ f \in FrameType /\ f.task = t /\ f.home = Local /\ f.pc = 1
  <2>1. Local \in HomeType /\ Len(deque[Root]) \in Nat
    BY <1>1, Elements DEF Local, HomeType
  <2> QED  BY <1>1, <2>1, FrameTyped
<1>3. Started(Root, f)
  BY <1>1, <1>2, PushedAlone
<1>4. Keeps /\ NewFrame(Root, f)
  BY <1>1, <1>3, StartedKeeps
<1>5. Begins(t)
  BY <1>1, BeginsTask
<1>6. /\ Shrinks /\ StolenStay /\ \A v \in Workers : SameTasks(v)
      /\ \A d : Unqueued(d)' <=> Unqueued(d)
  BY <1>1, SameDeques
<1>7. \A v \in Workers : \A i \in 1 .. Len(deque[v]) :
        deque[v][i].task \in Tasks \ {t}
  <2> SUFFICES ASSUME NEW v \in Workers, NEW i \in 1 .. Len(deque[v])
               PROVE  deque[v][i].task \in Tasks \ {t}
    OBVIOUS
  <2>1. Tracked(v, i) /\ deque[v][i].task \in Tasks
    BY Elements DEF ItemInv
  <2> QED  BY <2>1 DEF Tracked
<1>8. TypeOK'
  BY <1>1, <1>3, <1>5 DEF TypeOK, Started, OnlyStackOf, Begins
<1>9. StackInv'
  BY <1>1, <1>2, <1>3, <1>6, StackStarted
<1>10. ItemInv'
  <2>1. \A v \in Workers : \A i \in 1 .. Len(deque'[v]) :
          begun'[deque[v][i].task] = begun[deque[v][i].task]
    BY <1>1, <1>5, <1>7 DEF Begins
  <2> QED  BY <1>1, <1>4, <1>6, <2>1, ItemsShrink DEF Keeps
<1>11. FrameInv'
  <2>1. Unqueued(t)
    BY <1>7 DEF Unqueued
  <2> QED  BY <1>1, <1>2, <1>4, <1>5, <1>6, <2>1, FramePushed
<1>12. ChildInv'
  <2>1. OverStays /\ FreshStays(t)
    BY <1>1, <1>5, <1>6 DEF OverStays, FreshStays, Over, Fresh, Begins
  <2>2. Ours(Root, t)
    BY OneParent DEF Ours
  <2> QED  BY <1>1, <1>2, <1>3, <1>5, <2>1, <2>2, AloneChildren
<1> QED  BY <1>8, <1>9, <1>10, <1>11, <1>12

LEMMA StutterInv ==
  ASSUME PoolInv, UNCHANGED vars
  PROVE  PoolInv'
<1> USE DEF PoolInv, vars, panics
<1>1. TypeOK'
  BY DEF TypeOK
<1>2. StackInv'
  <2> SUFFICES ASSUME NEW w \in Workers, NEW i \in 1 .. Len(stack'[w])
               PROVE  Aligned(w, i)'
    BY DEF StackInv
  <2>1. Aligned(w, i) /\ stack' = stack /\ deque' = deque
    BY DEF StackInv
  <2> QED  BY <2>1 DEF Aligned, Height, Holding
<1>3. ItemInv'
  BY DEF ItemInv, Tracked
<1>4. FrameInv'
  BY SMTT(20) DEF FrameInv, Homed, Unqueued, Active, Frames
<1>5. ChildInv'
  BY SMTT(20) DEF ChildInv, Raised, Holding, Fresh, Over, Unqueued, OnTop
<1> QED  BY <1>1, <1>2, <1>3, <1>4, <1>5

LEMMA InitInv ==
  ASSUME Init
  PROVE  PoolInv
<1>1. TypeOK
  BY DEF Init, TypeOK
<1>2. \A w \in Workers : /\ 1 .. Len(deque[w]) = {}
                         /\ 1 .. Len(stack[w]) = {}
  BY DEF Init
<1>3. StackInv /\ ItemInv
  BY <1>2 DEF StackInv, ItemInv
<1>4. \A t : Unqueued(t)
  BY <1>2 DEF Unqueued
<1>5. FrameInv
  BY <1>2 DEF FrameInv, Init
<1>6. ChildInv
  <2>1. \A t \in Tasks : begun[t] = 0 /\ t \notin ended
    BY DEF Init
  <2>2. \A t \in Tasks : \A k \in 1 .. Len(Program[t]) : Fresh(Child(t, k))
    BY <1>4, <2>1, ProgramType DEF Fresh
  <2> QED  BY <1>2, <2>1, <2>2 DEF ChildInv
<1> QED  BY <1>1, <1>3, <1>5, <1>6 DEF PoolInv

LEMMA NextInv ==
  ASSUME PoolInv, [Next]_vars
  PROVE  PoolInv'
<1>1. CASE UNCHANGED vars
  BY <1>1, StutterInv
<1>2. ASSUME NEW t \in Mains, Run(t)  PROVE PoolInv'
  BY <1>2, RunInv
<1>3. ASSUME NEW w \in Workers, Step(w)  PROVE PoolInv'
  <2>1. CASE Spawn(w)
    BY <2>1, SpawnInv
  <2>2. CASE Overflow(w)
    BY <2>2, UnwindInv DEF Overflow
  <2>3. CASE Call(w)
    BY <2>3, CallInv
  <2>4. CASE SyncWork(w)
    BY <2>4, SyncWorkInv
  <2>5. CASE SyncStolen(w)
    BY <2>5, SyncStolenInv
  <2>6. CASE LookDone(w)
    BY <2>6, LookDoneInv
  <2>7. CASE LookBusy(w)
    BY <2>7, LookBusyInv
  <2>8. CASE Leap(w)
    BY <2>8, LeapInv
  <2>9. CASE LeapFail(w)
    BY <2>9, LeapFailInv
  <2>10. CASE Return(w)
    BY <2>10, ReturnInv
  <2> QED
    BY <1>3, <2>1, <2>2, <2>3, <2>4, <2>5, <2>6, <2>7, <2>8, <2>9, <2>10
    DEF Step
<1>4. ASSUME NEW w \in Workers, StealRandom(w)  PROVE PoolInv'
  BY <1>4, StealRandomInv
<1>5. ASSUME NEW w \in Workers, Panic(w)  PROVE PoolInv'
  BY <1>5, UnwindInv DEF Panic
<1>6. CASE Idle
  BY <1>6, StutterInv DEF Idle
<1> QED  BY <1>1, <1>2, <1>3, <1>4, <1>5, <1>6 DEF Next

(* Deques, stacks and tasks stay in step with each other, as PoolInv says. *)
THEOREM PoolInvariance == Spec => []PoolInv
<1>1. Init => PoolInv
  BY InitInv
<1>2. PoolInv /\ [Next]_vars => PoolInv'
  BY NextInv
<1> QED  BY <1>1, <1>2, PTL DEF Spec

(* A sync finds its own task newest in the deque: what ran since the spawn *)
(* on the same stack has taken everything back that it pushed.             *)
THEOREM SyncsOwn == Spec => []SyncsOwnTask
<1>1. PoolInv => SyncsOwnTask
  <2> SUFFICES ASSUME PoolInv, NEW w \in Workers,
                      Doing(w, "sync") \/ (Running(w) /\ Top(w).at # "body")
               PROVE  deque[w] # <<>> /\ Newest(deque[w]).task = Operand(w)
    BY DEF SyncsOwnTask
  <2>1. /\ TypeOK /\ StackInv /\ Running(w)
        /\ Top(w).pc <= Len(Body(w)) /\ Body(w)[Top(w).pc].do = "sync"
    BY AtLook DEF PoolInv, Doing, InBody
  <2> QED  BY <2>1, AtSync
<1> QED  BY <1>1, PoolInvariance, PTL

(* No task runs twice, or is still to run when its output is taken.        *)
THEOREM TasksRunOnce == Spec => []RunsOnce
<1>1. PoolInv => RunsOnce
  <2> SUFFICES ASSUME PoolInv  PROVE RunsOnce
    OBVIOUS
  <2>1. \A t \in Tasks : begun[t] <= 1
    BY DEF PoolInv, FrameInv
  <2>2. ASSUME NEW w \in Workers, NEW i \in 1 .. Len(deque[w])
        PROVE  /\ deque[w][i].status = "ready" => begun[deque[w][i].task] = 0
               /\ deque[w][i].status = "done" <=> deque[w][i].task \in ended
    <3>1. /\ Tracked(w, i) /\ deque[w][i].task \in Tasks
          /\ deque[w][i].status \in {"ready", "stolen", "done"}
      BY Elements DEF PoolInv, ItemInv
    <3>2. deque[w][i].task \in ended => begun[deque[w][i].task] = 1
      BY <3>1 DEF PoolInv, FrameInv
    <3> QED  BY <3>1, <3>2 DEF Tracked
  <2> QED  BY <2>1, <2>2 DEF RunsOnce, Queued
<1> QED  BY <1>1, PoolInvariance, PTL

LEMMA OverAndDone ==
  ASSUME PoolInv, NEW c \in Tasks, Fresh(c) \/ Over(c)
  PROVE  c \notin Active \cup Pending
<1>1. c \notin Pending
  BY PendingTasks DEF Fresh, Over
<1>2. c \notin Active
  <2> SUFFICES ASSUME NEW w \in Workers, NEW i \in 1 .. Len(stack[w])
               PROVE  stack[w][i].task # c
    BY ActiveTasks
  <2>1. Homed(w, i)
    BY DEF PoolInv, FrameInv
  <2> QED  BY <2>1 DEF Homed, Fresh, Over
<1> QED  BY <1>1, <1>2

(* While a task runs or waits in a deque its parent's body is on a stack,  *)
(* unless a panic has unwound it: the borrows a task holds stay valid.     *)
THEOREM ParentsStay == Spec => []ParentsOutlive
<1>1. PoolInv => ParentsOutlive
  <2> SUFFICES ASSUME PoolInv,
                      NEW t \in Tasks, t \notin (Active \ ended) \cup lost,
                      NEW k \in 1 .. Len(Program[t]), Starts(t, k)
               PROVE  Child(t, k) \notin Active \cup Pending
    BY DEF ParentsOutlive
  <2>1. begun[t] = 0 \/ t \in ended
    BY DEF PoolInv, FrameInv
  <2>2. Child(t, k) \in Tasks /\ (Fresh(Child(t, k)) \/ Over(Child(t, k)))
    BY <2>1, ProgramType DEF PoolInv, ChildInv
  <2> QED  BY <2>2, OverAndDone
<1> QED  BY <1>1, PoolInvariance, PTL

(* When a body has returned so have all that it started, and they are in   *)
(* no deque and on no stack, whatever has panicked elsewhere.              *)
THEOREM NoneLeftBehind == Spec => []NothingLeftBehind
<1>1. PoolInv => NothingLeftBehind
  <2> SUFFICES ASSUME PoolInv, NEW t \in ended,
                      NEW k \in 1 .. Len(Program[t]), Starts(t, k)
               PROVE  Child(t, k) \in ended \ (Active \cup Pending)
    BY DEF NothingLeftBehind
  <2>1. t \in Tasks
    BY DEF PoolInv, TypeOK
  <2>2. Child(t, k) \in Tasks /\ Over(Child(t, k))
    BY <2>1, ProgramType DEF PoolInv, ChildInv
  <2> QED  BY <2>2, OverAndDone DEF Over
<1> QED  BY <1>1, PoolInvariance, PTL

------------------------------------------------------------------------------
(* What each step does to the deques                                       *)

(* The owner pushes the task it is about to spawn.                         *)
Pushes(w) ==
  /\ Running(w) /\ Top(w).pc <= Len(Body(w)) /\ Body(w)[Top(w).pc].do = "spawn"
  /\ deque' \in [Workers -> Seq(ItemType)]
  /\ Len(deque[w]) < BufferSize /\ Len(deque'[w]) = Len(deque[w]) + 1
  /\ deque'[w][Len(deque[w]) + 1] = Item(Operand(w))
  /\ \A i \in 1 .. Len(deque[w]) : deque'[w][i] = deque[w][i]
  /\ \A v \in Workers \ {w} : deque'[v] = deque[v]

(* It settles the newest item, which has status s.                         *)
SettlesTop(w, s) ==
  /\ deque' \in [Workers -> Seq(ItemType)]
  /\ Len(deque[w]) \in 1 .. Len(deque[w])
  /\ deque[w][Len(deque[w])].status = s
  /\ Len(deque'[w]) = Len(deque[w]) - 1
  /\ \A i \in 1 .. Len(deque[w]) - 1 : deque'[w][i] = deque[w][i]
  /\ \A v \in Workers \ {w} : deque'[v] = deque[v]

(* The i-th item of v goes from status s to r.                             *)
Marks(v, i, s, r) ==
  /\ deque' \in [Workers -> Seq(ItemType)]
  /\ deque[v][i].status = s
  /\ \E w \in Workers :
       Takes(v, i, [task |-> deque[v][i].task, status |-> r, thief |-> w])

OldestReady(v, i) == \A j \in 1 .. i - 1 : deque[v][j].status # "ready"

DequesMove ==
  \/ deque' = deque
  \/ \E w \in Workers : Pushes(w) \/ SettlesTop(w, "ready") \/ SettlesTop(w, "done")
  \/ \E v \in Workers : \E i \in 1 .. Len(deque[v]) :
       \/ Marks(v, i, "ready", "stolen") /\ OldestReady(v, i)
       \/ Marks(v, i, "stolen", "done")

LEMMA SpawnPushes ==
  ASSUME PoolInv, NEW w \in Workers, Spawn(w)
  PROVE  Pushes(w)
<1> PICK c : c = Operand(w)
  OBVIOUS
<1> DEFINE q == deque[w]
           r == Append(q, Item(c))
<1>1. /\ Running(w) /\ Top(w).pc <= Len(Body(w))
      /\ Body(w)[Top(w).pc].do = "spawn" /\ Len(q) < BufferSize
      /\ deque' = [deque EXCEPT ![w] = r]
      /\ deque \in [Workers -> Seq(ItemType)]
  BY DEF Spawn, Doing, InBody, PoolInv, TypeOK
<1>2. c \in Tasks
  BY <1>1, NextChild
<1>3. Item(c) \in ItemType /\ q \in Seq(ItemType)
  BY <1>1, <1>2 DEF Item, ItemType
<1> HIDE DEF q
<1>4. /\ r \in Seq(ItemType) /\ Len(q) \in Nat /\ Len(r) = Len(q) + 1
      /\ r[Len(q) + 1] = Item(c) /\ \A i \in 1 .. Len(q) : r[i] = q[i]
  BY <1>3, AppendOnTop
<1> HIDE DEF r
<1>5. /\ deque' \in [Workers -> Seq(ItemType)] /\ deque'[w] = r
      /\ \A v \in Workers \ {w} : deque'[v] = deque[v]
  BY <1>1, <1>4
<1> QED  BY <1>1, <1>4, <1>5 DEF Pushes, q

LEMMA OlderSettles ==
  ASSUME TypeOK, NEW w \in Workers, deque[w] # <<>>, NEW s,
         Newest(deque[w]).status = s,
         deque' = [deque EXCEPT ![w] = Older(deque[w])]
  PROVE  SettlesTop(w, s)
<1> DEFINE q == deque[w]
           r == Older(q)
<1>1. /\ deque \in [Workers -> Seq(ItemType)] /\ q \in Seq(ItemType)
      /\ q # <<>> /\ q[Len(q)].status = s
  BY DEF TypeOK, Newest
<1>2. deque' = [deque EXCEPT ![w] = r]
  OBVIOUS
<1> HIDE DEF q
<1>3. /\ r \in Seq(ItemType) /\ Len(q) \in Nat \ {0} /\ Len(r) = Len(q) - 1
      /\ \A i \in 1 .. Len(q) - 1 : r[i] = q[i]
  BY <1>1, OlderProperties
<1> HIDE DEF r
<1>4. /\ deque' \in [Workers -> Seq(ItemType)] /\ deque'[w] = r
      /\ \A v \in Workers \ {w} : deque'[v] = deque[v]
  BY <1>1, <1>2, <1>3
<1>5. Len(q) \in 1 .. Len(q)
  BY <1>3
<1> QED  BY <1>1, <1>3, <1>4, <1>5 DEF SettlesTop, q

LEMMA StealMarks ==
  ASSUME PoolInv, NEW w \in Workers, NEW v \in Workers, NEW rest,
         StealWork(w, v, rest)
  PROVE  \E i \in 1 .. Len(deque[v]) :
           Marks(v, i, "ready", "stolen") /\ OldestReady(v, i)
<1>1. PICK i \in 1 .. Len(deque[v]) :
        /\ deque[v][i].status = "ready"
        /\ \A j \in 1 .. i - 1 : deque[v][j].status # "ready"
        /\ deque' = [deque EXCEPT ![v][i].status = "stolen", ![v][i].thief = w]
        /\ Enter(deque[v][i].task)
  BY DEF StealWork
<1> PICK t : t = deque[v][i].task
  OBVIOUS
<1>2. Steals(w, v, i, t)
  BY <1>1, StealEffect DEF PoolInv
<1>3. Marks(v, i, "ready", "stolen")
  BY <1>1, <1>2 DEF Steals, Marks
<1> QED  BY <1>1, <1>3 DEF OldestReady

LEMMA ReturnMarks ==
  ASSUME PoolInv, NEW w \in Workers, Return(w)
  PROVE  \/ deque' = deque
         \/ \E v \in Workers : \E i \in 1 .. Len(deque[v]) :
              Marks(v, i, "stolen", "done")
<1> PICK t : t = Top(w).task
  OBVIOUS
<1>1. /\ Popped(w) /\ Finishes(t, w)
      /\ deque' \in [Workers -> Seq(ItemType)]
  BY ReturnEffect
<1>2. CASE \E v \in Workers : \E i \in 1 .. Len(deque[v]) :
             deque[v][i].task = t
  <2>0. PICK v \in Workers : \E i \in 1 .. Len(deque[v]) : deque[v][i].task = t
    BY <1>2
  <2>1. PICK i \in 1 .. Len(deque[v]) : deque[v][i].task = t
    BY <2>0
  <2>2. \A u \in Workers : \A j \in 1 .. Len(deque[u]) :
          deque[u][j].task = t => u = v /\ j = i
    <3>1. Tracked(v, i)
      BY DEF PoolInv, ItemInv
    <3> QED  BY <2>1, <3>1 DEF Tracked
  <2> DEFINE e == [task |-> t, status |-> "done", thief |-> w]
  <2>3. deque[v][i].status = "stolen" /\ deque'[v][i] = e
    BY <1>1, <2>1 DEF Finishes
  <2>4. \A u \in Workers : \A j \in 1 .. Len(deque[u]) :
          (u = v /\ j = i) \/ deque'[u][j] = deque[u][j]
    BY <1>1, <2>2 DEF Finishes
  <2>5. Takes(v, i, e)
    BY <1>1, <2>3, <2>4 DEF Takes, Finishes
  <2> QED  BY <1>1, <2>1, <2>3, <2>5 DEF Marks
<1>3. CASE \A v \in Workers : \A i \in 1 .. Len(deque[v]) :
             deque[v][i].task # t
  <2>1. deque \in [Workers -> Seq(ItemType)]
    BY DEF PoolInv, TypeOK
  <2>2. \A u \in Workers : /\ Len(deque'[u]) = Len(deque[u])
                           /\ \A j \in 1 .. Len(deque[u]) :
                                deque'[u][j] = deque[u][j]
    BY <1>1, <1>3 DEF Finishes
  <2>3. \A u \in Workers : deque'[u] = deque[u]
    BY <1>1, <2>1, <2>2
  <2> QED  BY <1>1, <2>1, <2>3
<1> QED  BY <1>2, <1>3

LEMMA DequeSteps ==
  ASSUME PoolInv, [Next]_vars
  PROVE  DequesMove
<1>1. TypeOK /\ StackInv
  BY DEF PoolInv
<1>2. CASE UNCHANGED vars \/ Idle
  BY <1>2 DEF DequesMove, vars, Idle
<1>3. ASSUME NEW t \in Mains, Run(t)  PROVE DequesMove
  BY <1>3 DEF Run, DequesMove
<1>4. ASSUME NEW w \in Workers, Step(w)  PROVE DequesMove
  <2>1. CASE Spawn(w)
    BY <2>1, SpawnPushes DEF DequesMove
  <2>2. CASE Overflow(w) \/ Call(w) \/ SyncStolen(w) \/ LookBusy(w)
             \/ LeapFail(w)
    BY <2>2 DEF DequesMove, Overflow, Unwind, Call, SyncStolen, LookBusy,
                LeapFail
  <2>3. CASE SyncWork(w)
    <3>1. /\ deque[w] # <<>> /\ Newest(deque[w]).status = "ready"
          /\ deque' = [deque EXCEPT ![w] = Older(deque[w])]
      BY <1>1, <2>3 DEF SyncWork, TypeOK
    <3> QED  BY <1>1, <3>1, OlderSettles DEF DequesMove
  <2>4. CASE LookDone(w)
    <3>1. /\ Running(w) /\ Top(w).at # "body"
          /\ Newest(deque[w]).status = "done"
          /\ deque' = [deque EXCEPT ![w] = Older(deque[w])]
      BY <1>1, <2>4 DEF LookDone, TypeOK
    <3>2. deque[w] # <<>>
      BY <1>1, <3>1, AtLook, AtSync
    <3> QED  BY <1>1, <3>1, <3>2, OlderSettles DEF DequesMove
  <2>5. CASE Leap(w)
    <3>1. Running(w) /\ Top(w).at = "leap" /\ Top(w).at # "body"
      BY <2>5 DEF Leap
    <3>2. Top(w).thief \in Workers
      BY <1>1, <3>1, AtLook
    <3>3. PICK v \in Workers : StealWork(w, v, Looking(w))
      BY <2>5, <3>2 DEF Leap, Victims
    <3> QED  BY <3>3, StealMarks DEF DequesMove
  <2>6. CASE Return(w)
    BY <2>6, ReturnMarks DEF DequesMove
  <2> QED  BY <1>4, <2>1, <2>2, <2>3, <2>4, <2>5, <2>6 DEF Step
<1>5. ASSUME NEW w \in Workers, StealRandom(w)  PROVE DequesMove
  <2>1. PICK v \in Workers : StealWork(w, v, <<>>)
    BY <1>5 DEF StealRandom
  <2> QED  BY <2>1, StealMarks DEF DequesMove
<1>6. ASSUME NEW w \in Workers, Panic(w)  PROVE DequesMove
  BY <1>6 DEF Panic, Unwind, DequesMove
<1> QED  BY <1>2, <1>3, <1>4, <1>5, <1>6 DEF Next

------------------------------------------------------------------------------
(* Each deque makes the steps of a WorkDeque                               *)

LEMMA ShownItem ==
  ASSUME NEW q, NEW i \in Index, i < Len(q)
  PROVE  /\ TasksOf(q)[i] = q[i + 1].task
         /\ StatusesOf(q)[i] = q[i + 1].status
BY DEF TasksOf, StatusesOf

LEMMA ShownFree ==
  ASSUME NEW q, NEW i \in Index, ~(i < Len(q))
  PROVE  TasksOf(q)[i] = NoTask /\ StatusesOf(q)[i] = "free"
BY DEF TasksOf, StatusesOf

LEMMA ShownFunctions ==
  ASSUME NEW q
  PROVE  /\ TasksOf(q) = [i \in Index |-> TasksOf(q)[i]]
         /\ StatusesOf(q) = [i \in Index |-> StatusesOf(q)[i]]
BY DEF TasksOf, StatusesOf

LEMMA DequeLength ==
  ASSUME TypeOK, NEW w \in Workers
  PROVE  Len(deque[w]) \in Nat /\ BufferSize \in Nat \ {0}
BY Elements, SizeAssumption

LEMMA PushIsAbs ==
  ASSUME TypeOK, NEW w \in Workers, Pushes(w), Operand(w) \in Tasks
  PROVE  Deque(w)!AbsNext
<1> PICK n : n = Len(deque[w])
  OBVIOUS
<1> PICK c : c = Operand(w)
  OBVIOUS
<1> PICK q : q = deque[w]
  OBVIOUS
<1> PICK r : r = deque'[w]
  OBVIOUS
<1>1. /\ n \in Nat /\ n < BufferSize /\ Len(q) = n /\ Len(r) = n + 1
      /\ r[n + 1].task = c /\ r[n + 1].status = "ready"
      /\ \A i \in 1 .. n : r[i] = q[i]
  BY DequeLength DEF Pushes, Item
<1>2. n \in Index /\ \A i \in Index : i + 1 \in 1 .. n \/ i = n \/ ~(i < n + 1)
  BY <1>1, SizeAssumption DEF Index
<1>3. \A i \in Index : i # n => /\ TasksOf(r)[i] = TasksOf(q)[i]
                                /\ StatusesOf(r)[i] = StatusesOf(q)[i]
  <2> SUFFICES ASSUME NEW i \in Index, i # n
               PROVE  /\ TasksOf(r)[i] = TasksOf(q)[i]
                      /\ StatusesOf(r)[i] = StatusesOf(q)[i]
    OBVIOUS
  <2>1. i \in Nat /\ (i < n => i + 1 \in 1 .. n) /\ (i < n <=> i < n + 1)
    BY <1>1 DEF Index
  <2>2. CASE i < n
    <3>1. /\ i < Len(q) /\ i < Len(r) /\ r[i + 1] = q[i + 1]
      BY <1>1, <2>1, <2>2
    <3> QED  BY <3>1, ShownItem
  <2>3. CASE ~(i < n)
    <3>1. ~(i < Len(q)) /\ ~(i < Len(r))
      BY <1>1, <2>1, <2>3
    <3> QED  BY <3>1, ShownFree
  <2> QED  BY <2>2, <2>3
<1>4. TasksOf(r)[n] = c /\ StatusesOf(r)[n] = "ready"
  <2>1. n < Len(r)
    BY <1>1
  <2> QED  BY <1>1, <1>2, <2>1, ShownItem
<1>5. /\ TasksOf(r) = [TasksOf(q) EXCEPT ![n] = c]
      /\ StatusesOf(r) = [StatusesOf(q) EXCEPT ![n] = "ready"]
  <2>0. /\ TasksOf(q) = [i \in Index |-> TasksOf(q)[i]]
        /\ StatusesOf(q) = [i \in Index |-> StatusesOf(q)[i]]
        /\ TasksOf(r) = [i \in Index |-> TasksOf(r)[i]]
        /\ StatusesOf(r) = [i \in Index |-> StatusesOf(r)[i]]
    BY ShownFunctions
  <2>1. /\ TasksOf(r) = [TasksOf(q) EXCEPT ![n] = TasksOf(r)[n]]
        /\ StatusesOf(r) = [StatusesOf(q) EXCEPT ![n] = StatusesOf(r)[n]]
    BY <1>2, <1>3, <2>0
  <2> QED  BY <1>4, <2>1
<1>6. Deque(w)!AbsPush(c)
  BY <1>1, <1>5 DEF Deque!AbsPush
<1> QED  BY <1>6 DEF Deque!AbsNext

LEMMA SettleIsAbs ==
  ASSUME TypeOK, NEW w \in Workers, NEW s, SettlesTop(w, s),
         Len(deque[w]) <= BufferSize
  PROVE  Deque(w)!Settle(s)
<1> PICK n : n = Len(deque[w])
  OBVIOUS
<1> PICK q : q = deque[w]
  OBVIOUS
<1> PICK r : r = deque'[w]
  OBVIOUS
<1>1. /\ n \in Nat \ {0} /\ n <= BufferSize /\ Len(q) = n /\ Len(r) = n - 1
      /\ q[n].status = s /\ \A i \in 1 .. n - 1 : r[i] = q[i]
  BY DequeLength DEF SettlesTop
<1>2. n - 1 \in Index /\ (n - 1) + 1 = n /\ n - 1 < n
  BY <1>1, SizeAssumption DEF Index
<1>3. \A i \in Index : i # n - 1 => /\ TasksOf(r)[i] = TasksOf(q)[i]
                                    /\ StatusesOf(r)[i] = StatusesOf(q)[i]
  <2> SUFFICES ASSUME NEW i \in Index, i # n - 1
               PROVE  /\ TasksOf(r)[i] = TasksOf(q)[i]
                      /\ StatusesOf(r)[i] = StatusesOf(q)[i]
    OBVIOUS
  <2>1. /\ i \in Nat /\ (i < n - 1 => i + 1 \in 1 .. n - 1)
        /\ (i < n <=> i < n - 1)
    BY <1>1 DEF Index
  <2>2. CASE i < n
    <3>1. /\ i < Len(q) /\ i < Len(r) /\ r[i + 1] = q[i + 1]
      BY <1>1, <2>1, <2>2
    <3> QED  BY <3>1, ShownItem
  <2>3. CASE ~(i < n)
    <3>1. ~(i < Len(q)) /\ ~(i < Len(r))
      BY <1>1, <2>1, <2>3
    <3> QED  BY <3>1, ShownFree
  <2> QED  BY <2>2, <2>3
<1>4. /\ TasksOf(r)[n - 1] = NoTask /\ StatusesOf(r)[n - 1] = "free"
      /\ StatusesOf(q)[n - 1] = s
  <2> PICK l : l = n - 1
    OBVIOUS
  <2>1. /\ l \in Index /\ ~(l < Len(r)) /\ l < Len(q) /\ q[l + 1].status = s
    BY <1>1, <1>2
  <2>2. /\ TasksOf(r)[l] = NoTask /\ StatusesOf(r)[l] = "free"
        /\ StatusesOf(q)[l] = s
    BY <2>1, ShownItem, ShownFree
  <2> QED  BY <2>2
<1>5. /\ TasksOf(r) = [TasksOf(q) EXCEPT ![n - 1] = NoTask]
      /\ StatusesOf(r) = [StatusesOf(q) EXCEPT ![n - 1] = "free"]
  <2> PICK l : l = n - 1
    OBVIOUS
  <2>0. /\ TasksOf(q) = [i \in Index |-> TasksOf(q)[i]]
        /\ StatusesOf(q) = [i \in Index |-> StatusesOf(q)[i]]
        /\ TasksOf(r) = [i \in Index |-> TasksOf(r)[i]]
        /\ StatusesOf(r) = [i \in Index |-> StatusesOf(r)[i]]
    BY ShownFunctions
  <2>1. /\ TasksOf(r) = [TasksOf(q) EXCEPT ![l] = TasksOf(r)[l]]
        /\ StatusesOf(r) = [StatusesOf(q) EXCEPT ![l] = StatusesOf(r)[l]]
    BY <1>2, <1>3, <2>0
  <2> QED  BY <1>4, <2>1
<1> QED  BY <1>1, <1>4, <1>5 DEF Deque!Settle

(* An item changes its status: other tasks and other statuses stay.        *)
LEMMA MarkIsAbs ==
  ASSUME TypeOK, NEW w \in Workers, NEW i \in 1 .. Len(deque[w]),
         NEW s, NEW r, Marks(w, i, s, r), Len(deque[w]) <= BufferSize
  PROVE  /\ i - 1 \in Index /\ StatusesOf(deque[w])[i - 1] = s
         /\ StatusesOf(deque'[w])
              = [StatusesOf(deque[w]) EXCEPT ![i - 1] = r]
         /\ Len(deque'[w]) = Len(deque[w])
         /\ TasksOf(deque'[w]) = TasksOf(deque[w])
         /\ \A v \in Workers \ {w} : deque'[v] = deque[v]
<1> PICK n : n = Len(deque[w])
  OBVIOUS
<1> PICK q : q = deque[w]
  OBVIOUS
<1> PICK p : p = deque'[w]
  OBVIOUS
<1>1. /\ n \in Nat \ {0} /\ n <= BufferSize /\ Len(q) = n /\ Len(p) = n
      /\ q[i].status = s /\ p[i].status = r /\ p[i].task = q[i].task
      /\ \A j \in 1 .. n : j # i => p[j] = q[j]
  BY DequeLength DEF Marks, Takes
<1>2. /\ i \in 1 .. n /\ i - 1 \in Index /\ (i - 1) + 1 = i /\ i - 1 < n
      /\ \A j \in Index : j \in Nat /\ (j < n => j + 1 \in 1 .. n)
      /\ \A j \in Index : j # i - 1 => j + 1 # i
  BY <1>1, SizeAssumption DEF Index
<1>3. \A j \in Index : j # i - 1 => /\ TasksOf(p)[j] = TasksOf(q)[j]
                                    /\ StatusesOf(p)[j] = StatusesOf(q)[j]
  <2> SUFFICES ASSUME NEW j \in Index, j # i - 1
               PROVE  /\ TasksOf(p)[j] = TasksOf(q)[j]
                      /\ StatusesOf(p)[j] = StatusesOf(q)[j]
    OBVIOUS
  <2>1. CASE j < n
    <3>1. /\ j < Len(q) /\ j < Len(p) /\ p[j + 1] = q[j + 1]
      BY <1>1, <1>2, <2>1
    <3> QED  BY <3>1, ShownItem
  <2>2. CASE ~(j < n)
    <3>1. ~(j < Len(q)) /\ ~(j < Len(p))
      BY <1>1, <2>2
    <3> QED  BY <3>1, ShownFree
  <2> QED  BY <2>1, <2>2
<1>4. /\ TasksOf(p)[i - 1] = TasksOf(q)[i - 1] /\ StatusesOf(p)[i - 1] = r
      /\ StatusesOf(q)[i - 1] = s
  <2> PICK l : l = i - 1
    OBVIOUS
  <2>1. /\ l \in Index /\ l < Len(p) /\ l < Len(q) /\ l + 1 = i
    BY <1>1, <1>2
  <2>2. /\ TasksOf(p)[l] = TasksOf(q)[l] /\ StatusesOf(p)[l] = r
        /\ StatusesOf(q)[l] = s
    BY <1>1, <2>1, ShownItem
  <2> QED  BY <2>2
<1>5. StatusesOf(p) = [StatusesOf(q) EXCEPT ![i - 1] = r]
  <2> PICK l : l = i - 1
    OBVIOUS
  <2>0. /\ StatusesOf(q) = [j \in Index |-> StatusesOf(q)[j]]
        /\ StatusesOf(p) = [j \in Index |-> StatusesOf(p)[j]]
    BY ShownFunctions
  <2>1. StatusesOf(p) = [StatusesOf(q) EXCEPT ![l] = StatusesOf(p)[l]]
    BY <1>2, <1>3, <2>0
  <2> QED  BY <1>4, <2>1
<1>6. TasksOf(p) = TasksOf(q)
  <2>1. /\ TasksOf(p) = [j \in Index |-> TasksOf(p)[j]]
        /\ TasksOf(q) = [j \in Index |-> TasksOf(q)[j]]
    BY DEF TasksOf
  <2>2. \A j \in Index : TasksOf(p)[j] = TasksOf(q)[j]
    BY <1>3, <1>4
  <2> QED  BY <2>1, <2>2
<1>7. \A v \in Workers \ {w} : deque'[v] = deque[v]
  <2>1. deque \in [Workers -> Seq(ItemType)] /\ deque' \in [Workers -> Seq(ItemType)]
    BY DEF TypeOK, Marks
  <2>2. \A v \in Workers \ {w} :
          /\ Len(deque'[v]) = Len(deque[v])
          /\ \A j \in 1 .. Len(deque[v]) : deque'[v][j] = deque[v][j]
    BY DEF Marks, Takes
  <2> QED  BY <2>1, <2>2
<1> QED  BY <1>1, <1>2, <1>4, <1>5, <1>6, <1>7

(* Statuses below the i-th item.                                           *)
LEMMA OldestShown ==
  ASSUME TypeOK, NEW w \in Workers, NEW i \in 1 .. Len(deque[w]),
         OldestReady(w, i), Len(deque[w]) <= BufferSize
  PROVE  \A j \in 0 .. (i - 1) - 1 : StatusesOf(deque[w])[j] # "ready"
<1> SUFFICES ASSUME NEW j \in 0 .. (i - 1) - 1
             PROVE  StatusesOf(deque[w])[j] # "ready"
  OBVIOUS
<1>1. /\ j \in Index /\ j < Len(deque[w]) /\ j + 1 \in 1 .. i - 1
  BY DequeLength DEF Index
<1>2. StatusesOf(deque[w])[j] = deque[w][j + 1].status
  BY <1>1, ShownItem
<1> QED  BY <1>1, <1>2 DEF OldestReady

(* No deque is longer than its buffer.                                     *)
Bounded == \A w \in Workers : Len(deque[w]) <= BufferSize

LEMMA DequesRefine ==
  ASSUME PoolInv, Bounded, [Next]_vars, NEW w \in Workers
  PROVE  [Deque(w)!AbsNext]_(Deque(w)!absVars)
<1>1. TypeOK /\ DequesMove
  BY DequeSteps DEF PoolInv
<1>2. CASE deque'[w] = deque[w]
  BY <1>2 DEF Deque!absVars
<1>3. CASE Pushes(w)
  <2>1. Operand(w) \in Tasks
    BY <1>3, NextChild DEF Pushes
  <2> QED  BY <1>1, <1>3, <2>1, PushIsAbs
<1>4. CASE SettlesTop(w, "ready") \/ SettlesTop(w, "done")
  <2>1. Deque(w)!Settle("ready") \/ Deque(w)!Settle("done")
    BY <1>1, <1>4, SettleIsAbs DEF Bounded
  <2> QED  BY <2>1 DEF Deque!AbsNext, Deque!AbsTake, Deque!AbsReclaim
<1>5. ASSUME NEW i \in 1 .. Len(deque[w]), Marks(w, i, "ready", "stolen"),
             OldestReady(w, i)
      PROVE  Deque(w)!AbsNext
  <2>1. /\ i - 1 \in Index /\ StatusesOf(deque[w])[i - 1] = "ready"
        /\ StatusesOf(deque'[w])
             = [StatusesOf(deque[w]) EXCEPT ![i - 1] = "stolen"]
        /\ Len(deque'[w]) = Len(deque[w])
        /\ TasksOf(deque'[w]) = TasksOf(deque[w])
    BY <1>1, <1>5, MarkIsAbs DEF Bounded
  <2>2. \A j \in 0 .. (i - 1) - 1 : StatusesOf(deque[w])[j] # "ready"
    BY <1>1, <1>5, OldestShown DEF Bounded
  <2> PICK l : l = i - 1
    OBVIOUS
  <2>3. /\ l \in Deque(w)!Places /\ StatusesOf(deque[w])[l] = "ready"
        /\ StatusesOf(deque'[w])
             = [StatusesOf(deque[w]) EXCEPT ![l] = "stolen"]
        /\ \A j \in 0 .. l - 1 : StatusesOf(deque[w])[j] # "ready"
    BY <2>1, <2>2 DEF Deque!Places, Index
  <2>4. Deque(w)!AbsSteal
    BY <2>1, <2>3 DEF Deque!AbsSteal
  <2> QED  BY <2>4 DEF Deque!AbsNext
<1>6. ASSUME NEW i \in 1 .. Len(deque[w]), Marks(w, i, "stolen", "done")
      PROVE  Deque(w)!AbsNext
  <2>1. /\ i - 1 \in Index /\ StatusesOf(deque[w])[i - 1] = "stolen"
        /\ StatusesOf(deque'[w])
             = [StatusesOf(deque[w]) EXCEPT ![i - 1] = "done"]
        /\ Len(deque'[w]) = Len(deque[w])
        /\ TasksOf(deque'[w]) = TasksOf(deque[w])
    BY <1>1, <1>6, MarkIsAbs DEF Bounded
  <2> PICK l : l = i - 1
    OBVIOUS
  <2>2. /\ l \in Deque(w)!Places /\ StatusesOf(deque[w])[l] = "stolen"
        /\ StatusesOf(deque'[w])
             = [StatusesOf(deque[w]) EXCEPT ![l] = "done"]
    BY <2>1 DEF Deque!Places, Index
  <2>3. Deque(w)!AbsFinish
    BY <2>1, <2>2 DEF Deque!AbsFinish
  <2> QED  BY <2>3 DEF Deque!AbsNext
<1>7. ASSUME NEW v \in Workers, v # w, NEW i \in 1 .. Len(deque[v]), NEW s,
             NEW r, Marks(v, i, s, r)
      PROVE  deque'[w] = deque[w]
  BY <1>1, <1>7, MarkIsAbs DEF Bounded
<1>8. ASSUME NEW v \in Workers, v # w, NEW s, Pushes(v) \/ SettlesTop(v, s)
      PROVE  deque'[w] = deque[w]
  BY <1>8 DEF Pushes, SettlesTop
<1> QED  BY <1>1, <1>2, <1>3, <1>4, <1>5, <1>6, <1>7, <1>8 DEF DequesMove

LEMMA BoundedStep ==
  ASSUME PoolInv, Bounded, [Next]_vars
  PROVE  Bounded'
<1> SUFFICES ASSUME NEW w \in Workers
             PROVE  Len(deque'[w]) <= BufferSize
  BY DEF Bounded
<1>1. Len(deque[w]) \in Nat /\ Len(deque[w]) <= BufferSize /\ BufferSize \in Nat
  BY DequeLength DEF PoolInv, Bounded
<1>2. \/ Len(deque'[w]) = Len(deque[w]) \/ Len(deque'[w]) = Len(deque[w]) - 1
      \/ Len(deque[w]) < BufferSize /\ Len(deque'[w]) = Len(deque[w]) + 1
  BY DequeSteps DEF DequesMove, Pushes, SettlesTop, Marks, Takes
<1> QED  BY <1>1, <1>2

LEMMA DequesStartFree ==
  ASSUME Init, NEW w \in Workers
  PROVE  Deque(w)!AbsInit /\ Len(deque[w]) = 0
<1>1. Len(deque[w]) = 0
  BY DEF Init
<1>2. \A i \in Index : ~(i < Len(deque[w]))
  BY <1>1, SizeAssumption DEF Index
<1>3. /\ TasksOf(deque[w]) = [i \in Index |-> NoTask]
      /\ StatusesOf(deque[w]) = [i \in Index |-> "free"]
  BY <1>2 DEF TasksOf, StatusesOf
<1> QED  BY <1>1, <1>3 DEF Deque!AbsInit, Deque!Places, Index

(* Every worker's deque is used as WorkDeque allows, which SplitDeque and  *)
(* ChaseLev implement: one owner at its newest end, thieves at its oldest. *)
THEOREM DequesUsedAsPromised == Spec => UsesWorkDeque
<1>1. Init => Bounded /\ \A w \in Workers : Deque(w)!AbsInit
  BY DequesStartFree, SizeAssumption DEF Bounded
<1>2. PoolInv /\ Bounded /\ [Next]_vars => Bounded'
  BY BoundedStep
<1>3. PoolInv /\ Bounded /\ [Next]_vars
        => [\A w \in Workers : [Deque(w)!AbsNext]_(Deque(w)!absVars)]_vars
  BY DequesRefine
<1> QED  BY <1>1, <1>2, <1>3, PoolInvariance, PTL DEF Spec, UsesWorkDeque

------------------------------------------------------------------------------
(* What each step does to the frames                                       *)

(* The i-th frame of w goes on as g: it waits only for an item that is not *)
(* ready, and what it holds it held before, or has not begun.              *)
Follows(w, i, g) ==
  LET f == stack[w][i]
  IN  /\ g.task = f.task /\ g.base = f.base
      /\ g.at # "body" =>
           /\ g.pc = f.pc
           /\ \/ f.at # "body"
              \/ i = Len(stack[w]) /\ deque[w][Len(deque[w])].status # "ready"
      /\ \A j \in 1 .. Len(Holding(g)) :
           \/ \E l \in 1 .. Len(Holding(f)) : Holding(f)[l] = Holding(g)[j]
           \/ begun'[Holding(g)[j]] = 0

(* A frame of w that has just been entered, for a task that was waiting in *)
(* a deque, or that a running body calls, or that run starts with.         *)
Entered(w, g) ==
  /\ g.pc = 1 /\ g.at = "body" /\ g.task \in Tasks
  /\ \/ g.task \in Pending
     \/ \E t \in Active : \E k \in 1 .. Len(Program[t]) :
          Starts(t, k) /\ g.task = Child(t, k)
     \/ w = Root /\ g.task \in Mains

FramesMove ==
  \A w \in Workers : \A i \in 1 .. Len(stack'[w]) :
    \/ i \in 1 .. Len(stack[w]) /\ Follows(w, i, stack'[w][i])
    \/ i = Len(stack'[w]) /\ Entered(w, stack'[w][i])

LEMMA FollowsItself ==
  ASSUME NEW w, NEW i
  PROVE  Follows(w, i, stack[w][i])
BY DEF Follows

LEMMA StaysFollows ==
  ASSUME TypeOK, NEW w \in Workers, Running(w), NEW a, NEW v,
         Top(w).at # "body" \/ deque[w][Len(deque[w])].status # "ready"
  PROVE  Follows(w, Len(stack[w]), Stays(w, a, v))
<1> PICK f : f = Top(w)
  OBVIOUS
<1> PICK g : g = Stays(w, a, v)
  OBVIOUS
<1>1. f = stack[w][Len(stack[w])] /\ f \in FrameType
  BY TopFrame
<1>2. g = [f EXCEPT !.at = a, !.thief = v]
  BY DEF Stays
<1>3. g.task = f.task /\ g.base = f.base /\ g.pc = f.pc
  BY <1>1, <1>2 DEF FrameType
<1>4. Holding(g) = Holding(f)
  BY <1>3 DEF Holding
<1> QED  BY <1>1, <1>3, <1>4 DEF Follows

LEMMA GoesFollows ==
  ASSUME TypeOK, StackInv, NEW w \in Workers, Running(w),
         Top(w).pc <= Len(Body(w)),
         Body(w)[Top(w).pc].do = "spawn" => begun'[Operand(w)] = 0
  PROVE  Follows(w, Len(stack[w]), Goes(w))
<1> PICK f : f = Top(w)
  OBVIOUS
<1> PICK g : g = Goes(w)
  OBVIOUS
<1> PICK h : h = Holding(f)
  OBVIOUS
<1> PICK e : e = Held[f.task][f.pc]
  OBVIOUS
<1> PICK d : d = Program[f.task][f.pc].do
  OBVIOUS
<1>1. f = stack[w][Len(stack[w])] /\ f \in FrameType /\ f.pc \in Nat
  BY TopFrame
<1>2. g = [f EXCEPT !.pc = f.pc + 1, !.at = "body", !.thief = NoWorker]
  BY <1>1 DEF Goes
<1>3. /\ g.task = f.task /\ g.base = f.base /\ g.pc = f.pc + 1
      /\ g.at = "body"
  BY <1>1, <1>2 DEF FrameType
<1>4. Holding(g) = e
  <2>1. g.pc - 1 = f.pc
    BY <1>1, <1>3
  <2> QED  BY <1>3, <2>1 DEF Holding
<1>5. /\ Len(h) \in Nat /\ Len(e) \in Nat /\ d \in {"spawn", "sync", "call"}
      /\ d = "spawn" => /\ Len(e) = Len(h) + 1 /\ e[Len(h) + 1] = Operand(w)
                        /\ \A j \in 1 .. Len(h) : e[j] = h[j]
      /\ d = "sync" => /\ Len(h) = Len(e) + 1
                       /\ \A j \in 1 .. Len(e) : h[j] = e[j]
      /\ d = "call" => e = h
  <2>1. f.pc \in 1 .. Len(Program[f.task]) /\ f.task \in Tasks
    BY HoldsNext, TopFrame DEF Body
  <2>2. d \in {"spawn", "sync", "call"}
    BY <2>1, ProgramType
  <2> QED  BY <2>2, HoldsNext DEF Body
<1>6. \A j \in 1 .. Len(e) :
        (\E l \in 1 .. Len(h) : h[l] = e[j]) \/ begun'[e[j]] = 0
  <2> SUFFICES ASSUME NEW j \in 1 .. Len(e)
               PROVE  (\E l \in 1 .. Len(h) : h[l] = e[j]) \/ begun'[e[j]] = 0
    OBVIOUS
  <2>1. CASE d = "spawn"
    <3>1. j \in 1 .. Len(h) \/ j = Len(h) + 1
      BY <1>5, <2>1
    <3>2. begun'[Operand(w)] = 0
      BY <2>1 DEF Body
    <3> QED  BY <1>5, <2>1, <3>1, <3>2
  <2>2. CASE d = "sync"
    <3>1. j \in 1 .. Len(h)
      BY <1>5, <2>2
    <3> QED  BY <1>5, <2>2, <3>1
  <2>3. CASE d = "call"
    BY <1>5, <2>3
  <2> QED  BY <1>5, <2>1, <2>2, <2>3
<1> QED  BY <1>1, <1>3, <1>4, <1>6 DEF Follows

LEMMA ReplacedMoves ==
  ASSUME TypeOK, NEW w \in Workers, NEW g, Replaced(w, g),
         Follows(w, Len(stack[w]), g)
  PROVE  FramesMove
<1> SUFFICES ASSUME NEW v \in Workers, NEW i \in 1 .. Len(stack'[v])
             PROVE  i \in 1 .. Len(stack[v]) /\ Follows(v, i, stack'[v][i])
  BY DEF FramesMove
<1>1. /\ v # w => stack'[v] = stack[v]
      /\ v = w => /\ Len(stack'[v]) = Len(stack[v]) /\ Len(stack[w]) \in Nat
                  /\ i = Len(stack[w]) => stack'[v][i] = g
                  /\ i # Len(stack[w]) => stack'[v][i] = stack[v][i]
  BY TopFrame DEF Replaced, OnlyStackOf
<1> QED  BY <1>1, FollowsItself

LEMMA GrownMoves ==
  ASSUME TypeOK, NEW w \in Workers, NEW g, NEW f, Grown(w, g, f),
         Follows(w, Len(stack[w]), g), Entered(w, f)
  PROVE  FramesMove
<1> SUFFICES ASSUME NEW v \in Workers, NEW i \in 1 .. Len(stack'[v])
             PROVE  \/ i \in 1 .. Len(stack[v]) /\ Follows(v, i, stack'[v][i])
                    \/ i = Len(stack'[v]) /\ Entered(v, stack'[v][i])
  BY DEF FramesMove
<1>1. CASE v # w
  BY <1>1, FollowsItself DEF Grown, OnlyStackOf
<1>2. CASE v = w
  <2> PICK n : n = Len(stack[w])
    OBVIOUS
  <2>1. /\ n \in Nat \ {0} /\ Len(stack'[v]) = n + 1
        /\ stack'[v][n] = g /\ stack'[v][n + 1] = f
        /\ \A j \in 1 .. n - 1 : stack'[v][j] = stack[v][j]
    BY <1>2, TopFrame DEF Grown
  <2>2. i = n + 1 \/ i = n \/ i \in 1 .. n - 1
    BY <2>1
  <2>3. CASE i = n + 1
    BY <1>2, <2>1, <2>3
  <2>4. CASE i = n
    <3>1. i \in 1 .. Len(stack[v])
      BY <1>2, <2>1, <2>4
    <3> QED  BY <1>2, <2>1, <2>4, <3>1
  <2>5. CASE i \in 1 .. n - 1
    <3>1. i \in 1 .. Len(stack[v]) /\ stack'[v][i] = stack[v][i]
      BY <1>2, <2>1, <2>5
    <3> QED  BY <3>1, FollowsItself
  <2> QED  BY <2>2, <2>3, <2>4, <2>5
<1> QED  BY <1>1, <1>2

LEMMA StartedMoves ==
  ASSUME NEW w \in Workers, NEW f, Started(w, f), Entered(w, f)
  PROVE  FramesMove
<1> SUFFICES ASSUME NEW v \in Workers, NEW i \in 1 .. Len(stack'[v])
             PROVE  \/ i \in 1 .. Len(stack[v]) /\ Follows(v, i, stack'[v][i])
                    \/ i = Len(stack'[v]) /\ Entered(v, stack'[v][i])
  BY DEF FramesMove
<1>1. CASE v # w
  BY <1>1, FollowsItself DEF Started, OnlyStackOf
<1>2. CASE v = w
  <2>1. Len(stack'[w]) = 1 /\ stack'[w][1] = f
    BY DEF Started
  <2>2. i = 1 /\ i = Len(stack'[w]) /\ stack'[w][i] = f
    BY <1>2, <2>1
  <2> QED  BY <1>2, <2>2
<1> QED  BY <1>1, <1>2

LEMMA ShrunkMoves ==
  ASSUME TypeOK, NEW w \in Workers, Popped(w) \/ Unwound(w)
  PROVE  FramesMove
<1> SUFFICES ASSUME NEW v \in Workers, NEW i \in 1 .. Len(stack'[v])
             PROVE  i \in 1 .. Len(stack[v]) /\ Follows(v, i, stack'[v][i])
  BY DEF FramesMove
<1>1. i \in 1 .. Len(stack[v]) /\ stack'[v][i] = stack[v][i]
  BY PoppedKeeps, UnwoundKeeps
<1> QED  BY <1>1, FollowsItself

LEMMA SpawnMoves ==
  ASSUME PoolInv, NEW w \in Workers, Spawn(w)
  PROVE  FramesMove
<1> DEFINE g == Goes(w)
<1>1. /\ TypeOK /\ StackInv /\ Running(w) /\ Top(w).pc <= Len(Body(w))
      /\ Body(w)[Top(w).pc].do = "spawn" /\ begun' = begun
      /\ stack' = [stack EXCEPT ![w] = WithTop(w, g)]
  BY DEF PoolInv, Spawn, Doing, InBody, Advanced, Goes
<1>2. begun'[Operand(w)] = 0
  BY <1>1, NextChild DEF Fresh
<1>3. Continues(w, g) /\ Follows(w, Len(stack[w]), g)
  BY <1>1, <1>2, GoesContinues, GoesFollows
<1> HIDE DEF g
<1>4. Replaced(w, g)
  BY <1>1, <1>3, WithTopReplaced DEF Continues
<1> QED  BY <1>1, <1>3, <1>4, ReplacedMoves

LEMMA LookDoneMoves ==
  ASSUME PoolInv, NEW w \in Workers, LookDone(w)
  PROVE  FramesMove
<1> DEFINE g == Goes(w)
<1>1. /\ TypeOK /\ StackInv /\ Running(w) /\ Top(w).at # "body"
      /\ stack' = [stack EXCEPT ![w] = WithTop(w, g)]
  BY DEF PoolInv, LookDone, Advanced, Goes
<1>2. Top(w).pc <= Len(Body(w)) /\ Body(w)[Top(w).pc].do = "sync"
  BY <1>1, AtLook
<1>3. Continues(w, g) /\ Follows(w, Len(stack[w]), g)
  BY <1>1, <1>2, GoesContinues, GoesFollows
<1> HIDE DEF g
<1>4. Replaced(w, g)
  BY <1>1, <1>3, WithTopReplaced DEF Continues
<1> QED  BY <1>1, <1>3, <1>4, ReplacedMoves

(* A worker at its sync looks, leaps, or looks again.                      *)
LEMMA StaysMoves ==
  ASSUME TypeOK, StackInv, NEW w \in Workers, Running(w),
         NEW a \in {"look", "leap"}, NEW v \in Workers \cup {NoWorker},
         a = "leap" => v \in Workers,
         Top(w).pc <= Len(Body(w)), Body(w)[Top(w).pc].do = "sync",
         Top(w).at # "body" \/ deque[w][Len(deque[w])].status # "ready",
         stack' = [stack EXCEPT ![w] = WithTop(w, Stays(w, a, v))]
  PROVE  FramesMove
<1> DEFINE g == Stays(w, a, v)
<1>1. Continues(w, g) /\ Follows(w, Len(stack[w]), g)
  BY StaysContinues, StaysFollows
<1>2. stack' = [stack EXCEPT ![w] = WithTop(w, g)]
  OBVIOUS
<1> HIDE DEF g
<1>3. Replaced(w, g)
  BY <1>1, <1>2, WithTopReplaced DEF Continues
<1> QED  BY <1>1, <1>3, ReplacedMoves

LEMMA SyncStolenMoves ==
  ASSUME PoolInv, NEW w \in Workers, SyncStolen(w)
  PROVE  FramesMove
<1>1. /\ TypeOK /\ StackInv /\ Running(w) /\ Top(w).pc <= Len(Body(w))
      /\ Body(w)[Top(w).pc].do = "sync"
      /\ deque[w][Len(deque[w])].status # "ready"
      /\ stack' = [stack EXCEPT ![w] = WithTop(w, Stays(w, "look", NoWorker))]
  BY DEF PoolInv, SyncStolen, Doing, InBody, Newest, Looking, Stays
<1> QED  BY <1>1, StaysMoves

LEMMA LeapFailMoves ==
  ASSUME PoolInv, NEW w \in Workers, LeapFail(w)
  PROVE  FramesMove
<1>1. /\ TypeOK /\ StackInv /\ Running(w) /\ Top(w).at # "body"
      /\ stack' = [stack EXCEPT ![w] = WithTop(w, Stays(w, "look", NoWorker))]
  BY DEF PoolInv, LeapFail, Looking, Stays
<1>2. Top(w).pc <= Len(Body(w)) /\ Body(w)[Top(w).pc].do = "sync"
  BY <1>1, AtLook
<1> QED  BY <1>1, <1>2, StaysMoves

LEMMA LookBusyMoves ==
  ASSUME PoolInv, NEW w \in Workers, LookBusy(w)
  PROVE  FramesMove
<1> PICK v : v = Newest(deque[w]).thief
  OBVIOUS
<1>1. /\ TypeOK /\ StackInv /\ ItemInv /\ Running(w) /\ Top(w).at # "body"
      /\ Newest(deque[w]).status = "stolen"
      /\ stack' = [stack EXCEPT ![w] = WithTop(w, Stays(w, "leap", v))]
  BY DEF PoolInv, LookBusy, Stays
<1>2. Top(w).pc <= Len(Body(w)) /\ Body(w)[Top(w).pc].do = "sync"
  BY <1>1, AtLook
<1>3. v \in Workers
  <2>1. /\ Len(deque[w]) \in 1 .. Len(deque[w])
        /\ Newest(deque[w]) = deque[w][Len(deque[w])]
    BY <1>1, <1>2, AtSync
  <2>2. Tracked(w, Len(deque[w]))
    BY <1>1, <2>1 DEF ItemInv
  <2> QED  BY <1>1, <2>1, <2>2 DEF Tracked
<1> QED  BY <1>1, <1>2, <1>3, StaysMoves

LEMMA CallMoves ==
  ASSUME PoolInv, NEW w \in Workers, Call(w)
  PROVE  FramesMove
<1> DEFINE g == Goes(w)
<1> PICK f : f = Top(w)
  OBVIOUS
<1> PICK c : c = Operand(w)
  OBVIOUS
<1> PICK e : e = Frame(c, Local, Len(deque[w]))
  OBVIOUS
<1>1. /\ TypeOK /\ StackInv /\ Running(w) /\ Top(w).pc <= Len(Body(w))
      /\ Body(w)[Top(w).pc].do = "call"
      /\ stack' = [stack EXCEPT ![w] = Append(WithTop(w, g), e)]
  BY DEF PoolInv, Call, Doing, InBody, Advanced, Goes
<1>2. Continues(w, g) /\ Follows(w, Len(stack[w]), g)
  BY <1>1, GoesContinues, GoesFollows
<1> HIDE DEF g
<1>3. c \in Tasks
  BY <1>1, NextChild
<1>4. e \in FrameType /\ e.task = c /\ e.pc = 1 /\ e.at = "body"
  <2>1. Local \in HomeType /\ Len(deque[w]) \in Nat
    BY <1>1, Elements DEF Local, HomeType
  <2> QED  BY <1>3, <2>1, FrameTyped DEF Frame
<1>5. Grown(w, g, e)
  BY <1>1, <1>2, <1>4, WithTopGrown DEF Continues
<1>6. Entered(w, e)
  <2>1. /\ f.task \in Tasks /\ f.pc \in 1 .. Len(Program[f.task])
        /\ c = Child(f.task, f.pc) /\ Starts(f.task, f.pc)
    BY <1>1, TopFrame, HoldsNext DEF Body, Starts
  <2>2. f.task \in Active
    BY <1>1, TopFrame, ActiveTasks
  <2> QED  BY <1>3, <1>4, <2>1, <2>2 DEF Entered
<1> QED  BY <1>1, <1>2, <1>5, <1>6, GrownMoves

LEMMA SyncWorkMoves ==
  ASSUME PoolInv, NEW w \in Workers, SyncWork(w)
  PROVE  FramesMove
<1> DEFINE g == Goes(w)
<1> PICK m : m = Len(deque[w])
  OBVIOUS
<1> PICK c : c = Operand(w)
  OBVIOUS
<1> PICK e : e = Frame(c, Local, m - 1)
  OBVIOUS
<1>1. /\ TypeOK /\ StackInv /\ Running(w) /\ Top(w).pc <= Len(Body(w))
      /\ Body(w)[Top(w).pc].do = "sync"
  BY DEF PoolInv, SyncWork, Doing, InBody
<1>2. m \in 1 .. m /\ Newest(deque[w]) = deque[w][m] /\ c = deque[w][m].task
  BY <1>1, AtSync
<1>3. stack' = [stack EXCEPT ![w] = Append(WithTop(w, g), e)]
  BY <1>2 DEF SyncWork, Advanced, Goes
<1>4. Continues(w, g) /\ Follows(w, Len(stack[w]), g)
  BY <1>1, GoesContinues, GoesFollows
<1> HIDE DEF g
<1>5. c \in Tasks /\ c \in Pending
  BY <1>1, <1>2, Elements, PendingTasks DEF Unqueued
<1>6. e \in FrameType /\ e.task = c /\ e.pc = 1 /\ e.at = "body"
  <2>1. Local \in HomeType /\ m - 1 \in Nat
    BY <1>2 DEF Local, HomeType
  <2> QED  BY <1>5, <2>1, FrameTyped DEF Frame
<1>7. Grown(w, g, e)
  BY <1>1, <1>3, <1>4, <1>6, WithTopGrown DEF Continues
<1>8. Entered(w, e)
  BY <1>5, <1>6 DEF Entered
<1> QED  BY <1>1, <1>4, <1>7, <1>8, GrownMoves

LEMMA StolenEntered ==
  ASSUME TypeOK, NEW w \in Workers, NEW v \in Workers,
         NEW i \in 1 .. Len(deque[v])
  PROVE  Entered(w, StolenFrame(w, v, i))
<1> PICK f : f = StolenFrame(w, v, i)
  OBVIOUS
<1>1. /\ f.task = deque[v][i].task /\ f.pc = 1 /\ f.at = "body"
      /\ f.task \in Tasks
  BY StolenFrameTyped DEF StolenFrame, Frame
<1>2. f.task \in Pending
  BY <1>1, PendingTasks DEF Unqueued
<1> QED  BY <1>1, <1>2 DEF Entered

LEMMA LeapMoves ==
  ASSUME PoolInv, NEW w \in Workers, Leap(w)
  PROVE  FramesMove
<1> DEFINE g == Stays(w, "look", NoWorker)
<1>1. /\ TypeOK /\ StackInv /\ Running(w) /\ Top(w).at # "body"
      /\ Top(w).at = "leap"
  BY DEF PoolInv, Leap
<1>2. /\ Top(w).pc <= Len(Body(w)) /\ Body(w)[Top(w).pc].do = "sync"
      /\ Top(w).thief \in Workers
  BY <1>1, AtLook
<1>3. PICK v \in Workers : StealWork(w, v, Looking(w))
  BY <1>2 DEF Leap, Victims
<1>4. PICK i \in 1 .. Len(deque[v]) :
        stack' = [stack EXCEPT ![w] = Append(Looking(w), StolenFrame(w, v, i))]
  BY <1>3 DEF StealWork
<1> PICK f : f = StolenFrame(w, v, i)
  OBVIOUS
<1>5. f \in FrameType /\ Entered(w, f)
  BY <1>1, StolenFrameTyped, StolenEntered
<1>6. Continues(w, g) /\ Follows(w, Len(stack[w]), g)
  BY <1>1, <1>2, StaysContinues, StaysFollows
<1>7. stack' = [stack EXCEPT ![w] = Append(WithTop(w, g), f)]
  BY <1>4 DEF Looking, Stays
<1> HIDE DEF g
<1>8. Grown(w, g, f)
  BY <1>1, <1>5, <1>6, <1>7, WithTopGrown DEF Continues
<1> QED  BY <1>1, <1>5, <1>6, <1>8, GrownMoves

LEMMA StealRandomMoves ==
  ASSUME PoolInv, NEW w \in Workers, StealRandom(w)
  PROVE  FramesMove
<1>1. TypeOK /\ ~Running(w)
  BY DEF PoolInv, StealRandom
<1>2. PICK v \in Workers : StealWork(w, v, <<>>)
  BY DEF StealRandom
<1>3. PICK i \in 1 .. Len(deque[v]) :
        stack' = [stack EXCEPT ![w] = Append(<<>>, StolenFrame(w, v, i))]
  BY <1>2 DEF StealWork
<1> PICK f : f = StolenFrame(w, v, i)
  OBVIOUS
<1>4. f \in FrameType /\ Entered(w, f)
  BY <1>1, StolenFrameTyped, StolenEntered
<1>5. stack' = [stack EXCEPT ![w] = <<f>>]
  BY <1>3
<1>6. Started(w, f)
  BY <1>1, <1>4, <1>5, PushedAlone
<1> QED  BY <1>4, <1>6, StartedMoves

LEMMA RunMoves ==
  ASSUME PoolInv, NEW t \in Mains, Run(t)
  PROVE  FramesMove
<1> PICK f : f = Frame(t, Local, Len(deque[Root]))
  OBVIOUS
<1>1. /\ TypeOK /\ ~Running(Root) /\ t \in Tasks /\ Root \in Workers
      /\ stack' = [stack EXCEPT ![Root] = <<f>>]
  BY ProgramAssumption, WorkerAssumption DEF PoolInv, Run
<1>2. f \in FrameType /\ f.task = t /\ f.pc = 1 /\ f.at = "body"
  <2>1. Local \in HomeType /\ Len(deque[Root]) \in Nat
    BY <1>1, Elements DEF Local, HomeType
  <2> QED  BY <1>1, <2>1, FrameTyped DEF Frame
<1>3. Started(Root, f)
  BY <1>1, <1>2, PushedAlone
<1>4. Entered(Root, f)
  BY <1>1, <1>2 DEF Entered
<1> QED  BY <1>1, <1>3, <1>4, StartedMoves

LEMMA UnwindMoves ==
  ASSUME PoolInv, NEW w \in Workers, Unwind(w)
  PROVE  FramesMove
<1>1. TypeOK /\ Unwound(w)
  BY DEF PoolInv, Unwind, Unwound, OnlyStackOf, TypeOK
<1> QED  BY <1>1, ShrunkMoves

LEMMA FrameSteps ==
  ASSUME PoolInv, [Next]_vars
  PROVE  FramesMove
<1>1. CASE UNCHANGED vars \/ Idle
  <2>1. stack' = stack
    BY <1>1 DEF vars, Idle
  <2> QED  BY <2>1, FollowsItself DEF FramesMove
<1>2. ASSUME NEW t \in Mains, Run(t)  PROVE FramesMove
  BY <1>2, RunMoves
<1>3. ASSUME NEW w \in Workers, Step(w)  PROVE FramesMove
  <2>1. CASE Overflow(w)
    BY <2>1, UnwindMoves DEF Overflow
  <2>2. CASE Return(w)
    <3>1. TypeOK /\ Popped(w)
      BY <2>2, ReturnEffect DEF PoolInv
    <3> QED  BY <3>1, ShrunkMoves
  <2> QED
    BY <1>3, <2>1, <2>2, SpawnMoves, CallMoves, SyncWorkMoves,
       SyncStolenMoves, LookDoneMoves, LookBusyMoves, LeapMoves, LeapFailMoves
    DEF Step
<1>4. ASSUME NEW w \in Workers, StealRandom(w)  PROVE FramesMove
  BY <1>4, StealRandomMoves
<1>5. ASSUME NEW w \in Workers, Panic(w)  PROVE FramesMove
  BY <1>5, UnwindMoves DEF Panic
<1> QED  BY <1>1, <1>2, <1>3, <1>4, <1>5 DEF Next

------------------------------------------------------------------------------
(* No circle of waits                                                      *)

(* A frame has at most those waits that it had, if the frame above it and  *)
(* the tasks it waits for are old.                                         *)
LEMMA OrderStep ==
  ASSUME PoolInv, OrderInv, PoolInv', [Next]_vars
  PROVE  OrderInv'
<1>1. FramesMove
  BY FrameSteps
<1> SUFFICES ASSUME NEW A \in SUBSET Active', A # {}
             PROVE  \E t \in A : \A u \in A : ~WaitsFor(t, u)'
  BY DEF OrderInv
<1>2. \A t \in A : \E w \in Workers : \E i \in 1 .. Len(stack'[w]) :
                    stack'[w][i].task = t
  BY DEF Active, Frames
<1>3. \A w \in Workers : \A i \in 1 .. Len(stack'[w]) : Homed(w, i)'
  BY DEF PoolInv, FrameInv
<1>4. CASE \E w \in Workers : \E i \in 1 .. Len(stack'[w]) :
             /\ stack'[w][i].task \in A /\ i = Len(stack'[w])
             /\ Entered(w, stack'[w][i])
  <2>0. PICK w \in Workers : \E i \in 1 .. Len(stack'[w]) :
             /\ stack'[w][i].task \in A /\ i = Len(stack'[w])
             /\ Entered(w, stack'[w][i])
    BY <1>4
  <2>1. PICK i \in 1 .. Len(stack'[w]) :
             /\ stack'[w][i].task \in A /\ i = Len(stack'[w])
             /\ Entered(w, stack'[w][i])
    BY <2>0
  <2> PICK c : c = stack'[w][i].task
    OBVIOUS
  <2>2. 1 .. Len(Holding(stack'[w][i])) = {}
    <3>1. c \in Tasks /\ stack'[w][i].pc = 1
      BY <2>1 DEF Entered
    <3>2. Holding(stack'[w][i]) = <<>>
      BY <3>1, ProgramType DEF Holding
    <3> QED  BY <3>2
  <2>3. \A v \in Workers : \A j \in 1 .. Len(stack'[v]) :
          stack'[v][j].task = c => v = w /\ j = i
    <3>1. Homed(w, i)'
      BY <1>3
    <3>2. \A v \in Workers : \A j \in 1 .. Len(stack'[v]) :
            stack'[v][j].task = stack'[w][i].task => v = w /\ j = i
      BY <3>1, Zenon DEF Homed
    <3> QED  BY <3>2
  <2>4. ~(i < Len(stack'[w]))
    <3>1. Len(stack'[w]) \in Nat
      BY Elements DEF PoolInv, TypeOK
    <3> QED  BY <2>1, <3>1
  <2>5. \A u \in A : ~WaitsFor(c, u)'
    BY <2>2, <2>3, <2>4 DEF WaitsFor, Holding
  <2> QED  BY <2>1, <2>5
<1>5. CASE \A w \in Workers : \A i \in 1 .. Len(stack'[w]) :
             stack'[w][i].task \in A =>
               i \in 1 .. Len(stack[w]) /\ Follows(w, i, stack'[w][i])
  <2>1. A \in SUBSET Active
    <3> SUFFICES ASSUME NEW t \in A  PROVE t \in Active
      OBVIOUS
    <3>0. PICK w \in Workers : \E i \in 1 .. Len(stack'[w]) :
            stack'[w][i].task = t
      BY <1>2
    <3>1. PICK i \in 1 .. Len(stack'[w]) : stack'[w][i].task = t
      BY <3>0
    <3>2. i \in 1 .. Len(stack[w]) /\ stack[w][i].task = t
      BY <1>5, <3>1 DEF Follows
    <3> QED  BY <3>2, ActiveTasks
  <2>2. PICK t \in A : \A u \in A : ~WaitsFor(t, u)
    BY <2>1 DEF OrderInv
  <2>3. ASSUME NEW u \in A, WaitsFor(t, u)'  PROVE FALSE
    <3>0. PICK w \in Workers : \E i \in 1 .. Len(stack'[w]) :
            /\ stack'[w][i].task = t
            /\ \/ i < Len(stack'[w]) /\ stack'[w][i + 1].task = u
               \/ \E j \in 1 .. Len(Holding(stack'[w][i])) :
                    Holding(stack'[w][i])[j] = u
      BY <2>3 DEF WaitsFor, Holding
    <3>1. PICK i \in 1 .. Len(stack'[w]) :
            /\ stack'[w][i].task = t
            /\ \/ i < Len(stack'[w]) /\ stack'[w][i + 1].task = u
               \/ \E j \in 1 .. Len(Holding(stack'[w][i])) :
                    Holding(stack'[w][i])[j] = u
      BY <3>0
    <3>2. /\ i \in 1 .. Len(stack[w]) /\ stack[w][i].task = t
          /\ Follows(w, i, stack'[w][i])
      BY <1>5, <3>1 DEF Follows
    <3>3. CASE i < Len(stack'[w]) /\ stack'[w][i + 1].task = u
      <4>1. i + 1 \in 1 .. Len(stack'[w]) /\ Len(stack[w]) \in Nat
        BY <3>3, Elements DEF PoolInv, TypeOK
      <4>2. /\ i + 1 \in 1 .. Len(stack[w]) /\ stack[w][i + 1].task = u
        BY <1>5, <3>3, <4>1 DEF Follows
      <4>3. i < Len(stack[w])
        BY <4>1, <4>2
      <4>4. WaitsFor(t, u)
        BY <3>2, <4>2, <4>3 DEF WaitsFor
      <4> QED  BY <2>2, <4>4
    <3>4. CASE \E j \in 1 .. Len(Holding(stack'[w][i])) :
                 Holding(stack'[w][i])[j] = u
      <4>1. begun'[u] # 0
        <5>0. PICK v \in Workers : \E j \in 1 .. Len(stack'[v]) :
                stack'[v][j].task = u
          BY <1>2
        <5>1. PICK j \in 1 .. Len(stack'[v]) : stack'[v][j].task = u
          BY <5>0
        <5>2. Homed(v, j)'
          BY <1>3
        <5>3. begun'[stack'[v][j].task] = 1
          BY <5>2, Zenon DEF Homed
        <5> QED  BY <5>1, <5>3
      <4>2. \E l \in 1 .. Len(Holding(stack[w][i])) :
              Holding(stack[w][i])[l] = u
        BY <3>2, <3>4, <4>1 DEF Follows
      <4>3. WaitsFor(t, u)
        BY <3>2, <4>2 DEF WaitsFor
      <4> QED  BY <2>2, <4>3
    <3> QED  BY <3>1, <3>3, <3>4
  <2> QED  BY <2>2, <2>3
<1> QED  BY <1>1, <1>4, <1>5 DEF FramesMove

(* Once taken, an item is never ready again.                               *)
LEMMA NeverReadyAgain ==
  ASSUME DequesMove, NEW w \in Workers, NEW k \in 1 .. Len(deque[w]),
         k \in 1 .. Len(deque'[w]), deque[w][k].status # "ready"
  PROVE  deque'[w][k].status # "ready"
<1>1. CASE deque'[w] = deque[w]
  BY <1>1
<1>2. CASE Pushes(w)
  BY <1>2 DEF Pushes
<1>3. ASSUME NEW s, SettlesTop(w, s)  PROVE deque'[w][k].status # "ready"
  BY <1>3 DEF SettlesTop
<1>4. ASSUME NEW v \in Workers, NEW i \in 1 .. Len(deque[v]), NEW s,
             NEW r \in {"stolen", "done"}, Marks(v, i, s, r)
      PROVE  deque'[w][k].status # "ready"
  <2>1. PICK u \in Workers :
          Takes(v, i, [task |-> deque[v][i].task, status |-> r, thief |-> u])
    BY <1>4 DEF Marks
  <2> PICK e : e = [task |-> deque[v][i].task, status |-> r, thief |-> u]
    OBVIOUS
  <2>2. e.status = r /\ Takes(v, i, e)
    BY <2>1
  <2> QED  BY <2>2 DEF Takes
<1>5. ASSUME NEW v \in Workers \ {w}, NEW s, Pushes(v) \/ SettlesTop(v, s)
      PROVE  deque'[w] = deque[w]
  BY <1>5 DEF Pushes, SettlesTop
<1> QED  BY <1>1, <1>2, <1>3, <1>4, <1>5 DEF DequesMove

LEMMA Beyond ==
  \A b, e, m \in Nat : b + (e + 1) <= m => /\ b + (e + 1) \in 1 .. m
                                           /\ e + 1 \in 1 .. e + 1
OBVIOUS

(* The item a frame at a sync waits for.                                   *)
LEMMA AwaitedItem ==
  ASSUME TypeOK, StackInv, NEW w \in Workers, NEW i \in 1 .. Len(stack[w]),
         stack[w][i].pc <= Len(Program[stack[w][i].task]),
         Program[stack[w][i].task][stack[w][i].pc].do = "sync"
  PROVE  LET f == stack[w][i]
         IN  /\ Height(f) \in 1 .. Len(deque[w])
             /\ \E j \in 1 .. Len(Holding(f)) :
                  Holding(f)[j] = deque[w][Height(f)].task
<1> PICK f : f = stack[w][i]
  OBVIOUS
<1>1. /\ f \in FrameType /\ f.base \in Nat /\ f.task \in Tasks
      /\ f.pc \in 1 .. Len(Program[f.task]) + 1
      /\ f.pc <= Len(Program[f.task]) /\ Program[f.task][f.pc].do = "sync"
      /\ Len(Holding(f)) \in Nat /\ Height(f) = f.base + Len(Holding(f))
      /\ Height(f) <= Len(deque[w]) /\ Len(deque[w]) \in Nat
      /\ \A j \in 1 .. Len(Holding(f)) :
           deque[w][f.base + j].task = Holding(f)[j]
  BY FrameOf, Elements
<1>2. f.pc \in 1 .. Len(Program[f.task]) /\ f.pc \in 0 .. Len(Program[f.task])
  BY <1>1, ProgramType
<1>3. Len(Held[f.task][f.pc]) \in Nat
  BY <1>1, <1>2, ProgramType
<1>4. Len(Holding(f)) = Len(Held[f.task][f.pc]) + 1
  BY <1>1, <1>2, HeldMoves DEF Holding
<1> PICK n : n = Len(Holding(f))
  OBVIOUS
<1> PICK e : e = Len(Held[f.task][f.pc])
  OBVIOUS
<1> PICK m : m = Len(deque[w])
  OBVIOUS
<1>5. n \in 1 .. n /\ Height(f) = f.base + n /\ Height(f) \in 1 .. Len(deque[w])
  <2> PICK b : b = f.base
    OBVIOUS
  <2>1. /\ e \in Nat /\ n = e + 1 /\ Height(f) = b + n
        /\ Height(f) <= m /\ b \in Nat /\ m \in Nat
    BY <1>1, <1>3, <1>4
  <2>2. b + (e + 1) \in 1 .. m /\ e + 1 \in 1 .. e + 1
    BY <2>1, Beyond, Zenon
  <2> QED  BY <2>1, <2>2, Zenon
<1>6. Holding(f)[n] = deque[w][Height(f)].task
  BY <1>1, <1>5
<1> QED  BY <1>5, <1>6

LEMMA AwaitStep ==
  ASSUME PoolInv, AwaitInv, PoolInv', [Next]_vars
  PROVE  AwaitInv'
<1>1. FramesMove /\ DequesMove
  BY FrameSteps, DequeSteps
<1>2. TypeOK /\ StackInv /\ TypeOK' /\ StackInv'
  BY DEF PoolInv
<1> SUFFICES ASSUME NEW w \in Workers, NEW i \in 1 .. Len(stack'[w]),
                    stack'[w][i].at # "body"
             PROVE  deque'[w][Height(stack'[w][i])].status # "ready"
  BY DEF AwaitInv, Height, Holding
<1> PICK f : f = stack[w][i]
  OBVIOUS
<1> PICK g : g = stack'[w][i]
  OBVIOUS
<1>3. i \in 1 .. Len(stack[w]) /\ Follows(w, i, g)
  BY <1>1 DEF FramesMove, Entered
<1>4. g.task = f.task /\ g.base = f.base /\ g.pc = f.pc
  BY <1>3 DEF Follows
<1> PICK k : k = Height(f)
  OBVIOUS
<1>5. Height(g) = k
  BY <1>4 DEF Height, Holding
<1>6. k \in 1 .. Len(deque[w]) /\ k <= Len(deque'[w])
  <2>1. Aligned(w, i)'
    BY <1>2 DEF StackInv
  <2>2. /\ g.pc <= Len(Program[g.task]) /\ Program[g.task][g.pc].do = "sync"
        /\ Height(g) <= Len(deque'[w])
    BY <2>1 DEF Aligned, Height, Holding
  <2>3. f.pc <= Len(Program[f.task]) /\ Program[f.task][f.pc].do = "sync"
    BY <1>4, <2>2
  <2>4. k \in 1 .. Len(deque[w])
    BY <1>2, <1>3, <2>3, AwaitedItem
  <2> QED  BY <1>5, <2>2, <2>4
<1>7. /\ i = Len(stack[w]) => k = Len(deque[w])
      /\ Len(deque'[w]) \in Nat
  BY <1>2, <1>3, FrameOf DEF TypeOK
<1>8. k \in 1 .. Len(deque'[w])
  BY <1>6, <1>7
<1>9. deque[w][k].status # "ready"
  <2>1. CASE f.at # "body"
    BY <1>3, <2>1 DEF AwaitInv
  <2>2. CASE f.at = "body"
    <3>1. i = Len(stack[w]) /\ deque[w][Len(deque[w])].status # "ready"
      BY <1>3, <2>2 DEF Follows
    <3> QED  BY <1>7, <3>1
  <2> QED  BY <2>1, <2>2
<1> QED  BY <1>1, <1>5, <1>6, <1>8, <1>9, NeverReadyAgain

------------------------------------------------------------------------------
(* Where tasks come from                                                   *)

LEMMA ReachedClosed ==
  /\ Mains \subseteq Reached
  /\ \A t \in Reached : \A k \in 1 .. Len(Program[t]) :
       Starts(t, k) => Child(t, k) \in Reached
<1>1. Mains \subseteq Reached
  BY ProgramAssumption DEF Reached, Closed
<1>2. ASSUME NEW t \in Reached, NEW k \in 1 .. Len(Program[t]), Starts(t, k)
      PROVE  Child(t, k) \in Reached
  <2>1. Child(t, k) \in Tasks
    BY ProgramType DEF Reached
  <2>2. ASSUME NEW S \in SUBSET Tasks, Closed(S)  PROVE Child(t, k) \in S
    <3>1. t \in S
      BY <2>2 DEF Reached
    <3> QED  BY <1>2, <2>2, <3>1 DEF Closed
  <2> QED  BY <2>1, <2>2 DEF Reached
<1> QED  BY <1>1, <1>2

LEMMA OriginStep ==
  ASSUME PoolInv, OriginInv, [Next]_vars
  PROVE  OriginInv'
<1>1. /\ PoolInv' /\ TypeOK /\ FramesMove /\ DequesMove
      /\ Active \cup Pending \subseteq Reached
  BY NextInv, FrameSteps, DequeSteps DEF OriginInv, PoolInv
<1>2. \A t \in Active : \A k \in 1 .. Len(Program[t]) :
        Starts(t, k) => /\ Child(t, k) \in Reached
                        /\ Child(t, k) \notin Mains
  <2>1. Active \subseteq Tasks
    BY <1>1 DEF Reached
  <2> QED  BY <1>1, <2>1, ReachedClosed, OneParent
<1>3. \A t \in Pending : t \notin Mains
  <2> SUFFICES ASSUME NEW w \in Workers, NEW i \in 1 .. Len(deque[w])
               PROVE  deque[w][i].task \notin Mains
    BY DEF Pending, Queued
  <2>1. Tracked(w, i)
    BY <1>1 DEF PoolInv, ItemInv
  <2> QED  BY <2>1 DEF Tracked
<1>4. ASSUME NEW w \in Workers, NEW i \in 1 .. Len(stack'[w])
      PROVE  /\ stack'[w][i].task \in Reached
             /\ w # Root => stack'[w][i].task \notin Mains
  <2>1. CASE i \in 1 .. Len(stack[w]) /\ Follows(w, i, stack'[w][i])
    <3>1. stack'[w][i].task = stack[w][i].task
      BY <2>1 DEF Follows
    <3>2. stack[w][i].task \in Reached
      BY <1>1, <2>1, ActiveTasks
    <3>3. w # Root => stack[w][i].task \notin Mains
      BY <2>1 DEF OriginInv, Frames
    <3> QED  BY <3>1, <3>2, <3>3
  <2>2. CASE Entered(w, stack'[w][i])
    BY <1>1, <1>2, <1>3, <2>2, ReachedClosed DEF Entered
  <2> QED  BY <1>1, <2>1, <2>2 DEF FramesMove
<1>5. ASSUME NEW w \in Workers, NEW i \in 1 .. Len(deque'[w])
      PROVE  deque'[w][i].task \in Reached
  <2>1. /\ Len(deque[w]) \in Nat
        /\ \A j \in 1 .. Len(deque[w]) : deque[w][j].task \in Reached
    BY <1>1, Elements, PendingTasks DEF Unqueued
  <2>2. CASE i \in 1 .. Len(deque[w]) /\ deque'[w][i].task = deque[w][i].task
    BY <2>1, <2>2
  <2>3. CASE i \notin 1 .. Len(deque[w]) \/ deque'[w][i].task # deque[w][i].task
    <3>1. /\ Running(w) /\ Top(w).pc <= Len(Body(w))
          /\ Body(w)[Top(w).pc].do = "spawn"
          /\ deque'[w][i] = Item(Operand(w))
      <4>1. ASSUME NEW v \in Workers, NEW s, SettlesTop(v, s)  PROVE FALSE
        BY <2>1, <2>3, <4>1 DEF SettlesTop
      <4>2. ASSUME NEW v \in Workers, NEW j \in 1 .. Len(deque[v]), NEW s,
                   NEW r, Marks(v, j, s, r)
            PROVE  FALSE
        <5>1. PICK u \in Workers : Takes(v, j,
                [task |-> deque[v][j].task, status |-> r, thief |-> u])
          BY <4>2 DEF Marks
        <5> QED  BY <2>3, <5>1 DEF Takes
      <4>3. PICK v \in Workers : Pushes(v)
        BY <1>1, <2>3, <4>1, <4>2 DEF DequesMove
      <4> QED  BY <2>1, <2>3, <4>3 DEF Pushes
    <3> PICK f : f = Top(w)
      OBVIOUS
    <3>2. /\ f.pc \in 1 .. Len(Program[f.task])
          /\ Operand(w) = Child(f.task, f.pc) /\ Starts(f.task, f.pc)
      BY <1>1, <3>1, HoldsNext DEF PoolInv, Body, Starts
    <3>3. f.task \in Active
      BY <1>1, <3>1, TopFrame, ActiveTasks
    <3> QED  BY <1>2, <3>1, <3>2, <3>3 DEF Item
  <2> QED  BY <2>2, <2>3
<1>6. (Active \cup Pending)' \subseteq Reached
  BY <1>4, <1>5 DEF Active, Frames, Pending, Queued
<1>7. \A w \in Workers \ {Root} : \A f \in Frames(w)' : f.task \notin Mains
  BY <1>4 DEF Frames
<1> QED  BY <1>1, <1>6, <1>7 DEF OriginInv

------------------------------------------------------------------------------
(* The steps, by what they do to the tasks                                 *)

NextIs(w, o) == /\ Running(w) /\ Top(w).pc <= Len(Body(w))
                /\ Body(w)[Top(w).pc].do = o

(* w is at its sync and stays there.                                       *)
Waits(w) ==
  \E g : /\ Replaced(w, g) /\ Continues(w, g) /\ g.pc = Top(w).pc
         /\ UNCHANGED <<deque, begun, ended, lost>>

(* Its body spawns, starts a task itself, or takes the output of one.      *)
Forks(w) ==
  /\ \E g : Replaced(w, g) /\ Continues(w, g) /\ g.pc = Top(w).pc + 1
  /\ Pushes(w) /\ UNCHANGED <<begun, ended, lost>>

StartsTask(w) ==
  /\ \E g, f : /\ Grown(w, g, f) /\ Continues(w, g) /\ g.pc = Top(w).pc + 1
               /\ f.task = Operand(w) /\ f.home = Local /\ f.pc = 1
  /\ Begins(Operand(w)) /\ UNCHANGED <<ended, lost>>

Calls(w) == NextIs(w, "call") /\ StartsTask(w) /\ deque' = deque

RunsItem(w) == /\ NextIs(w, "sync") /\ StartsTask(w) /\ SettlesTop(w, "ready")
               /\ deque[w][Len(deque[w])].task = Operand(w)

Joins(w) ==
  /\ \E g : Replaced(w, g) /\ Continues(w, g) /\ g.pc = Top(w).pc + 1
  /\ NextIs(w, "sync") /\ SettlesTop(w, "done")
  /\ deque[w][Len(deque[w])].task = Operand(w)
  /\ UNCHANGED <<begun, ended, lost>>

(* It runs a stolen task, on top of what it waits for or with nothing else *)
(* to do; or one that the pool is started with.                            *)
Robs(w) ==
  \E f : \E v \in Workers : \E i \in 1 .. Len(deque[v]) :
    /\ f.pc = 1 /\ f.task = deque[v][i].task /\ Steals(w, v, i, f.task)
    /\ UNCHANGED <<ended, lost>>
    /\ \/ Started(w, f)
       \/ \E g : Grown(w, g, f) /\ Continues(w, g) /\ g.pc = Top(w).pc

RunsMain(t) ==
  /\ \E f : Started(Root, f) /\ f.task = t /\ f.pc = 1
  /\ Begins(t) /\ UNCHANGED <<deque, ended, lost>>

Ends(w) ==
  /\ Popped(w) /\ Finishes(Top(w).task, w)
  /\ Top(w).pc > Len(Program[Top(w).task]) /\ UNCHANGED <<begun, lost>>

Fails(w) ==
  /\ Running(w) /\ Unwound(w)
  /\ Top(w).task \in Panicking \/ NextIs(w, "spawn")

TasksMove ==
  \/ UNCHANGED <<deque, stack, begun, ended, lost>>
  \/ \E t \in Mains : RunsMain(t)
  \/ \E w \in Workers : \/ Waits(w) \/ Forks(w) \/ Calls(w) \/ RunsItem(w)
                        \/ Joins(w) \/ Robs(w) \/ Ends(w) \/ Fails(w)

LEMMA StaysWaits ==
  ASSUME PoolInv, NEW w \in Workers, Running(w),
         NEW a \in {"look", "leap"}, NEW v \in Workers \cup {NoWorker},
         a = "leap" => v \in Workers, NextIs(w, "sync"),
         stack' = [stack EXCEPT ![w] = WithTop(w, Stays(w, a, v))],
         UNCHANGED <<deque, begun, ended, lost>>
  PROVE  Waits(w)
<1> DEFINE g == Stays(w, a, v)
<1>1. TypeOK /\ StackInv
  BY DEF PoolInv
<1>2. Continues(w, g) /\ g.pc = Top(w).pc
  BY <1>1, StaysContinues DEF NextIs
<1>3. stack' = [stack EXCEPT ![w] = WithTop(w, g)]
  OBVIOUS
<1> HIDE DEF g
<1>4. Replaced(w, g)
  BY <1>1, <1>2, <1>3, WithTopReplaced DEF Continues
<1> QED  BY <1>2, <1>4 DEF Waits

LEMMA AtLookIs ==
  ASSUME PoolInv, NEW w \in Workers, Running(w), Top(w).at # "body"
  PROVE  NextIs(w, "sync") /\ (Top(w).at = "leap" => Top(w).thief \in Workers)
BY AtLook DEF PoolInv, NextIs

LEMMA WaitSteps ==
  ASSUME PoolInv, NEW w \in Workers,
         SyncStolen(w) \/ LookBusy(w) \/ LeapFail(w)
  PROVE  Waits(w)
<1>1. CASE SyncStolen(w)
  <2>1. /\ NextIs(w, "sync") /\ UNCHANGED <<deque, begun, ended, lost>>
        /\ stack' = [stack EXCEPT ![w] = WithTop(w, Stays(w, "look", NoWorker))]
    BY <1>1 DEF SyncStolen, Doing, InBody, panics, Looking, Stays, NextIs
  <2> QED  BY <2>1, StaysWaits DEF NextIs
<1>2. CASE LeapFail(w)
  <2>1. /\ Running(w) /\ Top(w).at # "body"
        /\ UNCHANGED <<deque, begun, ended, lost>>
        /\ stack' = [stack EXCEPT ![w] = WithTop(w, Stays(w, "look", NoWorker))]
    BY <1>2 DEF LeapFail, panics, Looking, Stays
  <2> QED  BY <2>1, AtLookIs, StaysWaits
<1>3. CASE LookBusy(w)
  <2> PICK v : v = Newest(deque[w]).thief
    OBVIOUS
  <2>1. /\ Running(w) /\ Top(w).at # "body" /\ Newest(deque[w]).status = "stolen"
        /\ UNCHANGED <<deque, begun, ended, lost>>
        /\ stack' = [stack EXCEPT ![w] = WithTop(w, Stays(w, "leap", v))]
    BY <1>3 DEF LookBusy, panics, Stays
  <2>2. NextIs(w, "sync")
    BY <2>1, AtLookIs
  <2>3. v \in Workers
    <3>1. /\ Len(deque[w]) \in 1 .. Len(deque[w])
          /\ Newest(deque[w]) = deque[w][Len(deque[w])]
      BY <2>1, <2>2, AtSync DEF PoolInv, NextIs
    <3>2. Tracked(w, Len(deque[w]))
      BY <3>1 DEF PoolInv, ItemInv
    <3> QED  BY <2>1, <3>1, <3>2 DEF Tracked
  <2> QED  BY <2>1, <2>2, <2>3, StaysWaits
<1> QED  BY <1>1, <1>2, <1>3

LEMMA SpawnForks ==
  ASSUME PoolInv, NEW w \in Workers, Spawn(w)
  PROVE  Forks(w)
<1> DEFINE g == Goes(w)
<1>1. /\ TypeOK /\ StackInv /\ Running(w) /\ Top(w).pc <= Len(Body(w))
      /\ UNCHANGED <<begun, ended, lost>>
      /\ stack' = [stack EXCEPT ![w] = WithTop(w, g)]
  BY DEF PoolInv, Spawn, Doing, InBody, Advanced, Goes, panics
<1>2. Continues(w, g) /\ g.pc = Top(w).pc + 1
  BY <1>1, GoesContinues
<1> HIDE DEF g
<1>3. Replaced(w, g)
  BY <1>1, <1>2, WithTopReplaced DEF Continues
<1> QED  BY <1>1, <1>2, <1>3, SpawnPushes DEF Forks

LEMMA StartsOne ==
  ASSUME PoolInv, NEW w \in Workers, Running(w), Top(w).pc <= Len(Body(w)),
         Operand(w) \in Tasks, begun[Operand(w)] = 0, Enter(Operand(w)),
         NEW b \in Nat, UNCHANGED <<ended, lost>>,
         stack' = [stack EXCEPT ![w] =
                     Append(WithTop(w, Goes(w)), Frame(Operand(w), Local, b))]
  PROVE  StartsTask(w)
<1> DEFINE g == Goes(w)
<1> PICK e : e = Frame(Operand(w), Local, b)
  OBVIOUS
<1>1. /\ TypeOK /\ StackInv /\ Begins(Operand(w))
      /\ stack' = [stack EXCEPT ![w] = Append(WithTop(w, g), e)]
  BY BeginsTask DEF PoolInv
<1>2. Continues(w, g) /\ g.pc = Top(w).pc + 1
  BY <1>1, GoesContinues
<1>3. /\ e \in FrameType /\ e.task = Operand(w) /\ e.home = Local /\ e.pc = 1
  <2>1. Local \in HomeType
    BY DEF Local, HomeType
  <2> QED  BY <2>1, FrameTyped
<1> HIDE DEF g
<1>4. Grown(w, g, e)
  BY <1>1, <1>2, <1>3, WithTopGrown DEF Continues
<1> QED  BY <1>1, <1>2, <1>3, <1>4 DEF StartsTask

LEMMA CallCalls ==
  ASSUME PoolInv, NEW w \in Workers, Call(w)
  PROVE  Calls(w)
<1>1. /\ TypeOK /\ Running(w) /\ Top(w).pc <= Len(Body(w)) /\ deque' = deque
      /\ Body(w)[Top(w).pc].do = "call" /\ Enter(Operand(w))
      /\ UNCHANGED <<ended, lost>>
      /\ stack' = [stack EXCEPT ![w] = Append(WithTop(w, Goes(w)),
                                 Frame(Operand(w), Local, Len(deque[w])))]
  BY DEF PoolInv, Call, Doing, InBody, Advanced, Goes, panics
<1>2. Operand(w) \in Tasks /\ begun[Operand(w)] = 0
  BY <1>1, NextChild DEF Fresh
<1>3. Len(deque[w]) \in Nat
  BY <1>1, Elements
<1>4. StartsTask(w)
  BY <1>1, <1>2, <1>3, StartsOne
<1> QED  BY <1>1, <1>4 DEF Calls, NextIs

LEMMA SyncWorkRuns ==
  ASSUME PoolInv, NEW w \in Workers, SyncWork(w)
  PROVE  RunsItem(w)
<1> PICK m : m = Len(deque[w])
  OBVIOUS
<1>1. /\ TypeOK /\ StackInv /\ Running(w) /\ Top(w).pc <= Len(Body(w))
      /\ Body(w)[Top(w).pc].do = "sync" /\ UNCHANGED <<ended, lost>>
      /\ deque[w] # <<>> /\ Newest(deque[w]).status = "ready"
      /\ deque' = [deque EXCEPT ![w] = Older(deque[w])]
  BY DEF PoolInv, SyncWork, Doing, InBody, panics, TypeOK
<1>2. /\ m \in 1 .. m /\ Newest(deque[w]) = deque[w][m]
      /\ Operand(w) = deque[w][m].task
  BY <1>1, AtSync
<1>3. /\ Enter(Operand(w))
      /\ stack' = [stack EXCEPT ![w] = Append(WithTop(w, Goes(w)),
                                       Frame(Operand(w), Local, m - 1))]
  BY <1>2 DEF SyncWork, Advanced, Goes
<1>4. Operand(w) \in Tasks /\ begun[Operand(w)] = 0
  <2>1. Tracked(w, m) /\ deque[w][m].task \in Tasks
    BY <1>1, <1>2, Elements DEF PoolInv, ItemInv
  <2> QED  BY <1>1, <1>2, <2>1 DEF Tracked
<1>5. m - 1 \in Nat
  BY <1>2
<1>6. StartsTask(w)
  BY <1>1, <1>3, <1>4, <1>5, StartsOne
<1>7. SettlesTop(w, "ready")
  BY <1>1, OlderSettles
<1> QED  BY <1>1, <1>2, <1>6, <1>7 DEF RunsItem, NextIs

LEMMA LookDoneJoins ==
  ASSUME PoolInv, NEW w \in Workers, LookDone(w)
  PROVE  Joins(w)
<1> DEFINE g == Goes(w)
<1>1. /\ TypeOK /\ StackInv /\ Running(w) /\ Top(w).at # "body"
      /\ UNCHANGED <<begun, ended, lost>> /\ Newest(deque[w]).status = "done"
      /\ deque' = [deque EXCEPT ![w] = Older(deque[w])]
      /\ stack' = [stack EXCEPT ![w] = WithTop(w, g)]
  BY DEF PoolInv, LookDone, Advanced, Goes, panics, TypeOK
<1>2. Top(w).pc <= Len(Body(w)) /\ Body(w)[Top(w).pc].do = "sync"
  BY <1>1, AtLook
<1>3. /\ deque[w] # <<>> /\ Newest(deque[w]) = deque[w][Len(deque[w])]
      /\ Newest(deque[w]).task = Operand(w)
  BY <1>1, <1>2, AtSync
<1>4. Continues(w, g) /\ g.pc = Top(w).pc + 1
  BY <1>1, <1>2, GoesContinues
<1> HIDE DEF g
<1>5. Replaced(w, g)
  BY <1>1, <1>4, WithTopReplaced DEF Continues
<1>6. SettlesTop(w, "done")
  BY <1>1, <1>3, OlderSettles
<1> QED  BY <1>1, <1>2, <1>3, <1>4, <1>5, <1>6 DEF Joins, NextIs

LEMMA StealRobs ==
  ASSUME PoolInv, NEW w \in Workers, NEW v \in Workers, NEW rest,
         StealWork(w, v, rest),
         \/ rest = <<>> /\ ~Running(w)
         \/ rest = Looking(w) /\ Running(w) /\ Top(w).at # "body"
  PROVE  Robs(w)
<1>1. PICK i \in 1 .. Len(deque[v]) :
        /\ deque[v][i].status = "ready"
        /\ deque' = [deque EXCEPT ![v][i].status = "stolen", ![v][i].thief = w]
        /\ stack' = [stack EXCEPT ![w] = Append(rest, StolenFrame(w, v, i))]
        /\ Enter(deque[v][i].task)
        /\ UNCHANGED <<ended, panics>>
  BY DEF StealWork
<1> PICK t : t = deque[v][i].task
  OBVIOUS
<1> PICK f : f = StolenFrame(w, v, i)
  OBVIOUS
<1>2. TypeOK /\ StackInv /\ ItemInv
  BY DEF PoolInv
<1>3. f \in FrameType /\ f.task = t /\ f.pc = 1
  BY <1>2, StolenFrameTyped
<1>4. Steals(w, v, i, t) /\ UNCHANGED <<ended, lost>>
  BY <1>1, <1>2, StealEffect DEF panics
<1>5. CASE rest = <<>> /\ ~Running(w)
  <2>1. stack' = [stack EXCEPT ![w] = <<f>>]
    BY <1>1, <1>5
  <2>2. Started(w, f)
    BY <1>2, <1>3, <1>5, <2>1, PushedAlone
  <2> QED  BY <1>3, <1>4, <2>2 DEF Robs
<1>6. CASE rest = Looking(w) /\ Running(w) /\ Top(w).at # "body"
  <2> DEFINE g == Stays(w, "look", NoWorker)
  <2>1. Continues(w, g) /\ g.pc = Top(w).pc
    BY <1>2, <1>6, AtLook, StaysContinues
  <2>2. stack' = [stack EXCEPT ![w] = Append(WithTop(w, g), f)]
    BY <1>1, <1>6 DEF Looking, Stays
  <2> HIDE DEF g
  <2>3. Grown(w, g, f)
    BY <1>2, <1>3, <1>6, <2>1, <2>2, WithTopGrown DEF Continues
  <2> QED  BY <1>3, <1>4, <2>1, <2>3 DEF Robs
<1> QED  BY <1>5, <1>6

LEMMA RunRuns ==
  ASSUME PoolInv, NEW t \in Mains, Run(t)
  PROVE  RunsMain(t)
<1> PICK f : f = Frame(t, Local, Len(deque[Root]))
  OBVIOUS
<1>1. /\ TypeOK /\ ~Running(Root) /\ t \in Tasks /\ Root \in Workers
      /\ stack' = [stack EXCEPT ![Root] = <<f>>] /\ begun[t] = 0 /\ Enter(t)
      /\ UNCHANGED <<deque, ended, lost>>
  BY ProgramAssumption, WorkerAssumption DEF PoolInv, Run, panics
<1>2. f \in FrameType /\ f.task = t /\ f.pc = 1
  <2>1. Local \in HomeType /\ Len(deque[Root]) \in Nat
    BY <1>1, Elements DEF Local, HomeType
  <2> QED  BY <1>1, <2>1, FrameTyped
<1>3. Started(Root, f) /\ Begins(t)
  BY <1>1, <1>2, PushedAlone, BeginsTask
<1> QED  BY <1>1, <1>2, <1>3 DEF RunsMain

LEMMA UnwindFails ==
  ASSUME PoolInv, NEW w \in Workers, Panic(w) \/ Overflow(w)
  PROVE  Fails(w)
<1>1. Running(w) /\ Unwind(w)
  BY DEF Panic, Overflow, Doing, InBody
<1>2. Unwound(w)
  BY <1>1 DEF PoolInv, Unwind, Unwound, OnlyStackOf, TypeOK
<1>3. Top(w).task \in Panicking \/ NextIs(w, "spawn")
  BY DEF Panic, Overflow, Doing, InBody, NextIs
<1> QED  BY <1>1, <1>2, <1>3 DEF Fails

LEMMA TaskSteps ==
  ASSUME PoolInv, [Next]_vars
  PROVE  TasksMove
<1>1. CASE UNCHANGED vars \/ Idle
  BY <1>1 DEF vars, panics, Idle, TasksMove
<1>2. ASSUME NEW t \in Mains, Run(t)  PROVE TasksMove
  BY <1>2, RunRuns DEF TasksMove
<1>3. ASSUME NEW w \in Workers, Step(w)  PROVE TasksMove
  <2>1. CASE Leap(w)
    <3>1. Running(w) /\ Top(w).at # "body" /\ Top(w).at = "leap"
      BY <2>1 DEF Leap
    <3>2. PICK v \in Workers : StealWork(w, v, Looking(w))
      BY <2>1, <3>1, AtLookIs DEF Leap, Victims
    <3>3. Robs(w)
      BY <3>1, <3>2, StealRobs
    <3> QED  BY <3>3 DEF TasksMove
  <2>2. CASE Return(w)
    <3>1. Ends(w)
      BY <2>2, ReturnEffect DEF Ends
    <3> QED  BY <3>1 DEF TasksMove
  <2>3. CASE Overflow(w)
    BY <2>3, UnwindFails DEF TasksMove
  <2>4. CASE SyncStolen(w) \/ LookBusy(w) \/ LeapFail(w)
    BY <2>4, WaitSteps DEF TasksMove
  <2>5. CASE Spawn(w) \/ Call(w) \/ SyncWork(w) \/ LookDone(w)
    BY <2>5, SpawnForks, CallCalls, SyncWorkRuns, LookDoneJoins DEF TasksMove
  <2> QED  BY <1>3, <2>1, <2>2, <2>3, <2>4, <2>5 DEF Step
<1>4. ASSUME NEW w \in Workers, StealRandom(w)  PROVE TasksMove
  <2>1. PICK v \in Workers : StealWork(w, v, <<>>) /\ ~Running(w)
    BY <1>4 DEF StealRandom
  <2>2. Robs(w)
    BY <2>1, StealRobs
  <2> QED  BY <2>2 DEF TasksMove
<1>5. ASSUME NEW w \in Workers, Panic(w)  PROVE TasksMove
  <2>1. Fails(w)
    BY <1>5, UnwindFails
  <2> QED  BY <2>1 DEF TasksMove
<1> QED  BY <1>1, <1>2, <1>3, <1>4, <1>5 DEF Next

------------------------------------------------------------------------------
(* What a body called or synced last                                       *)

(* A frame keeps what it had: on another stack, or below the top.          *)
LEMMA LastOthers ==
  ASSUME LastInv, NEW w \in Workers, OnlyStackOf(w), ended \subseteq ended',
         NEW v \in Workers \ {w}, NEW i \in 1 .. Len(stack'[v])
  PROVE  PastLast(v, i)'
<1>1. stack'[v] = stack[v] /\ PastLast(v, i)
  BY DEF OnlyStackOf, LastInv
<1> QED  BY <1>1 DEF PastLast, OnTop

LEMMA LastBelow ==
  ASSUME LastInv, TypeOK, NEW w \in Workers, Running(w),
         ended \subseteq ended', NEW n, n = Len(stack[w]),
         Len(stack'[w]) \in Nat, Len(stack'[w]) >= n,
         \A i \in 1 .. n - 1 : stack'[w][i] = stack[w][i],
         stack'[w][n].task = Top(w).task, stack'[w][n].home = Top(w).home,
         NEW i \in 1 .. n - 1
  PROVE  PastLast(w, i)'
<1>1. /\ n \in Nat \ {0} /\ i \in 1 .. n /\ i < n /\ i < Len(stack'[w])
      /\ Top(w) = stack[w][n] /\ i + 1 \in 1 .. n
  BY TopFrame
<1>2. /\ stack'[w][i + 1].task = stack[w][i + 1].task
      /\ stack'[w][i + 1].home = stack[w][i + 1].home
  <2>1. i + 1 = n \/ i + 1 \in 1 .. n - 1
    BY <1>1
  <2> QED  BY <1>1, <2>1
<1>3. PastLast(w, i) /\ stack'[w][i] = stack[w][i]
  BY <1>1 DEF LastInv
<1> PICK f : f = stack[w][i]
  OBVIOUS
<1> PICK c : c = Child(f.task, f.pc - 1)
  OBVIOUS
<1>4. f.pc - 1 >= 1 /\ Program[f.task][f.pc - 1].do # "spawn" =>
        c \in ended \/ OnTop(w, i, c)
  BY <1>3 DEF PastLast
<1>5. OnTop(w, i, c) => OnTop(w, i, c)'
  BY <1>1, <1>2 DEF OnTop
<1> QED  BY <1>3, <1>4, <1>5 DEF PastLast

(* Nothing is on top of the top frame.                                     *)
LEMMA LastAtTop ==
  ASSUME PoolInv, LastInv, NEW w \in Workers, Running(w),
         NEW k, k = Top(w).pc - 1, k >= 1,
         Program[Top(w).task][k].do # "spawn"
  PROVE  Child(Top(w).task, k) \in ended
<1> PICK n : n = Len(stack[w])
  OBVIOUS
<1>1. n \in 1 .. Len(stack[w]) /\ Top(w) = stack[w][n] /\ ~(n < Len(stack[w]))
  BY TopFrame DEF PoolInv
<1>2. PastLast(w, n)
  BY <1>1 DEF LastInv
<1> QED  BY <1>1, <1>2 DEF PastLast, OnTop

LEMMA LastReplaced ==
  ASSUME PoolInv, LastInv, NEW w \in Workers, NEW g, Replaced(w, g),
         Continues(w, g), ended \subseteq ended',
         NEW n, n = Len(stack[w]), PastLast(w, n)'
  PROVE  LastInv'
<1> SUFFICES ASSUME NEW v \in Workers, NEW i \in 1 .. Len(stack'[v])
             PROVE  PastLast(v, i)'
  BY DEF LastInv
<1>1. /\ TypeOK /\ OnlyStackOf(w) /\ Running(w) /\ n \in Nat \ {0}
      /\ Len(stack'[w]) = n /\ stack'[w][n] = g
      /\ \A j \in 1 .. n - 1 : stack'[w][j] = stack[w][j]
      /\ g.task = Top(w).task /\ g.home = Top(w).home
  BY TopFrame DEF PoolInv, Replaced, Continues
<1>2. CASE v # w
  BY <1>1, <1>2, LastOthers
<1>3. CASE v = w /\ i # n
  <2>1. i \in 1 .. n - 1 /\ Len(stack'[w]) >= n
    BY <1>1, <1>3
  <2> QED  BY <1>1, <1>3, <2>1, LastBelow
<1> QED  BY <1>2, <1>3

LEMMA LastGrown ==
  ASSUME PoolInv, LastInv, NEW w \in Workers, NEW g, NEW f, Grown(w, g, f),
         Continues(w, g), f.pc = 1, ended \subseteq ended',
         NEW n, n = Len(stack[w]), PastLast(w, n)'
  PROVE  LastInv'
<1> SUFFICES ASSUME NEW v \in Workers, NEW i \in 1 .. Len(stack'[v])
             PROVE  PastLast(v, i)'
  BY DEF LastInv
<1>1. /\ TypeOK /\ OnlyStackOf(w) /\ Running(w) /\ n \in Nat \ {0}
      /\ Len(stack'[w]) = n + 1 /\ stack'[w][n] = g /\ stack'[w][n + 1] = f
      /\ \A j \in 1 .. n - 1 : stack'[w][j] = stack[w][j]
      /\ g.task = Top(w).task /\ g.home = Top(w).home
  BY TopFrame DEF PoolInv, Grown, Continues
<1>2. CASE v # w
  BY <1>1, <1>2, LastOthers
<1>3. CASE v = w /\ i = n + 1
  <2>1. ~(f.pc - 1 >= 1) /\ stack'[v][i] = f
    BY <1>1, <1>3
  <2> QED  BY <2>1 DEF PastLast
<1>4. CASE v = w /\ i # n /\ i # n + 1
  <2>1. i \in 1 .. n - 1 /\ Len(stack'[w]) >= n /\ Len(stack'[w]) \in Nat
    BY <1>1, <1>4
  <2> QED  BY <1>1, <1>4, <2>1, LastBelow
<1> QED  BY <1>2, <1>3, <1>4

LEMMA LastStarted ==
  ASSUME LastInv, NEW w \in Workers, NEW f, Started(w, f), f.pc = 1,
         ended \subseteq ended'
  PROVE  LastInv'
<1> SUFFICES ASSUME NEW v \in Workers, NEW i \in 1 .. Len(stack'[v])
             PROVE  PastLast(v, i)'
  BY DEF LastInv
<1>1. CASE v # w
  BY <1>1, LastOthers DEF Started
<1>2. CASE v = w
  <2>1. ~(f.pc - 1 >= 1) /\ stack'[v][i] = f
    BY <1>2 DEF Started
  <2> QED  BY <2>1 DEF PastLast
<1> QED  BY <1>1, <1>2

(* The top frame stays at its operation.                                   *)
LEMMA LastStays ==
  ASSUME PoolInv, LastInv, NEW w \in Workers, Running(w), NEW g,
         Continues(w, g), g.pc = Top(w).pc, ended \subseteq ended',
         NEW n, stack'[w][n] = g
  PROVE  PastLast(w, n)'
<1>1. g.task = Top(w).task
  BY DEF Continues
<1>2. g.pc - 1 >= 1 /\ Program[g.task][g.pc - 1].do # "spawn" =>
        Child(g.task, g.pc - 1) \in ended'
  BY <1>1, LastAtTop
<1> QED  BY <1>2 DEF PastLast

(* It goes on, past an operation that is no wait, or is over, or on top.   *)
LEMMA LastGoes ==
  ASSUME PoolInv, NEW w \in Workers, Running(w), NEW g, Continues(w, g),
         g.pc = Top(w).pc + 1, NEW n, stack'[w][n] = g,
         NEW c, c = Operand(w),
         \/ Body(w)[Top(w).pc].do = "spawn"
         \/ c \in ended'
         \/ OnTop(w, n, c)'
  PROVE  PastLast(w, n)'
<1>1. g.task = Top(w).task /\ g.pc - 1 = Top(w).pc
  BY TopFrame DEF Continues, PoolInv
<1>2. c = Child(g.task, g.pc - 1)
  BY <1>1 DEF Operand, Body, Child
<1>3. \/ Program[g.task][g.pc - 1].do = "spawn"
      \/ c \in ended' \/ OnTop(w, n, c)'
  BY <1>1 DEF Body
<1> QED  BY <1>2, <1>3 DEF PastLast

LEMMA LastStep ==
  ASSUME PoolInv, LastInv, [Next]_vars
  PROVE  LastInv'
<1>1. TypeOK /\ TasksMove
  BY TaskSteps DEF PoolInv
<1>2. CASE UNCHANGED <<deque, stack, begun, ended, lost>>
  BY <1>2 DEF LastInv, PastLast, OnTop
<1>3. ASSUME NEW t \in Mains, RunsMain(t)  PROVE LastInv'
  BY <1>3, LastStarted, WorkerAssumption DEF RunsMain
<1>4. ASSUME NEW w \in Workers, Waits(w)  PROVE LastInv'
  <2> PICK n : n = Len(stack[w])
    OBVIOUS
  <2>1. PICK g : Replaced(w, g) /\ Continues(w, g) /\ g.pc = Top(w).pc
    BY <1>4 DEF Waits
  <2>2. ended' = ended /\ Running(w) /\ stack'[w][n] = g
    BY <1>4, <2>1 DEF Waits, Replaced
  <2>3. PastLast(w, n)'
    BY <2>1, <2>2, LastStays
  <2> QED  BY <2>1, <2>2, <2>3, LastReplaced
<1>5. ASSUME NEW w \in Workers, Forks(w) \/ Joins(w)  PROVE LastInv'
  <2> PICK n : n = Len(stack[w])
    OBVIOUS
  <2>1. PICK g : Replaced(w, g) /\ Continues(w, g) /\ g.pc = Top(w).pc + 1
    BY <1>5 DEF Forks, Joins
  <2>2. ended' = ended /\ Running(w) /\ stack'[w][n] = g
    BY <1>5, <2>1 DEF Forks, Joins, Replaced
  <2> PICK c : c = Operand(w)
    OBVIOUS
  <2>3. Body(w)[Top(w).pc].do = "spawn" \/ c \in ended
    <3>1. CASE Forks(w)
      BY <3>1 DEF Forks, Pushes
    <3>2. CASE Joins(w)
      <4>1. /\ Len(deque[w]) \in 1 .. Len(deque[w])
            /\ deque[w][Len(deque[w])].status = "done"
            /\ deque[w][Len(deque[w])].task = Operand(w)
        BY <3>2 DEF Joins, SettlesTop
      <4>2. Tracked(w, Len(deque[w]))
        BY <4>1 DEF PoolInv, ItemInv
      <4> QED  BY <4>1, <4>2 DEF Tracked
    <3> QED  BY <1>5, <3>1, <3>2
  <2>4. PastLast(w, n)'
    BY <2>1, <2>2, <2>3, LastGoes
  <2> QED  BY <2>1, <2>2, <2>4, LastReplaced
<1>6. ASSUME NEW w \in Workers, StartsTask(w)  PROVE LastInv'
  <2>1. PICK g, f : /\ Grown(w, g, f) /\ Continues(w, g)
                    /\ g.pc = Top(w).pc + 1 /\ f.task = Operand(w)
                    /\ f.home = Local /\ f.pc = 1
    BY <1>6 DEF StartsTask
  <2> PICK n : n = Len(stack[w])
    OBVIOUS
  <2>2. /\ ended' = ended /\ Running(w) /\ stack'[w][n] = g
        /\ Len(stack'[w]) = n + 1 /\ stack'[w][n + 1] = f /\ n \in Nat
    BY <1>1, <1>6, <2>1, TopFrame DEF StartsTask, Grown
  <2> PICK c : c = Operand(w)
    OBVIOUS
  <2>3. OnTop(w, n, c)'
    <3>1. n < n + 1
      BY <2>2
    <3> QED  BY <2>1, <2>2, <3>1 DEF OnTop
  <2>4. PastLast(w, n)'
    BY <2>1, <2>2, <2>3, LastGoes
  <2> QED  BY <2>1, <2>2, <2>4, LastGrown
<1>7. ASSUME NEW w \in Workers, Robs(w)  PROVE LastInv'
  <2> PICK n : n = Len(stack[w])
    OBVIOUS
  <2>1. PICK f : /\ f.pc = 1 /\ ended' = ended
                 /\ \/ Started(w, f)
                    \/ \E g : Grown(w, g, f) /\ Continues(w, g) /\ g.pc = Top(w).pc
    BY <1>7 DEF Robs
  <2>2. CASE Started(w, f)
    BY <2>1, <2>2, LastStarted
  <2>3. ASSUME NEW g, Grown(w, g, f), Continues(w, g), g.pc = Top(w).pc
        PROVE  LastInv'
    <3>1. Running(w) /\ stack'[w][n] = g
      BY <2>3 DEF Grown
    <3>2. PastLast(w, n)'
      BY <2>1, <2>3, <3>1, LastStays
    <3> QED  BY <2>1, <2>3, <3>2, LastGrown
  <2> QED  BY <2>1, <2>2, <2>3
<1>8. ASSUME NEW w \in Workers, Ends(w)  PROVE LastInv'
  <2> SUFFICES ASSUME NEW v \in Workers, NEW i \in 1 .. Len(stack'[v])
               PROVE  PastLast(v, i)'
    BY DEF LastInv
  <2>1. Popped(w) /\ ended' = ended \cup {Top(w).task} /\ OnlyStackOf(w)
    BY <1>8 DEF Ends, Finishes, Popped
  <2>2. CASE v # w
    BY <2>1, <2>2, LastOthers
  <2>3. CASE v = w
    <3> PICK n : n = Len(stack[w])
      OBVIOUS
    <3>1. /\ n \in Nat \ {0} /\ Top(w) = stack[w][n]
          /\ Len(stack'[w]) = n - 1
          /\ \A j \in 1 .. n - 1 : stack'[w][j] = stack[w][j]
      BY <1>1, <2>1, TopFrame DEF Popped
    <3>2. /\ i \in 1 .. n - 1 /\ i \in 1 .. Len(stack[w])
          /\ stack'[w][i] = stack[w][i]
      BY <2>3, <3>1
    <3> PICK f : f = stack[w][i]
      OBVIOUS
    <3> PICK c : c = Child(f.task, f.pc - 1)
      OBVIOUS
    <3>3. PastLast(w, i)
      BY <3>2 DEF LastInv
    <3>4. f.pc - 1 >= 1 /\ Program[f.task][f.pc - 1].do # "spawn" =>
            c \in ended \/ OnTop(w, i, c)
      BY <3>3 DEF PastLast
    <3>5. OnTop(w, i, c) => c \in ended' \/ OnTop(w, i, c)'
      <4>1. i + 1 = n \/ (i + 1 \in 1 .. n - 1 /\ i < n - 1)
        BY <3>1, <3>2
      <4> QED  BY <2>1, <3>1, <3>2, <4>1 DEF OnTop
    <3> QED  BY <2>1, <2>3, <3>2, <3>4, <3>5 DEF PastLast
  <2> QED  BY <2>2, <2>3
<1>9. ASSUME NEW w \in Workers, Fails(w)  PROVE LastInv'
  <2> SUFFICES ASSUME NEW v \in Workers, NEW i \in 1 .. Len(stack'[v])
               PROVE  PastLast(v, i)'
    BY DEF LastInv
  <2>1. Unwound(w) /\ ended' = ended /\ OnlyStackOf(w)
    BY <1>9 DEF Fails, Unwound
  <2>2. v # w
    BY <1>1, <2>1, UnwoundKeeps
  <2> QED  BY <2>1, <2>2, LastOthers
<1> QED
  BY <1>1, <1>2, <1>3, <1>4, <1>5, <1>6, <1>7, <1>8, <1>9
  DEF TasksMove, Calls, RunsItem

(* Tasks behave as they should together: the waits of the running tasks    *)
(* are ordered, nobody waits for a task that nobody has taken, only what   *)
(* runs can reach is on stacks and deques, and a body that goes on has the *)
(* output of its last call or sync.                                        *)
THEOREM WholeInvariance == Spec => []WholeInv
<1>1. Init => OrderInv /\ AwaitInv /\ OriginInv /\ LastInv
  <2> SUFFICES ASSUME Init
               PROVE  OrderInv /\ AwaitInv /\ OriginInv /\ LastInv
    OBVIOUS
  <2>1. \A w \in Workers : /\ 1 .. Len(stack[w]) = {}
                           /\ 1 .. Len(deque[w]) = {}
    BY DEF Init
  <2>2. Active = {} /\ Pending = {} /\ \A w \in Workers : Frames(w) = {}
    BY <2>1 DEF Active, Frames, Pending, Queued
  <2>3. OrderInv
    BY <2>2 DEF OrderInv
  <2>4. AwaitInv /\ LastInv
    BY <2>1 DEF AwaitInv, LastInv
  <2>5. OriginInv
    BY <2>2 DEF OriginInv
  <2> QED  BY <2>3, <2>4, <2>5
<1>2. PoolInv /\ PoolInv' /\ [Next]_vars
        /\ (OrderInv /\ AwaitInv /\ OriginInv /\ LastInv)
      => (OrderInv /\ AwaitInv /\ OriginInv /\ LastInv)'
  BY OrderStep, AwaitStep, OriginStep, LastStep
<1> QED  BY <1>1, <1>2, PoolInvariance, PTL DEF Spec, WholeInv

(* No group of workers waits for nobody but itself: of the tasks on their  *)
(* stacks one waits for no other, it is at the top of a stack, and what it *)
(* waits for would be on the stack of a thief in the group.                *)
THEOREM NobodyWaitsInACircle == Spec => []NoCircle
<1>1. WholeInv => NoCircle
  <2> SUFFICES ASSUME WholeInv, NEW W \in SUBSET Workers, W # {},
                      \A w \in W : WaitsWithin(w, W)
               PROVE  FALSE
    BY DEF NoCircle
  <2>1. TypeOK /\ StackInv /\ ItemInv /\ OrderInv /\ AwaitInv
    BY DEF WholeInv, PoolInv
  <2> DEFINE On(t) == \E w \in W : \E i \in 1 .. Len(stack[w]) :
                        stack[w][i].task = t
             A == {t \in Active : On(t)}
  <2>2. \A w \in W : /\ w \in Workers /\ Running(w)
                     /\ Len(stack[w]) \in 1 .. Len(stack[w])
                     /\ Top(w) = stack[w][Len(stack[w])]
    BY <2>1, TopFrame DEF WaitsWithin
  <2>3. \A w \in W : \A i \in 1 .. Len(stack[w]) : stack[w][i].task \in A
    BY <2>2, ActiveTasks
  <2>4. A # {}
    BY <2>2, <2>3
  <2>5. PICK t \in A : \A u \in A : ~WaitsFor(t, u)
    <3>1. A \in (SUBSET Active) \ {{}}
      <4>1. A \subseteq Active
        OBVIOUS
      <4> HIDE DEF A
      <4> QED  BY <2>4, <4>1
    <3> HIDE DEF A
    <3> QED  BY <2>1, <3>1 DEF OrderInv
  <2>6. PICK w \in W : \E i \in 1 .. Len(stack[w]) : stack[w][i].task = t
    BY <2>5
  <2>7. PICK i \in 1 .. Len(stack[w]) : stack[w][i].task = t
    BY <2>6
  <2> HIDE DEF A
  <2>8. i = Len(stack[w])
    <3> SUFFICES ASSUME i # Len(stack[w])  PROVE FALSE
      OBVIOUS
    <3>1. i < Len(stack[w]) /\ i + 1 \in 1 .. Len(stack[w])
      BY <2>2
    <3>2. stack[w][i + 1].task \in A /\ WaitsFor(t, stack[w][i + 1].task)
      BY <2>2, <2>3, <2>7, <3>1 DEF WaitsFor
    <3> QED  BY <2>5, <3>2
  <2> PICK f : f = stack[w][i]
    OBVIOUS
  <2> PICK m : m = Len(deque[w])
    OBVIOUS
  <2> PICK d : d = deque[w][m]
    OBVIOUS
  <2>9. /\ w \in Workers /\ f.at # "body" /\ Newest(deque[w]) = d
        /\ d.status # "done" /\ d.task \notin lost
        /\ d.status = "stolen" => d.thief \in W
    BY <2>2, <2>8 DEF WaitsWithin, Newest
  <2>10. /\ Height(f) = m /\ m \in 1 .. Len(deque[w])
         /\ \E j \in 1 .. Len(Holding(f)) : Holding(f)[j] = d.task
    <3>1. Height(f) = m
      BY <2>1, <2>8, <2>9, FrameOf
    <3>2. f.pc <= Len(Program[f.task]) /\ Program[f.task][f.pc].do = "sync"
      BY <2>1, <2>9, FrameOf
    <3> QED  BY <2>1, <2>9, <3>1, <3>2, AwaitedItem
  <2>11. WaitsFor(t, d.task)
    BY <2>7, <2>9, <2>10 DEF WaitsFor
  <2>12. d.status = "stolen" /\ d.thief \in W
    <3>1. d.status \in {"ready", "stolen", "done"}
      BY <2>1, <2>9, <2>10, Elements
    <3>2. d.status # "ready"
      BY <2>1, <2>9, <2>10 DEF AwaitInv
    <3> QED  BY <2>9, <3>1, <3>2
  <2>13. d.task \in A
    <3>1. Tracked(w, m)
      BY <2>1, <2>9, <2>10 DEF ItemInv
    <3>2. \E l \in 1 .. Len(stack[d.thief]) : stack[d.thief][l].task = d.task
      BY <2>9, <2>12, <3>1 DEF Tracked
    <3> QED  BY <2>3, <2>12, <3>2
  <2> QED  BY <2>5, <2>11, <2>13
<1> QED  BY <1>1, WholeInvariance, PTL

(* After a run that no panic has hit every stack and every deque is empty: *)
(* the tasks that are on none of them are closed under starting others.    *)
THEOREM PoolRests == Spec => []RestsAfterRun
<1>1. WholeInv /\ ParentsOutlive => RestsAfterRun
  <2> SUFFICES ASSUME WholeInv, ParentsOutlive, ~Running(Root), lost = {}
               PROVE  \A w \in Workers : ~Running(w) /\ deque[w] = <<>>
    BY DEF RestsAfterRun
  <2>1. TypeOK /\ ItemInv /\ Active \cup Pending \subseteq Reached
    BY DEF WholeInv, PoolInv, OriginInv
  <2> DEFINE S == Tasks \ (Active \cup Pending)
  <2>2. \A t \in Mains : t \in S
    <3>1. \A t \in Pending : t \notin Mains
      <4> SUFFICES ASSUME NEW w \in Workers, NEW i \in 1 .. Len(deque[w])
                   PROVE  deque[w][i].task \notin Mains
        BY DEF Pending, Queued
      <4>1. Tracked(w, i)
        BY <2>1 DEF ItemInv
      <4> QED  BY <4>1 DEF Tracked
    <3>2. \A t \in Active : t \notin Mains
      <4> SUFFICES ASSUME NEW w \in Workers, NEW f \in Frames(w)
                   PROVE  f.task \notin Mains
        BY DEF Active
      <4>1. w # Root
        BY DEF Running, Frames
      <4> QED  BY <4>1 DEF WholeInv, OriginInv
    <3> QED  BY <3>1, <3>2, ProgramAssumption
  <2>3. ASSUME NEW t \in S, NEW k \in 1 .. Len(Program[t]), Starts(t, k)
        PROVE  Child(t, k) \in S
    BY <2>3, ProgramType DEF ParentsOutlive
  <2>4. Closed(S)
    BY <2>2, <2>3 DEF Closed
  <2>5. Active = {} /\ Pending = {}
    <3>1. S \in SUBSET Tasks
      OBVIOUS
    <3>2. \A t \in Reached : t \in S
      BY <2>4, <3>1 DEF Reached
    <3> QED  BY <2>1, <3>2
  <2> SUFFICES ASSUME NEW w \in Workers
               PROVE  ~Running(w) /\ deque[w] = <<>>
    OBVIOUS
  <2>6. ~Running(w)
    BY <2>1, <2>5, TopFrame, ActiveTasks
  <2>7. 1 .. Len(deque[w]) = {}
    BY <2>5, PendingTasks DEF Unqueued
  <2>8. deque[w] \in Seq(ItemType) /\ Len(deque[w]) \in Nat
    BY <2>1, Elements
  <2>9. Len(deque[w]) = 0
    <3> SUFFICES ASSUME Len(deque[w]) # 0  PROVE FALSE
      OBVIOUS
    <3>1. 1 \in 1 .. Len(deque[w])
      BY <2>8
    <3> QED  BY <2>7, <3>1
  <2> QED  BY <2>6, <2>8, <2>9
<1> QED  BY <1>1, WholeInvariance, ParentsStay, PTL

------------------------------------------------------------------------------
(* What the mapping to ForkJoin shows of a state                           *)

(* The place of a task is where its frame is in the body.                  *)
Placed ==
  /\ \A w \in Workers : \A i \in 1 .. Len(stack[w]) :
       Place[stack[w][i].task] = stack[w][i].pc
  /\ \A t \in Tasks : t \notin Active => Place[t] = 0

Staged ==
  \A t \in Tasks :
    /\ t \in Active => State[t] = "running"
    /\ State[t] = "running" => t \in Active
    /\ begun[t] = 0 => /\ t \notin ended \cup lost
                       /\ t \in Pending => State[t] = "forked"
                       /\ t \notin Pending => State[t] = "fresh"
    /\ t \in ended => State[t] = "ended"

LEMMA ShownPlaces == PoolInv => Placed
<1> SUFFICES ASSUME PoolInv  PROVE Placed
  OBVIOUS
<1>1. ASSUME NEW w \in Workers, NEW i \in 1 .. Len(stack[w])
      PROVE  Place[stack[w][i].task] = stack[w][i].pc
  <2> PICK t : t = stack[w][i].task
    OBVIOUS
  <2>1. t \in Tasks /\ t \in Active
    BY Elements, ActiveTasks DEF PoolInv
  <2>2. \A v \in Workers : \A j \in 1 .. Len(stack[v]) :
          stack[v][j].task = t => v = w /\ j = i
    <3>1. Homed(w, i)
      BY DEF PoolInv, FrameInv
    <3> QED  BY <3>1 DEF Homed
  <2> DEFINE All == UNION {Frames(v) : v \in Workers}
  <2>3. stack[w][i] \in All
    BY DEF Frames
  <2>4. \A f \in All : f.task = t => f = stack[w][i]
    BY <2>2 DEF Frames
  <2>5. FrameFor(t) = stack[w][i]
    <3>1. FrameFor(t) \in All /\ FrameFor(t).task = t
      BY <2>3 DEF FrameFor
    <3> QED  BY <2>4, <3>1
  <2> QED  BY <2>1, <2>5 DEF Place
<1>2. \A t \in Tasks : t \notin Active => Place[t] = 0
  BY DEF Place
<1> QED  BY <1>1, <1>2 DEF Placed

LEMMA ShownStages == PoolInv => Staged
<1> SUFFICES ASSUME PoolInv, NEW t \in Tasks
             PROVE  /\ t \in Active => State[t] = "running"
                    /\ State[t] = "running" => t \in Active
                    /\ begun[t] = 0 => /\ t \notin ended \cup lost
                                       /\ t \in Pending => State[t] = "forked"
                                       /\ t \notin Pending => State[t] = "fresh"
                    /\ t \in ended => State[t] = "ended"
  BY DEF Staged
<1>1. /\ begun[t] \in {0, 1}
      /\ begun[t] = 1 => t \in Active \cup ended \cup lost
      /\ t \in ended \cup lost => begun[t] = 1
  BY DEF PoolInv, FrameInv
<1>2. t \in Active => begun[t] = 1 /\ t \notin ended \cup lost
  <2> SUFFICES ASSUME t \in Active
               PROVE  begun[t] = 1 /\ t \notin ended \cup lost
    OBVIOUS
  <2>0. PICK w \in Workers : \E i \in 1 .. Len(stack[w]) : stack[w][i].task = t
    BY ActiveTasks
  <2>1. PICK i \in 1 .. Len(stack[w]) : stack[w][i].task = t
    BY <2>0
  <2>2. Homed(w, i)
    BY DEF PoolInv, FrameInv
  <2> QED  BY <2>1, <2>2 DEF Homed
<1>3. State[t] = IF t \in ended THEN "ended" ELSE IF t \in lost THEN "lost"
                 ELSE IF begun[t] # 0 THEN "running"
                 ELSE IF t \in Pending THEN "forked" ELSE "fresh"
  BY DEF State
<1> QED  BY <1>1, <1>2, <1>3

(* What a step does not touch it does not change.                          *)
LEMMA StateKept ==
  ASSUME NEW u \in Tasks, u \in ended' <=> u \in ended,
         u \in lost' <=> u \in lost, begun'[u] = begun[u],
         \/ Unqueued(u)' <=> Unqueued(u)
         \/ begun[u] # 0 \/ u \in ended
  PROVE  State'[u] = State[u]
<1>1. (u \in Pending <=> ~Unqueued(u)) /\ (u \in Pending' <=> ~Unqueued(u)')
  BY DEF Pending, Queued, Unqueued
<1> QED  BY <1>1 DEF State

LEMMA PlaceKept ==
  ASSUME PoolInv, PoolInv', NEW u \in Tasks,
         \A v \in Workers : \A j \in 1 .. Len(stack[v]) :
           stack[v][j].task = u =>
             /\ j \in 1 .. Len(stack'[v]) /\ stack'[v][j].task = u
             /\ stack'[v][j].pc = stack[v][j].pc,
         \A v \in Workers : \A j \in 1 .. Len(stack'[v]) :
           stack'[v][j].task = u =>
             j \in 1 .. Len(stack[v]) /\ stack[v][j].task = u
  PROVE  Place'[u] = Place[u]
<1>1. Placed
  BY ShownPlaces
<1>2. Placed'
  BY ShownPlaces, PTL
<1>3. CASE u \in Active
  <2>0. PICK v \in Workers : \E j \in 1 .. Len(stack[v]) : stack[v][j].task = u
    BY <1>3, ActiveTasks
  <2>1. PICK j \in 1 .. Len(stack[v]) : stack[v][j].task = u
    BY <2>0
  <2>2. /\ j \in 1 .. Len(stack'[v]) /\ stack'[v][j].task = u
        /\ stack'[v][j].pc = stack[v][j].pc
    BY <2>1
  <2> QED  BY <1>1, <1>2, <2>1, <2>2 DEF Placed
<1>4. CASE u \notin Active
  <2>1. u \notin Active'
    BY <1>4, ActiveTasks DEF Active, Frames
  <2> QED  BY <1>1, <1>2, <1>4, <2>1 DEF Placed
<1> QED  BY <1>3, <1>4

(* How the shapes of stacks change the places.                             *)
LEMMA PlacesReplaced ==
  ASSUME PoolInv, PoolInv', NEW w \in Workers, NEW g, Replaced(w, g),
         Continues(w, g), NEW t, t = Top(w).task
  PROVE  /\ Place[t] = Top(w).pc /\ Place'[t] = g.pc
         /\ \A u \in Tasks : u # t => Place'[u] = Place[u]
<1> PICK n : n = Len(stack[w])
  OBVIOUS
<1>1. /\ n \in Nat \ {0} /\ Top(w) = stack[w][n] /\ OnlyStackOf(w)
      /\ Len(stack'[w]) = n /\ stack'[w][n] = g /\ g.task = t
      /\ \A j \in 1 .. n - 1 : stack'[w][j] = stack[w][j]
  BY TopFrame DEF PoolInv, Replaced, Continues
<1>2. Place[t] = Top(w).pc
  BY <1>1, ShownPlaces DEF Placed
<1>3. Place'[t] = g.pc
  <2>1. Placed'
    BY ShownPlaces, PTL
  <2>2. n \in 1 .. Len(stack'[w])
    BY <1>1
  <2> QED  BY <1>1, <2>1, <2>2 DEF Placed
<1>4. ASSUME NEW u \in Tasks, u # t  PROVE Place'[u] = Place[u]
  <2>1. ASSUME NEW v \in Workers, NEW j \in 1 .. Len(stack[v])
        PROVE  /\ j \in 1 .. Len(stack'[v])
               /\ stack[v][j].task = u => stack'[v][j] = stack[v][j]
               /\ stack'[v][j].task = u => stack[v][j].task = u
    <3>1. CASE v # w
      BY <1>1, <3>1 DEF OnlyStackOf
    <3>2. CASE v = w /\ j = n
      BY <1>1, <1>4, <3>2
    <3>3. CASE v = w /\ j # n
      <4>1. j \in 1 .. n - 1
        BY <1>1, <3>3
      <4> QED  BY <1>1, <3>3, <4>1
    <3> QED  BY <3>1, <3>2, <3>3
  <2>2. \A v \in Workers : Len(stack'[v]) = Len(stack[v])
    BY <1>1 DEF OnlyStackOf
  <2> QED  BY <2>1, <2>2, PlaceKept
<1> QED  BY <1>2, <1>3, <1>4

LEMMA PlacesGrown ==
  ASSUME PoolInv, PoolInv', NEW w \in Workers, NEW g, NEW f, Grown(w, g, f),
         Continues(w, g), NEW t, t = Top(w).task
  PROVE  /\ Place[t] = Top(w).pc /\ Place'[t] = g.pc
         /\ Place'[f.task] = f.pc
         /\ \A u \in Tasks : u # t /\ u # f.task => Place'[u] = Place[u]
<1> PICK n : n = Len(stack[w])
  OBVIOUS
<1>1. /\ n \in Nat \ {0} /\ Top(w) = stack[w][n] /\ OnlyStackOf(w)
      /\ Len(stack'[w]) = n + 1 /\ stack'[w][n] = g /\ g.task = t
      /\ stack'[w][n + 1] = f
      /\ \A j \in 1 .. n - 1 : stack'[w][j] = stack[w][j]
  BY TopFrame DEF PoolInv, Grown, Continues
<1>2. Place[t] = Top(w).pc
  BY <1>1, ShownPlaces DEF Placed
<1>3. Place'[t] = g.pc /\ Place'[f.task] = f.pc
  <2>1. Placed'
    BY ShownPlaces, PTL
  <2>2. n \in 1 .. Len(stack'[w]) /\ n + 1 \in 1 .. Len(stack'[w])
    BY <1>1
  <2> QED  BY <1>1, <2>1, <2>2 DEF Placed
<1>4. ASSUME NEW u \in Tasks, u # t, u # f.task  PROVE Place'[u] = Place[u]
  <2>1. ASSUME NEW v \in Workers, NEW j \in 1 .. Len(stack[v])
        PROVE  /\ j \in 1 .. Len(stack'[v])
               /\ stack[v][j].task = u => stack'[v][j] = stack[v][j]
    <3>1. CASE v # w
      BY <1>1, <3>1 DEF OnlyStackOf
    <3>2. CASE v = w /\ j = n
      BY <1>1, <1>4, <3>2
    <3>3. CASE v = w /\ j # n
      <4>1. j \in 1 .. n - 1 /\ j \in 1 .. n + 1
        BY <1>1, <3>3
      <4> QED  BY <1>1, <3>3, <4>1
    <3> QED  BY <3>1, <3>2, <3>3
  <2>2. ASSUME NEW v \in Workers, NEW j \in 1 .. Len(stack'[v]),
               stack'[v][j].task = u
        PROVE  j \in 1 .. Len(stack[v]) /\ stack[v][j].task = u
    <3>1. CASE v # w
      BY <1>1, <2>2, <3>1 DEF OnlyStackOf
    <3>2. CASE v = w
      <4>1. j # n /\ j # n + 1
        BY <1>1, <1>4, <2>2, <3>2
      <4>2. j \in 1 .. n - 1 /\ j \in 1 .. n
        BY <1>1, <3>2, <4>1
      <4> QED  BY <1>1, <2>2, <3>2, <4>2
    <3> QED  BY <3>1, <3>2
  <2> QED  BY <2>1, <2>2, PlaceKept
<1> QED  BY <1>2, <1>3, <1>4

LEMMA PlacesStarted ==
  ASSUME PoolInv, PoolInv', NEW w \in Workers, NEW f, Started(w, f)
  PROVE  /\ Place'[f.task] = f.pc
         /\ \A u \in Tasks : u # f.task => Place'[u] = Place[u]
<1>1. /\ Len(stack[w]) = 0 /\ Len(stack'[w]) = 1 /\ stack'[w][1] = f
      /\ \A v \in Workers \ {w} : stack'[v] = stack[v]
  BY DEF Started, OnlyStackOf
<1>2. Place'[f.task] = f.pc
  <2>1. Placed'
    BY ShownPlaces, PTL
  <2>2. 1 \in 1 .. Len(stack'[w])
    BY <1>1
  <2> QED  BY <1>1, <2>1, <2>2 DEF Placed
<1>3. ASSUME NEW u \in Tasks, u # f.task  PROVE Place'[u] = Place[u]
  <2>1. ASSUME NEW v \in Workers, NEW j \in 1 .. Len(stack[v])
        PROVE  j \in 1 .. Len(stack'[v]) /\ stack'[v][j] = stack[v][j]
    BY <1>1
  <2>2. ASSUME NEW v \in Workers, NEW j \in 1 .. Len(stack'[v]),
               stack'[v][j].task = u
        PROVE  j \in 1 .. Len(stack[v]) /\ stack[v][j].task = u
    <3>1. CASE v = w
      <4>0. j \in 1 .. Len(stack'[w])
        BY <3>1
      <4>1. j = 1
        BY <1>1, <4>0
      <4> QED  BY <1>1, <1>3, <2>2, <3>1, <4>1
    <3> QED  BY <1>1, <2>2, <3>1
  <2> QED  BY <2>1, <2>2, PlaceKept
<1> QED  BY <1>2, <1>3

LEMMA PlacesPopped ==
  ASSUME PoolInv, PoolInv', NEW w \in Workers, Popped(w),
         NEW t, t = Top(w).task
  PROVE  /\ Place'[t] = 0
         /\ \A u \in Tasks : u # t => Place'[u] = Place[u]
<1>1. TypeOK /\ FrameInv /\ Running(w)
  BY DEF PoolInv, Popped
<1>2. /\ t \in Tasks
      /\ \A v \in Workers : \A i \in 1 .. Len(stack[v]) :
           stack[v][i].task = t => v = w /\ i = Len(stack[w])
  BY <1>1, OneFrame
<1>3. Place'[t] = 0
  <2>1. Placed'
    BY ShownPlaces, PTL
  <2>2. \A v \in Workers : \A j \in 1 .. Len(stack'[v]) : stack'[v][j].task # t
    BY <1>1, <1>2, PoppedKeeps
  <2>3. t \notin Active'
    BY <2>2 DEF Active, Frames
  <2> QED  BY <1>2, <2>1, <2>3 DEF Placed
<1>4. ASSUME NEW u \in Tasks, u # t  PROVE Place'[u] = Place[u]
  <2>1. ASSUME NEW v \in Workers, NEW j \in 1 .. Len(stack[v]),
               stack[v][j].task = u
        PROVE  j \in 1 .. Len(stack'[v]) /\ stack'[v][j] = stack[v][j]
    BY <1>1, <1>4, <2>1, PoppedKeeps
  <2>2. ASSUME NEW v \in Workers, NEW j \in 1 .. Len(stack'[v])
        PROVE  j \in 1 .. Len(stack[v]) /\ stack'[v][j] = stack[v][j]
    BY <1>1, PoppedKeeps
  <2> QED  BY <2>1, <2>2, PlaceKept
<1> QED  BY <1>3, <1>4

LEMMA PlacesUnwound ==
  ASSUME PoolInv, PoolInv', NEW w \in Workers, Unwound(w),
         NEW S, S = {f.task : f \in Frames(w)}
  PROVE  /\ \A u \in Tasks : u \in S => Place'[u] = 0
         /\ \A u \in Tasks : u \notin S => Place'[u] = Place[u]
<1>1. TypeOK
  BY DEF PoolInv
<1>2. \A i \in 1 .. Len(stack[w]) : stack[w][i].task \in S
  BY DEF Frames
<1>3. ASSUME NEW u \in Tasks, u \in S  PROVE Place'[u] = 0
  <2>1. PICK i \in 1 .. Len(stack[w]) : stack[w][i].task = u
    BY <1>3 DEF Frames
  <2>2. Homed(w, i)
    BY DEF PoolInv, FrameInv
  <2>3. \A v \in Workers : \A j \in 1 .. Len(stack'[v]) : stack'[v][j].task # u
    BY <1>1, <2>1, <2>2, UnwoundKeeps DEF Homed
  <2>4. u \notin Active'
    BY <2>3 DEF Active, Frames
  <2>5. Placed'
    BY ShownPlaces, PTL
  <2> QED  BY <2>4, <2>5 DEF Placed
<1>4. ASSUME NEW u \in Tasks, u \notin S  PROVE Place'[u] = Place[u]
  <2>1. ASSUME NEW v \in Workers, NEW j \in 1 .. Len(stack[v]),
               stack[v][j].task = u
        PROVE  j \in 1 .. Len(stack'[v]) /\ stack'[v][j] = stack[v][j]
    <3>1. v # w
      BY <1>2, <1>4, <2>1
    <3> QED  BY <3>1 DEF Unwound, OnlyStackOf
  <2>2. ASSUME NEW v \in Workers, NEW j \in 1 .. Len(stack'[v])
        PROVE  j \in 1 .. Len(stack[v]) /\ stack'[v][j] = stack[v][j]
    BY <1>1, UnwoundKeeps
  <2> QED  BY <2>1, <2>2, PlaceKept
<1> QED  BY <1>3, <1>4

------------------------------------------------------------------------------
(* Each step is one of ForkJoin, or changes nothing that it sees           *)

LEMMA ChangedAt ==
  ASSUME NEW D, NEW F, NEW G, F = [x \in D |-> F[x]], G = [x \in D |-> G[x]],
         NEW a \in D, \A x \in D : x # a => G[x] = F[x]
  PROVE  G = [F EXCEPT ![a] = G[a]]
OBVIOUS

LEMMA ChangedAtTwo ==
  ASSUME NEW D, NEW F, NEW G, F = [x \in D |-> F[x]], G = [x \in D |-> G[x]],
         NEW a \in D, NEW b \in D, a # b,
         \A x \in D : x # a /\ x # b => G[x] = F[x]
  PROVE  G = [F EXCEPT ![a] = G[a], ![b] = G[b]]
OBVIOUS

LEMMA ShownAre ==
  /\ State = [t \in Tasks |-> State[t]]
  /\ Place = [t \in Tasks |-> Place[t]]
BY DEF State, Place

(* The task at the top of a stack may go on.                               *)
LEMMA TopReady ==
  ASSUME PoolInv, LastInv, NEW w \in Workers, Running(w),
         NEW t, t = Top(w).task
  PROVE  /\ t \in Tasks /\ State[t] = "running" /\ Place[t] = Top(w).pc
         /\ Promise!Ready(t) /\ t \in Active
<1> PICK n : n = Len(stack[w])
  OBVIOUS
<1>1. /\ n \in 1 .. Len(stack[w]) /\ Top(w) = stack[w][n] /\ t \in Tasks
      /\ t \in Active
  BY TopFrame, ActiveTasks DEF PoolInv
<1>2. Place[t] = Top(w).pc /\ State[t] = "running"
  BY <1>1, ShownPlaces, ShownStages DEF Placed, Staged
<1> PICK k : k = Top(w).pc - 1
  OBVIOUS
<1>3. k >= 1 /\ Program[t][k].do # "spawn" => State[Program[t][k].of] = "ended"
  <2> SUFFICES ASSUME k >= 1, Program[t][k].do # "spawn"
               PROVE  State[Program[t][k].of] = "ended"
    OBVIOUS
  <2>1. Child(t, k) \in ended
    BY LastAtTop
  <2>2. Child(t, k) \in Tasks
    BY <2>1 DEF PoolInv, TypeOK
  <2>3. State[Child(t, k)] = "ended"
    BY <2>1, <2>2, ShownStages DEF Staged
  <2> QED  BY <2>3 DEF Child
<1> QED  BY <1>1, <1>2, <1>3 DEF Promise!Ready

LEMMA TopAt ==
  ASSUME PoolInv, LastInv, NEW w \in Workers, NEW o, NextIs(w, o),
         NEW t, t = Top(w).task
  PROVE  /\ t \in Tasks /\ Place[t] = Top(w).pc /\ State[t] = "running"
         /\ Promise!AtOp(t, o) /\ Promise!Named(t) = Operand(w)
         /\ Operand(w) \in Tasks
<1>1. /\ t \in Tasks /\ Place[t] = Top(w).pc /\ State[t] = "running"
      /\ Promise!Ready(t)
  BY TopReady DEF NextIs
<1>2. Place[t] <= Len(Program[t]) /\ Program[t][Place[t]].do = o
  BY <1>1 DEF NextIs, Body
<1>3. Promise!Named(t) = Operand(w)
  BY <1>1 DEF Promise!Named, Operand, Body
<1>4. Operand(w) \in Tasks
  BY HoldsNext DEF PoolInv, NextIs, Body
<1> QED  BY <1>1, <1>2, <1>3, <1>4 DEF Promise!AtOp

LEMMA WaitsShown ==
  ASSUME PoolInv, PoolInv', NEW w \in Workers, Waits(w)
  PROVE  UNCHANGED Promise!fjVars
<1> PICK t : t = Top(w).task
  OBVIOUS
<1>1. PICK g : /\ Replaced(w, g) /\ Continues(w, g) /\ g.pc = Top(w).pc
               /\ UNCHANGED <<deque, begun, ended, lost>>
  BY DEF Waits
<1>2. \A u \in Tasks : Place'[u] = Place[u]
  BY <1>1, PlacesReplaced
<1>3. Place' = Place
  BY <1>2 DEF Place
<1>4. State' = State
  BY <1>1 DEF State, Pending, Queued
<1> QED  BY <1>3, <1>4 DEF Promise!fjVars

(* A task c is started, by the body at the top of w's stack.               *)
LEMMA Begun ==
  ASSUME PoolInv, PoolInv', NEW c, Begins(c), UNCHANGED <<ended, lost>>,
         \A u \in Tasks : u # c => (Unqueued(u)' <=> Unqueued(u))
  PROVE  State' = [State EXCEPT ![c] = "running"]
<1>1. c \in Tasks /\ begun[c] = 0 /\ begun'[c] = 1
  BY DEF Begins
<1>2. \A u \in Tasks : u # c => State'[u] = State[u]
  <2> SUFFICES ASSUME NEW u \in Tasks, u # c  PROVE State'[u] = State[u]
    OBVIOUS
  <2>1. begun'[u] = begun[u]
    BY DEF Begins
  <2> QED  BY <2>1, StateKept
<1>3. State'[c] = "running"
  <2>1. c \notin ended \cup lost
    BY <1>1, ShownStages DEF Staged
  <2> QED  BY <1>1, <2>1 DEF State
<1>4. State' = [t \in Tasks |-> State'[t]]
  BY DEF State
<1> HIDE DEF State
<1> QED  BY <1>1, <1>2, <1>3, <1>4, ShownAre, ChangedAt

LEMMA StartsShown ==
  ASSUME PoolInv, PoolInv', NEW w \in Workers, StartsTask(w), Running(w),
         NEW t, t = Top(w).task, NEW c, c = Operand(w),
         \A u \in Tasks : u # c => (Unqueued(u)' <=> Unqueued(u))
  PROVE  /\ State' = [State EXCEPT ![c] = "running"]
         /\ Place' = [Place EXCEPT ![t] = Place[t] + 1, ![c] = 1]
<1>1. PICK g, f : /\ Grown(w, g, f) /\ Continues(w, g)
                  /\ g.pc = Top(w).pc + 1 /\ f.task = c /\ f.pc = 1
  BY DEF StartsTask
<1>2. Begins(c) /\ UNCHANGED <<ended, lost>> /\ c \in Tasks /\ begun[c] = 0
  BY DEF StartsTask, Begins
<1>3. State' = [State EXCEPT ![c] = "running"]
  BY <1>2, Begun
<1>4. t \in Tasks /\ begun[t] = 1
  BY OneFrame DEF PoolInv
<1>5. /\ Place'[t] = Place[t] + 1 /\ Place'[c] = 1
      /\ \A u \in Tasks : u # t /\ u # c => Place'[u] = Place[u]
  BY <1>1, PlacesGrown
<1>6. t # c
  BY <1>2, <1>4
<1>7. Place' = [u \in Tasks |-> Place'[u]]
  BY DEF Place
<1>8. Place' = [Place EXCEPT ![t] = Place'[t], ![c] = Place'[c]]
  <2> HIDE DEF Place
  <2> QED  BY <1>2, <1>4, <1>5, <1>6, <1>7, ShownAre, ChangedAtTwo
<1> QED  BY <1>3, <1>5, <1>8

LEMMA GoesShown ==
  ASSUME PoolInv, PoolInv', NEW w \in Workers, NEW g, Replaced(w, g),
         Continues(w, g), g.pc = Top(w).pc + 1, NEW t, t = Top(w).task
  PROVE  Place' = [Place EXCEPT ![t] = Place[t] + 1]
<1>1. /\ Place'[t] = Place[t] + 1
      /\ \A u \in Tasks : u # t => Place'[u] = Place[u]
  BY PlacesReplaced
<1>2. t \in Tasks
  BY TopFrame DEF PoolInv, Replaced
<1>3. Place' = [u \in Tasks |-> Place'[u]]
  BY DEF Place
<1>4. Place' = [Place EXCEPT ![t] = Place'[t]]
  <2> HIDE DEF Place
  <2> QED  BY <1>1, <1>2, <1>3, ShownAre, ChangedAt
<1> QED  BY <1>1, <1>4

(* What is taken from a deque is the only thing that leaves it.            *)
LEMMA SettledAlone ==
  ASSUME PoolInv, NEW w \in Workers, NEW s, SettlesTop(w, s),
         NEW c, c = deque[w][Len(deque[w])].task,
         NEW u \in Tasks, u # c
  PROVE  Unqueued(u)' <=> Unqueued(u)
<1> PICK m : m = Len(deque[w])
  OBVIOUS
<1>1. /\ m \in 1 .. m /\ m \in Nat /\ Len(deque'[w]) = m - 1
      /\ \A i \in 1 .. m - 1 : deque'[w][i] = deque[w][i]
      /\ \A v \in Workers \ {w} : deque'[v] = deque[v]
  BY Elements DEF PoolInv, SettlesTop
<1>2. ASSUME NEW v \in Workers, NEW i \in 1 .. Len(deque[v]),
             deque[v][i].task = u
      PROVE  i \in 1 .. Len(deque'[v]) /\ deque'[v][i].task = u
  <2>1. CASE v = w
    <3>1. i # m /\ i \in 1 .. m
      BY <1>2, <2>1
    <3>2. i \in 1 .. m - 1
      BY <1>1, <3>1
    <3> QED  BY <1>1, <1>2, <2>1, <3>2
  <2> QED  BY <1>1, <1>2, <2>1
<1>3. ASSUME NEW v \in Workers, NEW i \in 1 .. Len(deque'[v])
      PROVE  i \in 1 .. Len(deque[v]) /\ deque'[v][i] = deque[v][i]
  <2>1. CASE v = w
    <3>1. i \in 1 .. m - 1 /\ i \in 1 .. m
      BY <1>1, <2>1
    <3> QED  BY <1>1, <2>1, <3>1
  <2> QED  BY <1>1, <2>1
<1> QED  BY <1>2, <1>3 DEF Unqueued

LEMMA ForksShown ==
  ASSUME PoolInv, PoolInv', LastInv, NEW w \in Workers, Forks(w)
  PROVE  \E t \in Tasks : Promise!Fork(t)
<1> PICK t : t = Top(w).task
  OBVIOUS
<1> PICK c : c = Operand(w)
  OBVIOUS
<1> PICK m : m = Len(deque[w])
  OBVIOUS
<1>1. /\ NextIs(w, "spawn") /\ UNCHANGED <<begun, ended, lost>>
      /\ Len(deque'[w]) = m + 1 /\ deque'[w][m + 1] = Item(c)
      /\ \A i \in 1 .. m : deque'[w][i] = deque[w][i]
      /\ \A v \in Workers \ {w} : deque'[v] = deque[v] /\ m \in Nat
  BY Elements DEF Forks, Pushes, NextIs, PoolInv
<1>2. /\ t \in Tasks /\ Promise!AtOp(t, "spawn") /\ Promise!Named(t) = c
      /\ c \in Tasks
  BY <1>1, TopAt
<1>3. Fresh(c)
  BY <1>1, NextChild DEF NextIs
<1>4. State[c] = "fresh"
  BY <1>2, <1>3, PendingTasks, ShownStages DEF Staged, Fresh
<1>5. State'[c] = "forked"
  <2>1. ~Unqueued(c)'
    <3>1. m + 1 \in 1 .. Len(deque'[w]) /\ deque'[w][m + 1].task = c
      BY <1>1, Elements DEF PoolInv, Item
    <3> QED  BY <3>1 DEF Unqueued
  <2>2. c \in Pending'
    BY <2>1 DEF Pending, Queued, Unqueued
  <2>3. begun'[c] = 0
    BY <1>1, <1>3 DEF Fresh
  <2>4. Staged'
    BY ShownStages, PTL
  <2> QED  BY <1>2, <2>2, <2>3, <2>4 DEF Staged
<1>6. \A u \in Tasks : u # c => State'[u] = State[u]
  <2> SUFFICES ASSUME NEW u \in Tasks, u # c  PROVE State'[u] = State[u]
    OBVIOUS
  <2>1. ASSUME NEW v \in Workers, NEW i \in 1 .. Len(deque[v])
        PROVE  i \in 1 .. Len(deque'[v]) /\ deque'[v][i] = deque[v][i]
    BY <1>1, Elements DEF PoolInv
  <2>2. ASSUME NEW v \in Workers, NEW i \in 1 .. Len(deque'[v]),
               deque'[v][i].task = u
        PROVE  i \in 1 .. Len(deque[v])
    <3>1. CASE v = w
      <4>1. i \in 1 .. m \/ i = m + 1
        BY <1>1, <3>1, Elements DEF PoolInv
      <4>2. i # m + 1
        BY <1>1, <2>2, <3>1 DEF Item
      <4> QED  BY <3>1, <4>1, <4>2
    <3> QED  BY <1>1, <3>1
  <2>3. Unqueued(u)' <=> Unqueued(u)
    BY <2>1, <2>2 DEF Unqueued
  <2> QED  BY <1>1, <2>3, StateKept
<1>7. State' = [State EXCEPT ![c] = "forked"]
  <2>1. State' = [u \in Tasks |-> State'[u]]
    BY DEF State
  <2> HIDE DEF State
  <2> QED  BY <1>2, <1>5, <1>6, <2>1, ShownAre, ChangedAt
<1>8. Place' = [Place EXCEPT ![t] = Place[t] + 1]
  BY GoesShown DEF Forks
<1> QED  BY <1>2, <1>4, <1>7, <1>8 DEF Promise!Fork

LEMMA CallsShown ==
  ASSUME PoolInv, PoolInv', LastInv, NEW w \in Workers, Calls(w)
  PROVE  \E t \in Tasks : Promise!Inline(t, "call", "fresh")
<1> PICK t : t = Top(w).task
  OBVIOUS
<1> PICK c : c = Operand(w)
  OBVIOUS
<1>1. NextIs(w, "call") /\ StartsTask(w) /\ deque' = deque /\ Running(w)
  BY DEF Calls, NextIs
<1>2. /\ t \in Tasks /\ Promise!AtOp(t, "call") /\ Promise!Named(t) = c
      /\ c \in Tasks
  BY <1>1, TopAt
<1>3. Fresh(c)
  BY <1>1, NextChild DEF NextIs
<1>4. State[c] = "fresh"
  BY <1>2, <1>3, PendingTasks, ShownStages DEF Staged, Fresh
<1>5. \A u \in Tasks : u # c => (Unqueued(u)' <=> Unqueued(u))
  BY <1>1 DEF Unqueued
<1>6. /\ State' = [State EXCEPT ![c] = "running"]
      /\ Place' = [Place EXCEPT ![t] = Place[t] + 1, ![c] = 1]
  BY <1>1, <1>5, StartsShown
<1> QED  BY <1>2, <1>4, <1>6 DEF Promise!Inline

LEMMA RunsItemShown ==
  ASSUME PoolInv, PoolInv', LastInv, NEW w \in Workers, RunsItem(w)
  PROVE  \E t \in Tasks : Promise!Inline(t, "sync", "forked")
<1> PICK t : t = Top(w).task
  OBVIOUS
<1> PICK c : c = Operand(w)
  OBVIOUS
<1>1. /\ NextIs(w, "sync") /\ StartsTask(w) /\ SettlesTop(w, "ready")
      /\ deque[w][Len(deque[w])].task = c /\ Running(w)
      /\ Len(deque[w]) \in 1 .. Len(deque[w])
  BY DEF RunsItem, NextIs, SettlesTop
<1>2. /\ t \in Tasks /\ Promise!AtOp(t, "sync") /\ Promise!Named(t) = c
      /\ c \in Tasks
  BY <1>1, TopAt
<1>3. State[c] = "forked"
  <2>1. c \in Pending
    BY <1>1, PendingTasks DEF Unqueued
  <2>2. begun[c] = 0
    BY <1>1 DEF StartsTask, Begins
  <2> QED  BY <1>2, <2>1, <2>2, ShownStages DEF Staged
<1>4. \A u \in Tasks : u # c => (Unqueued(u)' <=> Unqueued(u))
  BY <1>1, SettledAlone
<1>5. /\ State' = [State EXCEPT ![c] = "running"]
      /\ Place' = [Place EXCEPT ![t] = Place[t] + 1, ![c] = 1]
  BY <1>1, <1>4, StartsShown
<1> QED  BY <1>2, <1>3, <1>5 DEF Promise!Inline

LEMMA JoinsShown ==
  ASSUME PoolInv, PoolInv', LastInv, NEW w \in Workers, Joins(w)
  PROVE  \E t \in Tasks : Promise!Joined(t)
<1> PICK t : t = Top(w).task
  OBVIOUS
<1> PICK c : c = Operand(w)
  OBVIOUS
<1>1. /\ NextIs(w, "sync") /\ SettlesTop(w, "done")
      /\ deque[w][Len(deque[w])].task = c
      /\ deque[w][Len(deque[w])].status = "done"
      /\ Len(deque[w]) \in 1 .. Len(deque[w])
      /\ UNCHANGED <<begun, ended, lost>>
  BY DEF Joins, SettlesTop
<1>2. /\ t \in Tasks /\ Promise!AtOp(t, "sync") /\ Promise!Named(t) = c
      /\ c \in Tasks
  BY <1>1, TopAt
<1>3. c \in ended
  <2>1. Tracked(w, Len(deque[w]))
    BY <1>1 DEF PoolInv, ItemInv
  <2> QED  BY <1>1, <2>1 DEF Tracked
<1>4. State[c] = "ended"
  BY <1>2, <1>3, ShownStages DEF Staged
<1>5. \A u \in Tasks : State'[u] = State[u]
  <2> SUFFICES ASSUME NEW u \in Tasks  PROVE State'[u] = State[u]
    OBVIOUS
  <2>1. u = c \/ (Unqueued(u)' <=> Unqueued(u))
    BY <1>1, SettledAlone
  <2> QED  BY <1>1, <1>3, <2>1, StateKept
<1>6. State' = State
  BY <1>5 DEF State
<1>7. Place' = [Place EXCEPT ![t] = Place[t] + 1]
  BY GoesShown DEF Joins
<1> QED  BY <1>2, <1>4, <1>6, <1>7 DEF Promise!Joined

LEMMA RobsShown ==
  ASSUME PoolInv, PoolInv', NEW w \in Workers, Robs(w)
  PROVE  \E t \in Tasks : Promise!Take(t)
<1>1. PICK f : \E v \in Workers : \E i \in 1 .. Len(deque[v]) :
        /\ f.pc = 1 /\ f.task = deque[v][i].task /\ Steals(w, v, i, f.task)
        /\ UNCHANGED <<ended, lost>>
        /\ \/ Started(w, f)
           \/ \E g : Grown(w, g, f) /\ Continues(w, g) /\ g.pc = Top(w).pc
  BY DEF Robs
<1>2. PICK v \in Workers : \E i \in 1 .. Len(deque[v]) :
         /\ f.pc = 1 /\ f.task = deque[v][i].task /\ Steals(w, v, i, f.task)
         /\ UNCHANGED <<ended, lost>>
         /\ \/ Started(w, f)
            \/ \E g : Grown(w, g, f) /\ Continues(w, g) /\ g.pc = Top(w).pc
  BY <1>1
<1>3. PICK i \in 1 .. Len(deque[v]) :
        /\ f.pc = 1 /\ f.task = deque[v][i].task /\ Steals(w, v, i, f.task)
        /\ UNCHANGED <<ended, lost>>
        /\ \/ Started(w, f)
           \/ \E g : Grown(w, g, f) /\ Continues(w, g) /\ g.pc = Top(w).pc
  BY <1>2
<1> PICK c : c = f.task
  OBVIOUS
<1>4. /\ Begins(c) /\ c \in Tasks /\ begun[c] = 0
      /\ Takes(v, i, [task |-> c, status |-> "stolen", thief |-> w])
  BY <1>3 DEF Steals
<1>5. State[c] = "forked"
  <2>1. c \in Pending
    BY <1>3, PendingTasks DEF Unqueued
  <2> QED  BY <1>4, <2>1, ShownStages DEF Staged
<1>6. \A u \in Workers : /\ Len(deque'[u]) = Len(deque[u])
                         /\ \A j \in 1 .. Len(deque[u]) :
                              deque'[u][j].task = deque[u][j].task
  BY <1>3, <1>4 DEF Takes
<1>7. \A u \in Tasks : Unqueued(u)' <=> Unqueued(u)
  BY <1>6 DEF Unqueued
<1>8. State' = [State EXCEPT ![c] = "running"]
  BY <1>3, <1>4, <1>7, Begun
<1>9. Place'[c] = 1 /\ \A u \in Tasks : u # c => Place'[u] = Place[u]
  <2>1. CASE Started(w, f)
    BY <1>3, <2>1, PlacesStarted
  <2>2. ASSUME NEW g, Grown(w, g, f), Continues(w, g), g.pc = Top(w).pc
        PROVE  Place'[c] = 1 /\ \A u \in Tasks : u # c => Place'[u] = Place[u]
    BY <1>3, <2>2, PlacesGrown
  <2> QED  BY <1>3, <2>1, <2>2
<1>10. Place' = [Place EXCEPT ![c] = 1]
  <2>1. Place' = [u \in Tasks |-> Place'[u]]
    BY DEF Place
  <2> HIDE DEF Place
  <2>2. Place' = [Place EXCEPT ![c] = Place'[c]]
    BY <1>4, <1>9, <2>1, ShownAre, ChangedAt
  <2> QED  BY <1>9, <2>2
<1> QED  BY <1>4, <1>5, <1>8, <1>10 DEF Promise!Take

LEMMA RunsMainShown ==
  ASSUME PoolInv, PoolInv', OriginInv, NEW t \in Mains, RunsMain(t)
  PROVE  Promise!StartMain(t)
<1>1. PICK f : Started(Root, f) /\ f.task = t /\ f.pc = 1
  BY DEF RunsMain
<1>2. /\ Begins(t) /\ UNCHANGED <<deque, ended, lost>> /\ t \in Tasks
      /\ begun[t] = 0 /\ Root \in Workers /\ 1 .. Len(stack[Root]) = {}
  BY <1>1, WorkerAssumption DEF RunsMain, Begins, Started
<1>3. State[t] = "fresh"
  <2>1. t \notin Pending
    <3> SUFFICES ASSUME NEW w \in Workers, NEW i \in 1 .. Len(deque[w])
                 PROVE  deque[w][i].task # t
      BY DEF Pending, Queued
    <3>1. Tracked(w, i)
      BY DEF PoolInv, ItemInv
    <3> QED  BY <3>1 DEF Tracked
  <2> QED  BY <1>2, <2>1, ShownStages DEF Staged
<1>4. \A u \in Mains : State[u] # "running"
  <2> SUFFICES ASSUME NEW u \in Mains, State[u] = "running"  PROVE FALSE
    OBVIOUS
  <2>1. u \in Active
    BY ShownStages, ProgramAssumption DEF Staged
  <2>2. PICK w \in Workers : \E g \in Frames(w) : g.task = u
    BY <2>1 DEF Active
  <2>3. w # Root
    BY <1>2, <2>2 DEF Frames
  <2> QED  BY <2>2, <2>3 DEF OriginInv
<1>5. State' = [State EXCEPT ![t] = "running"]
  <2>1. \A u \in Tasks : Unqueued(u)' <=> Unqueued(u)
    BY <1>2 DEF Unqueued
  <2> QED  BY <1>2, <2>1, Begun
<1>6. Place' = [Place EXCEPT ![t] = 1]
  <2>1. Place'[t] = 1 /\ \A u \in Tasks : u # t => Place'[u] = Place[u]
    BY <1>1, <1>2, PlacesStarted
  <2>2. Place' = [u \in Tasks |-> Place'[u]]
    BY DEF Place
  <2> HIDE DEF Place
  <2>3. Place' = [Place EXCEPT ![t] = Place'[t]]
    BY <1>2, <2>1, <2>2, ShownAre, ChangedAt
  <2> QED  BY <2>1, <2>3
<1> QED  BY <1>3, <1>4, <1>5, <1>6 DEF Promise!StartMain

LEMMA EndsShown ==
  ASSUME PoolInv, PoolInv', LastInv, NEW w \in Workers, Ends(w)
  PROVE  \E t \in Tasks : Promise!End(t)
<1> PICK t : t = Top(w).task
  OBVIOUS
<1>1. /\ Popped(w) /\ Finishes(t, w) /\ Running(w)
      /\ Top(w).pc > Len(Program[t]) /\ UNCHANGED <<begun, lost>>
  BY DEF Ends, Popped
<1>2. t \in Tasks /\ Place[t] = Top(w).pc /\ Promise!Ready(t)
  BY <1>1, TopReady
<1>3. t \notin ended \cup lost /\ begun[t] = 1
  BY <1>1, OneFrame DEF PoolInv
<1>4. \A u \in Tasks : Unqueued(u)' <=> Unqueued(u)
  <2>1. \A v \in Workers : /\ Len(deque'[v]) = Len(deque[v])
                           /\ \A j \in 1 .. Len(deque[v]) :
                                deque'[v][j].task = deque[v][j].task
    BY <1>1 DEF Finishes
  <2> QED  BY <2>1 DEF Unqueued
<1>5. State' = [State EXCEPT ![t] = "ended"]
  <2>1. ended' = ended \cup {t}
    BY <1>1 DEF Finishes
  <2>2. State'[t] = "ended"
    BY <1>2, <2>1 DEF State
  <2>3. ASSUME NEW u \in Tasks, u # t  PROVE State'[u] = State[u]
    BY <1>1, <1>4, <2>1, <2>3, StateKept
  <2>4. State' = [u \in Tasks |-> State'[u]]
    BY DEF State
  <2> HIDE DEF State
  <2> QED  BY <1>2, <2>2, <2>3, <2>4, ShownAre, ChangedAt
<1>6. Place' = [Place EXCEPT ![t] = 0]
  <2>1. Place'[t] = 0 /\ \A u \in Tasks : u # t => Place'[u] = Place[u]
    BY <1>1, PlacesPopped
  <2>2. Place' = [u \in Tasks |-> Place'[u]]
    BY DEF Place
  <2> HIDE DEF Place
  <2>3. Place' = [Place EXCEPT ![t] = Place'[t]]
    BY <1>2, <2>1, <2>2, ShownAre, ChangedAt
  <2> QED  BY <2>1, <2>3
<1> QED  BY <1>1, <1>2, <1>5, <1>6 DEF Promise!End

LEMMA FailsShown ==
  ASSUME PoolInv, PoolInv', LastInv, NEW w \in Workers, Fails(w)
  PROVE  \E t \in Tasks : Promise!Fail(t)
<1> PICK t : t = Top(w).task
  OBVIOUS
<1> PICK S : S = {f.task : f \in Frames(w)}
  OBVIOUS
<1>1. /\ Running(w) /\ Unwound(w) /\ lost' = lost \cup S
      /\ UNCHANGED <<deque, begun, ended>>
      /\ t \in Panicking \/ NextIs(w, "spawn")
  BY DEF Fails, Unwound
<1>2. t \in Tasks /\ Promise!Ready(t)
  BY <1>1, TopReady
<1>3. t \in Panicking \/ Promise!AtOp(t, "spawn")
  BY <1>1, TopAt
<1>4. t \in S
  BY <1>1, TopFrame DEF PoolInv, Frames
<1>5. \A u \in S : u \in Tasks /\ u \in Active
  <2> SUFFICES ASSUME NEW i \in 1 .. Len(stack[w])
               PROVE  stack[w][i].task \in Tasks /\ stack[w][i].task \in Active
    BY DEF Frames
  <2> QED  BY Elements, ActiveTasks DEF PoolInv
<1>6. S \in SUBSET {u \in Tasks : State[u] = "running"}
  BY <1>5, ShownStages DEF Staged
<1>7. \A u \in Tasks : State'[u] = IF u \in S THEN "lost" ELSE State[u]
  <2> SUFFICES ASSUME NEW u \in Tasks
               PROVE  State'[u] = IF u \in S THEN "lost" ELSE State[u]
    OBVIOUS
  <2>1. CASE u \in S
    <3>1. u \notin ended
      <4>1. PICK i \in 1 .. Len(stack[w]) : stack[w][i].task = u
        BY <2>1 DEF Frames
      <4>2. Homed(w, i)
        BY DEF PoolInv, FrameInv
      <4> QED  BY <4>1, <4>2 DEF Homed
    <3>2. u \notin ended' /\ u \in lost'
      BY <1>1, <2>1, <3>1
    <3> QED  BY <2>1, <3>2 DEF State
  <2>2. CASE u \notin S
    <3>1. Unqueued(u)' <=> Unqueued(u)
      BY <1>1 DEF Unqueued
    <3>2. State'[u] = State[u]
      BY <1>1, <2>2, <3>1, StateKept
    <3> QED  BY <2>2, <3>2
  <2> QED  BY <2>1, <2>2
<1>8. State' = [u \in Tasks |-> IF u \in S THEN "lost" ELSE State[u]]
  <2>1. State' = [u \in Tasks |-> State'[u]]
    BY DEF State
  <2> HIDE DEF State
  <2> QED  BY <1>7, <2>1
<1>9. Place' = [u \in Tasks |-> IF u \in S THEN 0 ELSE Place[u]]
  <2>1. /\ \A u \in Tasks : u \in S => Place'[u] = 0
        /\ \A u \in Tasks : u \notin S => Place'[u] = Place[u]
    BY <1>1, PlacesUnwound
  <2>2. Place' = [u \in Tasks |-> Place'[u]]
    BY DEF Place
  <2> HIDE DEF Place
  <2> QED  BY <2>1, <2>2
<1> QED  BY <1>2, <1>3, <1>4, <1>6, <1>8, <1>9 DEF Promise!Fail

LEMMA ForkJoinSteps ==
  ASSUME WholeInv, [Next]_vars
  PROVE  Promise!FJNext \/ UNCHANGED Promise!fjVars
<1>1. /\ PoolInv /\ PoolInv' /\ LastInv /\ OriginInv /\ TasksMove
  BY NextInv, TaskSteps DEF WholeInv
<1>2. CASE UNCHANGED <<deque, stack, begun, ended, lost>>
  <2>1. State' = State
    BY <1>2 DEF State, Pending, Queued
  <2>2. Place' = Place
    BY <1>2 DEF Place, FrameFor, Active, Frames
  <2> QED  BY <2>1, <2>2 DEF Promise!fjVars
<1>3. ASSUME NEW t \in Mains, RunsMain(t)  PROVE Promise!FJNext
  BY <1>1, <1>3, RunsMainShown DEF Promise!FJNext
<1>4. ASSUME NEW w \in Workers, Waits(w)  PROVE UNCHANGED Promise!fjVars
  BY <1>1, <1>4, WaitsShown
<1>5. ASSUME NEW w \in Workers,
             \/ Forks(w) \/ Calls(w) \/ RunsItem(w) \/ Joins(w)
             \/ Robs(w) \/ Ends(w) \/ Fails(w)
      PROVE  Promise!FJNext
  BY <1>1, <1>5, ForksShown, CallsShown, RunsItemShown, JoinsShown, RobsShown,
     EndsShown, FailsShown
  DEF Promise!FJNext
<1> QED  BY <1>1, <1>2, <1>3, <1>4, <1>5 DEF TasksMove

(* Leapfrogging, stealing, nesting and panics included, the pool does what *)
(* the fork-join program says, and nothing else.                           *)
THEOREM PoolImplementsForkJoin == Spec => ImplementsForkJoin
<1>1. Init => Promise!FJInit
  <2> SUFFICES ASSUME Init  PROVE Promise!FJInit
    OBVIOUS
  <2>1. \A w \in Workers : /\ 1 .. Len(stack[w]) = {}
                           /\ 1 .. Len(deque[w]) = {}
    BY DEF Init
  <2>2. Active = {} /\ Pending = {}
    BY <2>1 DEF Active, Frames, Pending, Queued
  <2>3. \A t \in Tasks : begun[t] = 0 /\ t \notin ended /\ t \notin lost
    BY DEF Init
  <2>4. State = [t \in Tasks |-> "fresh"]
    BY <2>2, <2>3 DEF State
  <2>5. Place = [t \in Tasks |-> 0]
    BY <2>2 DEF Place
  <2> QED  BY <2>4, <2>5 DEF Promise!FJInit
<1>2. WholeInv /\ [Next]_vars => [Promise!FJNext]_(Promise!fjVars)
  BY ForkJoinSteps
<1> QED
  BY <1>1, <1>2, WholeInvariance, PTL DEF Spec, ImplementsForkJoin, Promise!FJSpec
=============================================================================
