------------------------------ MODULE Affinity ------------------------------
(***************************************************************************)
(* How Lace::init chooses the processing unit (PU) each worker is bound to *)
(* (src/lace/src/lib.rs), under one of the features numa_awareness,        *)
(* thread_spread and thread_nospread.  One step chooses for one worker.    *)
(*                                                                         *)
(* A machine is a sequence of sockets, a socket one of cores, a core its   *)
(* number of PUs; places are counted from 1.  hwloc also lists all of the  *)
(* cores and all of the PUs, in an order of its own.                       *)
(***************************************************************************)
EXTENDS Integers, FiniteSets, Sequences, Functions

CONSTANTS Machines,      \* the machines to choose on
          CoreList,      \* CoreList[m]: the cores of m, <<socket, core>>
          PuList,        \* PuList[m]: its PUs
          MaxWorkers     \* bound on the number of workers

Pu(s, c, k) == [socket |-> s, core |-> c, pu |-> k]

(* The asserts that cores and PUs are found at the expected depth, and an  *)
(* answer of hwloc without sockets, end init before a PU is chosen.        *)
CoresOf(m) == UNION {{<<s, c>> : c \in DOMAIN m[s]} : s \in DOMAIN m}
PusOf(m)   == UNION {{Pu(x[1], x[2], k) : k \in 1 .. m[x[1]][x[2]]} : x \in CoresOf(m)}

(* q lists the elements of S, each once.                                   *)
Lists(q, S) == q \in Seq(S) /\ Range(q) = S /\ IsInjective(q)

ASSUME MachinesAssumption ==
  \A m \in Machines :
    /\ m \in Seq(Seq(Nat \ {0})) /\ m # <<>> /\ \A s \in DOMAIN m : m[s] # <<>>
    /\ Lists(CoreList[m], CoresOf(m)) /\ Lists(PuList[m], PusOf(m))

VARIABLES machine,
          feature,       \* the feature, "pus" if hwloc knows of no cores
          n,             \* the number of workers
          allocated,     \* allocated_pu
          turn,          \* the core (socket) whose turn it is
          next           \* the next PU of each core (core of each socket)

vars == <<machine, feature, n, allocated, turn, next>>

Cores == CoreList[machine]
PUs   == PuList[machine]

Cycle(i, len) == (i % len) + 1       \* the place after i, or the first

Init ==
  /\ machine \in Machines
  /\ n \in 1 .. MaxWorkers
  /\ allocated = <<>>
  /\ turn = 1
  /\ \/ feature = "numa"   /\ next = [i \in DOMAIN Cores |-> 1]
     \/ feature = "spread" /\ next = [s \in DOMAIN machine |-> 1]
     \/ feature \in {"pus", "nospread"} /\ next = <<>>

Choosing(f)   == feature = f /\ Len(allocated) < n
Allocate(pu)  == /\ allocated' = Append(allocated, pu)
                 /\ UNCHANGED <<machine, feature, n>>

(* Mutant of NumaStep: the next PU of the core is never moved on.          *)
NumaStepSamePu ==
  /\ Choosing("numa")
  /\ LET i    == Len(Cores) - turn + 1
         core == Cores[i]
     IN  /\ Allocate(Pu(core[1], core[2], next[i]))
         /\ turn' = Cycle(turn, Len(Cores))
         /\ UNCHANGED next

(* numa_awareness: the cores in turn, the last one first; on each of them  *)
(* the PUs in turn.                                                        *)
NumaStep ==
  /\ Choosing("numa")
  /\ LET i    == Len(Cores) - turn + 1
         core == Cores[i]
     IN  /\ Allocate(Pu(core[1], core[2], next[i]))
         /\ turn' = Cycle(turn, Len(Cores))
         /\ next' = [next EXCEPT ![i] = Cycle(@, machine[core[1]][core[2]])]

(* numa_awareness without cores: PU id % number of PUs.                    *)
PusStep ==
  /\ Choosing("pus")
  /\ Allocate(PUs[(Len(allocated) % Len(PUs)) + 1])
  /\ UNCHANGED <<turn, next>>

(* thread_spread: the sockets in turn; on each of them the first PU of the *)
(* cores in turn.                                                          *)
SpreadStep ==
  /\ Choosing("spread")
  /\ Allocate(Pu(turn, next[turn], 1))
  /\ next' = [next EXCEPT ![turn] = Cycle(@, Len(machine[turn]))]
  /\ turn' = Cycle(turn, Len(machine))

(* thread_nospread: two workers per core of the first socket; this is the  *)
(* PU of the worker that comes after k others.                             *)
Neighbour(k) == Pu(1, ((k \div 2) % Len(machine[1])) + 1, (k % 2) + 1)

Beside == Neighbour(Len(allocated))

NospreadStep ==
  /\ Choosing("nospread")
  /\ Beside.pu <= machine[1][Beside.core]
  /\ Allocate(Beside)
  /\ UNCHANGED <<turn, next>>

(* On a core with one PU the second index is out of bounds: a panic.       *)
NospreadPanic ==
  /\ Choosing("nospread")
  /\ Beside.pu > machine[1][Beside.core]
  /\ UNCHANGED vars

Bound == Len(allocated) = n /\ UNCHANGED vars

Next == \/ NumaStep \/ PusStep \/ SpreadStep \/ NospreadStep \/ NospreadPanic
        \/ Bound

Spec == Init /\ [][Next]_vars

------------------------------------------------------------------------------
(* Properties                                                              *)

Load(places) ==
  Cardinality({i \in DOMAIN allocated : allocated[i] \in places})

(* The parts of the machine carry the same number of workers, give or take *)
(* one.                                                                    *)
Even(parts) == \A x, y \in parts : Load(x) - Load(y) \in {-1, 0, 1}

Units       == Range(PUs)
OnSocket(s) == {u \in Units : u.socket = s}
OnCore(x)   == {u \in OnSocket(x[1]) : u.core = x[2]}
CoreParts   == {OnCore(x) : x \in Range(Cores)}

(* What each feature is for.  numa_awareness minimises the number of       *)
(* workers that share a core, and of those that share a PU, and leaves     *)
(* core 0, the first of the list, alone as long as it can.  thread_spread  *)
(* balances the sockets, and the cores of each; thread_nospread fills core *)
(* after core.                                                             *)
LoadEven ==
  /\ feature = "numa" =>
       /\ Even(CoreParts)
       /\ \A part \in CoreParts : Even({{u} : u \in part})
       /\ Len(allocated) < Len(Cores) => Load(OnCore(Cores[1])) = 0
  /\ feature = "pus" => Even({{u} : u \in Units})
  /\ feature = "spread" =>
       /\ Even({OnSocket(s) : s \in DOMAIN machine})
       /\ \A s \in DOMAIN machine :
            Even({OnCore(<<s, c>>) : c \in DOMAIN machine[s]})
  /\ feature = "nospread" =>
       /\ Load(OnSocket(1)) = Len(allocated)
       /\ \A i \in 1 .. Len(allocated) - 1 :
            i % 2 = 1 => allocated[i].core = allocated[i + 1].core
       /\ Even({{u} : u \in {v \in OnSocket(1) : v.pu <= 2}})

------------------------------------------------------------------------------
(* The inductive invariant                                                 *)

(* The parts q[1], q[2], ... are served in turn, and q[k] is the next one. *)
InTurn(q, k) ==
  /\ k \in DOMAIN q
  /\ \E r \in 0 .. Len(allocated) : \A j \in DOMAIN q :
       Load(q[j]) = IF j < k THEN r + 1 ELSE r

CoresReversed == [j \in DOMAIN Cores |-> OnCore(Cores[Len(Cores) - j + 1])]
PusOnCore(x)  == [k \in 1 .. machine[x[1]][x[2]] |-> {Pu(x[1], x[2], k)}]

NumaInv ==
  /\ next \in [DOMAIN Cores -> Nat]
  /\ InTurn(CoresReversed, turn)
  /\ \A i \in DOMAIN Cores : InTurn(PusOnCore(Cores[i]), next[i])
  /\ Len(allocated) < Len(Cores) =>
       turn = Len(allocated) + 1 /\ Load(OnCore(Cores[1])) = 0

PusInv ==
  InTurn([j \in DOMAIN PUs |-> {PUs[j]}], (Len(allocated) % Len(PUs)) + 1)

SpreadInv ==
  /\ next \in [DOMAIN machine -> Nat]
  /\ InTurn([s \in DOMAIN machine |-> OnSocket(s)], turn)
  /\ \A s \in DOMAIN machine :
       InTurn([c \in DOMAIN machine[s] |-> OnCore(<<s, c>>)], next[s])

NospreadInv ==
  /\ \A i \in DOMAIN allocated : allocated[i] = Neighbour(i - 1)
  /\ \A i \in DOMAIN allocated : allocated[i] \in Units
  /\ InTurn([j \in 1 .. 2 * Len(machine[1]) |-> {Neighbour(j - 1)}],
            2 * (Beside.core - 1) + Beside.pu)

AffinityInv ==
  /\ machine \in Machines
  /\ allocated \in Seq([socket : Nat, core : Nat, pu : Nat])
  /\ feature = "numa"     => NumaInv
  /\ feature = "pus"      => PusInv
  /\ feature = "spread"   => SpreadInv
  /\ feature = "nospread" => NospreadInv
=============================================================================
