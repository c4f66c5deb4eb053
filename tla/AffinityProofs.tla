--------------------------- MODULE AffinityProofs ---------------------------
(***************************************************************************)
(* Proofs about Affinity, for any machines, any order in which hwloc lists *)
(* their cores and PUs, and any number of workers: AffinityInv, which says *)
(* that the parts of the machine are served in turn, is inductive, and     *)
(* each feature spreads the workers as evenly as it is meant to.           *)
(***************************************************************************)
EXTENDS Affinity, FiniteSetTheorems, TLAPS

------------------------------------------------------------------------------
(* Going around in a circle                                                *)

LEMMA ModOf ==
  ASSUME NEW k \in Nat, NEW d \in Nat \ {0},
         NEW q \in Nat, NEW r \in 0 .. d - 1, k = d * q + r
  PROVE  k % d = r
  OBVIOUS

LEMMA DivMod ==
  ASSUME NEW k \in Nat, NEW d \in Nat \ {0}
  PROVE  k % d \in 0 .. d - 1 /\ k \div d \in Nat /\ k = d * (k \div d) + (k % d)
  OBVIOUS

LEMMA NextMod ==
  ASSUME NEW k \in Nat, NEW d \in Nat \ {0}
  PROVE  (k + 1) % d = IF k % d = d - 1 THEN 0 ELSE (k % d) + 1
<1> PICK r \in 0 .. d - 1 : r = k % d
  BY DivMod
<1> PICK q \in Nat : k = d * q + r
  BY DivMod
<1>1. ASSUME NEW l \in Nat, l = k + 1, r # d - 1  PROVE l % d = r + 1
  <2>1. r + 1 \in 0 .. d - 1
    BY <1>1
  <2>2. l = d * q + (r + 1)
    BY <1>1
  <2> QED  BY <2>1, <2>2, <1>1, ModOf
<1>2. ASSUME NEW l \in Nat, l = k + 1, r = d - 1  PROVE l % d = 0
  <2>1. l = d * q + d
    BY <1>2
  <2>2. l = d * (q + 1) + 0 /\ q + 1 \in Nat /\ 0 \in 0 .. d - 1
    BY <2>1
  <2> QED  BY <2>2, ModOf
<1>3. k + 1 \in Nat
  OBVIOUS
<1> QED  BY <1>1, <1>2, <1>3

LEMMA SmallMod ==
  ASSUME NEW d \in Nat \ {0}, NEW k \in 0 .. d - 1
  PROVE  k % d = k
<1>1. k = d * 0 + k
  OBVIOUS
<1> QED  BY <1>1, ModOf

LEMMA CycleIs ==
  ASSUME NEW d \in Nat \ {0}, NEW i \in 1 .. d
  PROVE  Cycle(i, d) = IF i = d THEN 1 ELSE i + 1
<1> PICK k \in Nat : i = k + 1 /\ k \in 0 .. d - 1
  OBVIOUS
<1>1. k % d = k
  BY SmallMod
<1>2. (k + 1) % d = IF k % d = d - 1 THEN 0 ELSE (k % d) + 1
  BY NextMod
<1> QED  BY <1>1, <1>2 DEF Cycle

(* Two workers to a core, core by core.                                    *)
LEMMA NextPair ==
  ASSUME NEW k \in Nat, NEW d \in Nat \ {0}
  PROVE  /\ (k \div 2) % d \in 0 .. d - 1 /\ ((k + 1) \div 2) % d \in 0 .. d - 1
         /\ k % 2 \in {0, 1} /\ (k + 1) % 2 \in {0, 1}
         /\ 2 * (((k + 1) \div 2) % d) + ((k + 1) % 2) =
              IF 2 * ((k \div 2) % d) + (k % 2) = 2 * d - 1 THEN 0
              ELSE 2 * ((k \div 2) % d) + (k % 2) + 1
<1> PICK c : c = (k \div 2) % d
  OBVIOUS
<1> PICK e : e = ((k + 1) \div 2) % d
  OBVIOUS
<1> PICK h \in Nat : h = k \div 2
  BY DivMod
<1>1. c = h % d /\ c \in 0 .. d - 1
  BY DivMod
<1>2. CASE k % 2 = 0
  <2>1. (k + 1) \div 2 = h /\ (k + 1) % 2 = 1
    BY <1>2
  <2>2. e = c
    BY <1>1, <2>1
  <2> QED  BY <1>1, <1>2, <2>1, <2>2
<1>3. CASE k % 2 = 1
  <2>1. (k + 1) \div 2 = h + 1 /\ (k + 1) % 2 = 0
    BY <1>3
  <2>2. (h + 1) % d = IF h % d = d - 1 THEN 0 ELSE (h % d) + 1
    BY NextMod
  <2>3. e = IF c = d - 1 THEN 0 ELSE c + 1
    BY <1>1, <2>1, <2>2
  <2> QED  BY <1>1, <1>3, <2>1, <2>3
<1>4. k % 2 \in {0, 1}
  OBVIOUS
<1> QED  BY <1>2, <1>3, <1>4

LEMMA FirstPair ==
  ASSUME NEW d \in Nat \ {0}
  PROVE  ((0 \div 2) % d) + 1 = 1 /\ (0 % 2) + 1 = 1
<1> PICK h \in 0 .. d - 1 : h = 0
  OBVIOUS
<1>1. 0 \div 2 = h /\ h % d = h
  BY SmallMod
<1> QED  BY <1>1

LEMMA PairNumber ==
  ASSUME NEW c \in Nat, NEW x \in Nat \ {0},
         NEW p \in 0 .. 1, NEW y \in 1 .. 2
  PROVE  2 * (x - 1) + y = 2 * c + p + 1 <=> x = c + 1 /\ y = p + 1
<1>1. y = 1 \/ y = 2
  OBVIOUS
<1>2. p = 0 \/ p = 1
  OBVIOUS
<1> QED  BY <1>1, <1>2

------------------------------------------------------------------------------
(* Loads                                                                   *)

PlaceType == [socket : Nat, core : Nat, pu : Nat]

LEMMA SizeOfInterval ==
  ASSUME NEW m \in Nat
  PROVE  Cardinality(1 .. m) = m
<1>1. Cardinality(1 .. m) = IF 1 > m THEN 0 ELSE m - 1 + 1
  BY FS_Interval
<1> QED  BY <1>1

LEMMA LoadType ==
  ASSUME allocated \in Seq(PlaceType), NEW S
  PROVE  /\ IsFiniteSet({i \in DOMAIN allocated : allocated[i] \in S})
         /\ Load(S) \in 0 .. Len(allocated)
<1> DEFINE In == {i \in DOMAIN allocated : allocated[i] \in S}
<1>1. DOMAIN allocated = 1 .. Len(allocated) /\ Len(allocated) \in Nat
  OBVIOUS
<1>2. /\ IsFiniteSet(1 .. Len(allocated))
      /\ Cardinality(1 .. Len(allocated)) = Len(allocated)
  BY <1>1, FS_Interval
<1>3. In \in SUBSET (1 .. Len(allocated))
  BY <1>1
<1>4. IsFiniteSet(In) /\ Cardinality(In) <= Len(allocated)
  BY <1>2, <1>3, FS_Subset
<1>5. Cardinality(In) \in Nat
  BY <1>4, FS_CardinalityType
<1> QED  BY <1>1, <1>4, <1>5 DEF Load

LEMMA LoadGrows ==
  ASSUME allocated \in Seq(PlaceType), NEW pu \in PlaceType,
         allocated' = Append(allocated, pu), NEW S
  PROVE  Load(S)' = IF pu \in S THEN Load(S) + 1 ELSE Load(S)
<1> DEFINE In  == {i \in DOMAIN allocated : allocated[i] \in S}
           New == {i \in DOMAIN allocated' : allocated'[i] \in S}
<1> PICK m \in Nat : m = Len(allocated)
  OBVIOUS
<1>1. DOMAIN allocated = 1 .. m
  OBVIOUS
<1>2. /\ DOMAIN allocated' = 1 .. m + 1
      /\ allocated'[m + 1] = pu
      /\ \A i \in 1 .. m : allocated'[i] = allocated[i]
  OBVIOUS
<1>3. IsFiniteSet(In)
  BY LoadType
<1>4. New = IF pu \in S THEN In \cup {m + 1} ELSE In
  BY <1>1, <1>2
<1>5. Cardinality(In \cup {m + 1}) = Cardinality(In) + 1
  <2>1. m + 1 \notin In
    BY <1>1
  <2> QED  BY <1>3, <2>1, FS_AddElement
<1>6. Load(S) = Cardinality(In) /\ Load(S)' = Cardinality(New)
  BY DEF Load
<1> QED  BY <1>4, <1>5, <1>6

LEMMA LoadAtFirst ==
  ASSUME allocated = <<>>, NEW S
  PROVE  Load(S) = 0
<1>1. {i \in DOMAIN allocated : allocated[i] \in S} = {}
  OBVIOUS
<1> QED  BY <1>1, FS_EmptySet DEF Load

(* The part that is next gets the worker.                                  *)
LEMMA ServesNext ==
  ASSUME allocated \in Seq(PlaceType), NEW pu \in PlaceType,
         allocated' = Append(allocated, pu),
         NEW q, NEW d \in Nat \ {0}, DOMAIN q = 1 .. d,
         NEW k, InTurn(q, k), \A j \in 1 .. d : pu \in q[j] <=> j = k
  PROVE  InTurn(q, Cycle(k, d))'
<1>1. k \in 1 .. d
  BY DEF InTurn
<1> PICK l : l = Cycle(k, d)
  OBVIOUS
<1>2. l = IF k = d THEN 1 ELSE k + 1
  BY <1>1, CycleIs
<1>3. PICK r \in 0 .. Len(allocated) :
        \A j \in 1 .. d : Load(q[j]) = IF j < k THEN r + 1 ELSE r
  BY DEF InTurn
<1>4. \A j \in 1 .. d : Load(q[j])' = IF j = k THEN Load(q[j]) + 1 ELSE Load(q[j])
  BY LoadGrows
<1>5. r \in Nat /\ r \in 0 .. Len(allocated') /\ r + 1 \in 0 .. Len(allocated')
  <2>1. Len(allocated') = Len(allocated) + 1 /\ Len(allocated) \in Nat
    OBVIOUS
  <2> QED  BY <2>1
<1>6. CASE k = d
  <2>1. \A j \in 1 .. d : Load(q[j])' = IF j < l THEN (r + 1) + 1 ELSE r + 1
    BY <1>2, <1>1, <1>3, <1>4, <1>6
  <2>2. l \in 1 .. d
    BY <1>2, <1>6
  <2> QED  BY <1>5, <2>1, <2>2 DEF InTurn
<1>7. CASE k # d
  <2>1. \A j \in 1 .. d : Load(q[j])' = IF j < l THEN r + 1 ELSE r
    BY <1>2, <1>1, <1>3, <1>4, <1>7
  <2>2. l \in 1 .. d
    BY <1>2, <1>1, <1>7
  <2> QED  BY <1>5, <2>1, <2>2 DEF InTurn
<1> QED  BY <1>6, <1>7

(* The others do not.                                                      *)
LEMMA ServesElsewhere ==
  ASSUME allocated \in Seq(PlaceType), NEW pu \in PlaceType,
         allocated' = Append(allocated, pu),
         NEW q, NEW k, InTurn(q, k), \A j \in DOMAIN q : pu \notin q[j]
  PROVE  InTurn(q, k)'
<1>1. PICK r \in 0 .. Len(allocated) :
        \A j \in DOMAIN q : Load(q[j]) = IF j < k THEN r + 1 ELSE r
  BY DEF InTurn
<1>2. \A j \in DOMAIN q : Load(q[j])' = Load(q[j])
  BY LoadGrows
<1>3. r \in 0 .. Len(allocated')
  <2>1. Len(allocated') = Len(allocated) + 1 /\ Len(allocated) \in Nat
    OBVIOUS
  <2> QED  BY <2>1
<1>4. k \in DOMAIN q
  BY DEF InTurn
<1> QED  BY <1>1, <1>2, <1>3, <1>4 DEF InTurn

LEMMA InTurnAtFirst ==
  ASSUME allocated = <<>>, NEW q, NEW d \in Nat \ {0}, DOMAIN q = 1 .. d
  PROVE  InTurn(q, 1)
<1>1. \A j \in 1 .. d : Load(q[j]) = IF j < 1 THEN 0 + 1 ELSE 0
  BY LoadAtFirst
<1>2. Len(allocated) = 0
  OBVIOUS
<1> QED  BY <1>1, <1>2 DEF InTurn

(* Parts that are served in turn carry the same load, but for one.         *)
LEMMA TurnsAreEven ==
  ASSUME NEW q, NEW k, InTurn(q, k), allocated \in Seq(PlaceType),
         NEW parts, \A x \in parts : \E j \in DOMAIN q : x = q[j]
  PROVE  Even(parts)
<1>1. PICK r \in 0 .. Len(allocated) :
        \A j \in DOMAIN q : Load(q[j]) = IF j < k THEN r + 1 ELSE r
  BY DEF InTurn
<1>2. \A x \in parts : Load(x) \in {r, r + 1}
  BY <1>1
<1>3. r \in Nat
  OBVIOUS
<1> QED  BY <1>2, <1>3 DEF Even

------------------------------------------------------------------------------
(* The machine                                                             *)

LEMMA MachineType ==
  ASSUME NEW m \in Machines
  PROVE  /\ Len(m) \in Nat \ {0} /\ DOMAIN m = 1 .. Len(m)
         /\ \A s \in DOMAIN m :
              /\ Len(m[s]) \in Nat \ {0} /\ DOMAIN m[s] = 1 .. Len(m[s])
              /\ \A c \in DOMAIN m[s] : m[s][c] \in Nat \ {0}
<1>1. m \in Seq(Seq(Nat \ {0})) /\ m # <<>> /\ \A s \in DOMAIN m : m[s] # <<>>
  BY MachinesAssumption
<1>2. Len(m) \in Nat \ {0} /\ DOMAIN m = 1 .. Len(m)
  BY <1>1
<1>3. ASSUME NEW s \in DOMAIN m
      PROVE  /\ Len(m[s]) \in Nat \ {0} /\ DOMAIN m[s] = 1 .. Len(m[s])
             /\ \A c \in DOMAIN m[s] : m[s][c] \in Nat \ {0}
  <2>1. m[s] \in Seq(Nat \ {0}) /\ m[s] # <<>>
    BY <1>1
  <2> QED  BY <2>1
<1> QED  BY <1>2, <1>3

LEMMA CoresType ==
  ASSUME machine \in Machines
  PROVE  /\ Len(Cores) \in Nat \ {0} /\ DOMAIN Cores = 1 .. Len(Cores)
         /\ Range(Cores) = CoresOf(machine)
         /\ \A i \in DOMAIN Cores :
              /\ Cores[i] = <<Cores[i][1], Cores[i][2]>>
              /\ Cores[i][1] \in DOMAIN machine
              /\ Cores[i][2] \in DOMAIN machine[Cores[i][1]]
              /\ machine[Cores[i][1]][Cores[i][2]] \in Nat \ {0}
         /\ \A i, j \in DOMAIN Cores :
              Cores[i][1] = Cores[j][1] /\ Cores[i][2] = Cores[j][2] => i = j
<1>1. Lists(Cores, CoresOf(machine))
  BY MachinesAssumption DEF Cores
<1>2. Cores \in Seq(CoresOf(machine)) /\ Range(Cores) = CoresOf(machine)
  BY <1>1 DEF Lists
<1>3. Len(Cores) \in Nat /\ DOMAIN Cores = 1 .. Len(Cores)
  BY <1>2
<1>4. \A x \in CoresOf(machine) :
        /\ x = <<x[1], x[2]>>
        /\ x[1] \in DOMAIN machine /\ x[2] \in DOMAIN machine[x[1]]
  BY DEF CoresOf
<1>5. \A i \in DOMAIN Cores : Cores[i] \in CoresOf(machine)
  BY <1>2 DEF Range
<1>6. Len(Cores) # 0
  <2>1. 1 \in DOMAIN machine /\ 1 \in DOMAIN machine[1]
    <3>1. 1 \in DOMAIN machine
      BY MachineType
    <3> QED  BY <3>1, MachineType
  <2>2. <<1, 1>> \in CoresOf(machine)
    BY <2>1 DEF CoresOf
  <2> QED  BY <1>2, <1>3, <2>2 DEF Range
<1>7. \A i, j \in DOMAIN Cores : Cores[i] = Cores[j] => i = j
  BY <1>1 DEF Lists, IsInjective
<1>8. \A i, j \in DOMAIN Cores :
        Cores[i][1] = Cores[j][1] /\ Cores[i][2] = Cores[j][2] => i = j
  <2> SUFFICES ASSUME NEW i \in DOMAIN Cores, NEW j \in DOMAIN Cores,
                      Cores[i][1] = Cores[j][1], Cores[i][2] = Cores[j][2]
               PROVE  i = j
    OBVIOUS
  <2>1. /\ Cores[i] = <<Cores[i][1], Cores[i][2]>>
        /\ Cores[j] = <<Cores[j][1], Cores[j][2]>>
    BY <1>4, <1>5
  <2>2. Cores[i] = Cores[j]
    BY <2>1
  <2> QED  BY <1>7, <2>2
<1>9. \A i \in DOMAIN Cores : machine[Cores[i][1]][Cores[i][2]] \in Nat \ {0}
  BY <1>4, <1>5, MachineType
<1> QED  BY <1>2, <1>3, <1>4, <1>5, <1>6, <1>8, <1>9

LEMMA UnitsType ==
  ASSUME machine \in Machines
  PROVE  /\ \A s \in DOMAIN machine : \A c \in DOMAIN machine[s] :
              \A k \in 1 .. machine[s][c] : Pu(s, c, k) \in Units
         /\ \A u \in Units :
              /\ u \in PlaceType /\ u = Pu(u.socket, u.core, u.pu)
              /\ u.socket \in DOMAIN machine
              /\ u.core \in DOMAIN machine[u.socket]
              /\ u.pu \in 1 .. machine[u.socket][u.core]
<1>1. Units = PusOf(machine)
  BY MachinesAssumption DEF Units, PUs, Lists
<1>2. \A s \in DOMAIN machine : \A c \in DOMAIN machine[s] :
        <<s, c>> \in CoresOf(machine) /\ <<s, c>>[1] = s /\ <<s, c>>[2] = c
  BY DEF CoresOf
<1>3. ASSUME NEW s \in DOMAIN machine, NEW c \in DOMAIN machine[s],
             NEW k \in 1 .. machine[s][c]
      PROVE  Pu(s, c, k) \in Units
  <2> PICK x \in CoresOf(machine) : x[1] = s /\ x[2] = c
    BY <1>2
  <2> DEFINE Here == {Pu(x[1], x[2], l) : l \in 1 .. machine[x[1]][x[2]]}
  <2>1. Pu(s, c, k) \in Here
    OBVIOUS
  <2>2. Here \subseteq PusOf(machine)
    BY DEF PusOf
  <2> QED  BY <1>1, <2>1, <2>2
<1>4. ASSUME NEW u \in Units
      PROVE  /\ u \in PlaceType /\ u = Pu(u.socket, u.core, u.pu)
             /\ u.socket \in DOMAIN machine
             /\ u.core \in DOMAIN machine[u.socket]
             /\ u.pu \in 1 .. machine[u.socket][u.core]
  <2>1. PICK x \in CoresOf(machine) :
          \E k \in 1 .. machine[x[1]][x[2]] : u = Pu(x[1], x[2], k)
    BY <1>1 DEF PusOf
  <2>2. x[1] \in DOMAIN machine /\ x[2] \in DOMAIN machine[x[1]]
    BY DEF CoresOf
  <2>3. PICK k \in 1 .. machine[x[1]][x[2]] : u = Pu(x[1], x[2], k)
    BY <2>1
  <2>4. machine[x[1]][x[2]] \in Nat /\ x[1] \in Nat /\ x[2] \in Nat
    BY <2>2, MachineType
  <2>5. u.socket = x[1] /\ u.core = x[2] /\ u.pu = k
    BY <2>3 DEF Pu
  <2> QED  BY <2>2, <2>3, <2>4, <2>5 DEF Pu, PlaceType
<1> QED  BY <1>3, <1>4

(* Which PUs are on a socket and on a core.                                *)
LEMMA OnPart ==
  ASSUME NEW u \in Units
  PROVE  /\ \A s : u \in OnSocket(s) <=> u.socket = s
         /\ \A x : u \in OnCore(x) <=> u.socket = x[1] /\ u.core = x[2]
BY DEF OnSocket, OnCore

------------------------------------------------------------------------------
(* numa_awareness                                                          *)

LEMMA NumaStart ==
  ASSUME Init, feature = "numa"
  PROVE  NumaInv
<1>1. allocated = <<>> /\ turn = 1 /\ machine \in Machines /\ Len(allocated) = 0
  BY DEF Init
<1>2. next = [i \in DOMAIN Cores |-> 1]
  BY DEF Init
<1>3. Len(Cores) \in Nat \ {0} /\ DOMAIN CoresReversed = 1 .. Len(Cores)
  BY <1>1, CoresType DEF CoresReversed
<1>4. InTurn(CoresReversed, turn)
  BY <1>1, <1>3, InTurnAtFirst
<1>5. ASSUME NEW i \in DOMAIN Cores  PROVE InTurn(PusOnCore(Cores[i]), next[i])
  <2>1. next[i] = 1 /\ machine[Cores[i][1]][Cores[i][2]] \in Nat \ {0}
    BY <1>1, <1>2, <1>5, CoresType
  <2>2. DOMAIN PusOnCore(Cores[i]) = 1 .. machine[Cores[i][1]][Cores[i][2]]
    BY DEF PusOnCore
  <2> QED  BY <1>1, <2>1, <2>2, InTurnAtFirst
<1>6. Load(OnCore(Cores[1])) = 0
  BY <1>1, LoadAtFirst
<1> QED  BY <1>1, <1>2, <1>4, <1>5, <1>6 DEF NumaInv

(* Where the next worker goes: to the core whose turn it is.               *)
LEMMA NumaTarget ==
  ASSUME machine \in Machines, NumaInv,
         NEW t, t = turn, NEW i, i = Len(Cores) - t + 1,
         NEW x, x = Cores[i], NEW k, k = next[i]
  PROVE  /\ t \in 1 .. Len(Cores) /\ i \in DOMAIN Cores
         /\ k \in 1 .. machine[x[1]][x[2]] /\ machine[x[1]][x[2]] \in Nat \ {0}
         /\ Pu(x[1], x[2], k) \in Units
         /\ \A j \in DOMAIN Cores :
              Pu(x[1], x[2], k) \in OnCore(Cores[j]) <=> j = i
<1>1. t \in 1 .. Len(Cores)
  BY CoresType DEF NumaInv, InTurn, CoresReversed
<1>2. i \in DOMAIN Cores
  BY <1>1, CoresType
<1>3. k \in 1 .. machine[x[1]][x[2]]
  BY <1>2 DEF NumaInv, InTurn, PusOnCore
<1>4. /\ x[1] \in DOMAIN machine /\ x[2] \in DOMAIN machine[x[1]]
      /\ machine[x[1]][x[2]] \in Nat \ {0}
  BY <1>2, CoresType
<1>5. Pu(x[1], x[2], k) \in Units
  BY <1>3, <1>4, UnitsType
<1>6. ASSUME NEW j \in DOMAIN Cores
      PROVE  Pu(x[1], x[2], k) \in OnCore(Cores[j]) <=> j = i
  <2>1. Pu(x[1], x[2], k) \in OnCore(Cores[j])
          <=> x[1] = Cores[j][1] /\ x[2] = Cores[j][2]
    BY <1>5, OnPart DEF Pu
  <2> QED  BY <1>2, <2>1, CoresType
<1> QED  BY <1>1, <1>2, <1>3, <1>4, <1>5, <1>6

LEMMA NumaServes ==
  ASSUME AffinityInv, NumaStep
  PROVE  NumaInv'
<1> PICK t : t = turn
  OBVIOUS
<1> PICK i : i = Len(Cores) - t + 1
  OBVIOUS
<1> PICK x : x = Cores[i]
  OBVIOUS
<1> PICK k : k = next[i]
  OBVIOUS
<1> PICK pu : pu = Pu(x[1], x[2], k)
  OBVIOUS
<1> PICK d : d = Len(Cores)
  OBVIOUS
<1>1. /\ machine \in Machines /\ NumaInv /\ machine' = machine
      /\ allocated \in Seq(PlaceType) /\ allocated' = Append(allocated, pu)
      /\ turn' = Cycle(t, d)
      /\ next' = [next EXCEPT ![i] = Cycle(k, machine[x[1]][x[2]])]
  BY DEF AffinityInv, NumaStep, Choosing, Allocate, PlaceType
<1>2. /\ t \in 1 .. d /\ i \in DOMAIN Cores
      /\ k \in 1 .. machine[x[1]][x[2]] /\ machine[x[1]][x[2]] \in Nat \ {0}
      /\ pu \in Units
      /\ \A j \in DOMAIN Cores : pu \in OnCore(Cores[j]) <=> j = i
  BY <1>1, NumaTarget
<1>3. pu \in PlaceType
  BY <1>1, <1>2, UnitsType
<1>4. d \in Nat \ {0} /\ DOMAIN Cores = 1 .. d
  BY <1>1, CoresType
<1>5. /\ Cores' = Cores /\ CoresReversed' = CoresReversed
      /\ \A j : PusOnCore(Cores[j])' = PusOnCore(Cores[j])
      /\ \A j : OnCore(Cores[j])' = OnCore(Cores[j])
  BY <1>1 DEF Cores, CoresReversed, PusOnCore, OnCore, OnSocket, Units, PUs
<1>6. InTurn(CoresReversed, turn)'
  <2> PICK q : q = CoresReversed
    OBVIOUS
  <2>1. DOMAIN q = 1 .. d /\ \A j \in 1 .. d : q[j] = OnCore(Cores[d - j + 1])
    BY <1>4 DEF CoresReversed
  <2>2. \A j \in 1 .. d : pu \in q[j] <=> j = t
    <3>1. ASSUME NEW j \in 1 .. d  PROVE pu \in q[j] <=> j = t
      <4>1. d - j + 1 \in DOMAIN Cores /\ (d - j + 1 = i <=> j = t)
        BY <1>2, <1>4
      <4> QED  BY <1>2, <2>1, <4>1
    <3> QED  BY <3>1
  <2>3. InTurn(q, t)
    BY <1>1 DEF NumaInv
  <2>4. InTurn(q, Cycle(t, d))'
    BY <1>1, <1>3, <1>4, <2>1, <2>2, <2>3, ServesNext
  <2> QED  BY <1>1, <1>5, <2>4
<1>7. ASSUME NEW j \in DOMAIN Cores
      PROVE  InTurn(PusOnCore(Cores[j]), next[j])'
  <2> PICK q : q = PusOnCore(Cores[j])
    OBVIOUS
  <2> PICK e \in Nat \ {0} : e = machine[Cores[j][1]][Cores[j][2]]
    BY <1>1, <1>7, CoresType
  <2> PICK m : m = next[j]
    OBVIOUS
  <2>1. /\ DOMAIN q = 1 .. e
        /\ \A l \in 1 .. e : q[l] = {Pu(Cores[j][1], Cores[j][2], l)}
    BY DEF PusOnCore
  <2>2. InTurn(q, m)
    BY <1>1, <1>7 DEF NumaInv
  <2>3. CASE j = i
    <3>1. \A o \in 1 .. e : pu \in q[o] <=> o = m
      <4>1. x = Cores[j] /\ k = m
        BY <2>3
      <4>2. \A o \in 1 .. e : q[o] = {Pu(x[1], x[2], o)}
        BY <2>1, <4>1
      <4>3. \A o \in 1 .. e : pu = Pu(x[1], x[2], o) <=> o = m
        BY <4>1 DEF Pu
      <4> QED  BY <4>2, <4>3
    <3>2. InTurn(q, Cycle(m, e))'
      BY <1>1, <1>3, <2>1, <2>2, <3>1, ServesNext
    <3>3. next'[j] = Cycle(m, e)
      BY <1>1, <1>2, <2>3 DEF NumaInv
    <3> QED  BY <1>5, <3>2, <3>3
  <2>4. CASE j # i
    <3>1. \A o \in 1 .. e : pu \notin q[o]
      <4>1. Cores[j][1] # x[1] \/ Cores[j][2] # x[2]
        BY <1>1, <1>2, <1>7, <2>4, CoresType
      <4> QED  BY <2>1, <4>1 DEF Pu
    <3>2. InTurn(q, m)'
      BY <1>1, <1>3, <2>1, <2>2, <3>1, ServesElsewhere
    <3>3. next'[j] = m
      BY <1>1, <1>2, <1>7, <2>4 DEF NumaInv
    <3> QED  BY <1>5, <3>2, <3>3
  <2> QED  BY <2>3, <2>4
<1>8. next' \in [DOMAIN Cores -> Nat]
  <2>1. Cycle(k, machine[x[1]][x[2]]) \in Nat
    BY <1>2, CycleIs
  <2> QED  BY <1>1, <2>1 DEF NumaInv
<1>9. ASSUME Len(allocated') < d
      PROVE  turn' = Len(allocated') + 1 /\ Load(OnCore(Cores[1]))' = 0
  <2>1. Len(allocated') = Len(allocated) + 1 /\ Len(allocated) \in Nat
    BY <1>1
  <2>2. t = Len(allocated) + 1 /\ Load(OnCore(Cores[1])) = 0
    BY <1>1, <1>4, <1>9, <2>1 DEF NumaInv
  <2>3. turn' = t + 1
    BY <1>1, <1>2, <1>4, <1>9, <2>1, <2>2, CycleIs
  <2> PICK S : S = OnCore(Cores[1])
    OBVIOUS
  <2>4. pu \notin S
    BY <1>2, <1>4, <1>9, <2>1, <2>2
  <2>5. Load(S)' = Load(S)
    BY <1>1, <1>3, <2>4, LoadGrows
  <2> QED  BY <1>5, <2>1, <2>2, <2>3, <2>5
<1> QED  BY <1>5, <1>6, <1>7, <1>8, <1>9 DEF NumaInv

------------------------------------------------------------------------------
(* numa_awareness without cores                                            *)

LEMMA PusType ==
  ASSUME machine \in Machines
  PROVE  /\ Len(PUs) \in Nat \ {0} /\ DOMAIN PUs = 1 .. Len(PUs)
         /\ \A i \in DOMAIN PUs : PUs[i] \in PlaceType
         /\ \A i, j \in DOMAIN PUs : PUs[i] = PUs[j] => i = j
         /\ \A u \in Units : \E i \in DOMAIN PUs : u = PUs[i]
<1>1. Lists(PUs, PusOf(machine))
  BY MachinesAssumption DEF PUs
<1>2. PUs \in Seq(PusOf(machine)) /\ \A i, j \in DOMAIN PUs : PUs[i] = PUs[j] => i = j
  BY <1>1 DEF Lists, IsInjective
<1>3. Len(PUs) \in Nat /\ DOMAIN PUs = 1 .. Len(PUs)
  BY <1>2
<1>4. /\ \A i \in DOMAIN PUs : PUs[i] \in Units
      /\ \A u \in Units : \E i \in DOMAIN PUs : u = PUs[i]
  BY DEF Units, Range
<1>5. Len(PUs) # 0
  <2>1. 1 \in DOMAIN machine /\ 1 \in DOMAIN machine[1]
    <3>1. 1 \in DOMAIN machine
      BY MachineType
    <3> QED  BY <3>1, MachineType
  <2>2. 1 \in 1 .. machine[1][1]
    BY <2>1, MachineType
  <2>3. Pu(1, 1, 1) \in Units
    BY <2>1, <2>2, UnitsType
  <2> QED  BY <1>3, <1>4, <2>3
<1> QED  BY <1>2, <1>3, <1>4, <1>5, UnitsType

LEMMA PusStart ==
  ASSUME Init
  PROVE  PusInv
<1>1. allocated = <<>> /\ machine \in Machines /\ Len(allocated) = 0
  BY DEF Init
<1>2. Len(PUs) \in Nat \ {0} /\ DOMAIN PUs = 1 .. Len(PUs)
  BY <1>1, PusType
<1>3. 0 % Len(PUs) = 0
  BY <1>2, SmallMod
<1> QED  BY <1>1, <1>2, <1>3, InTurnAtFirst DEF PusInv

LEMMA PusServes ==
  ASSUME AffinityInv, PusStep
  PROVE  PusInv'
<1> PICK m \in Nat : m = Len(allocated)
  BY DEF AffinityInv
<1> PICK d \in Nat \ {0} : d = Len(PUs)
  BY PusType DEF AffinityInv
<1> PICK k : k = (m % d) + 1
  OBVIOUS
<1> PICK pu : pu = PUs[k]
  OBVIOUS
<1> PICK q : q = [j \in DOMAIN PUs |-> {PUs[j]}]
  OBVIOUS
<1>1. /\ machine \in Machines /\ machine' = machine /\ InTurn(q, k)
      /\ allocated \in Seq(PlaceType) /\ allocated' = Append(allocated, pu)
  BY DEF AffinityInv, PusInv, PusStep, Choosing, Allocate, PlaceType
<1>2. k \in 1 .. d /\ DOMAIN PUs = 1 .. d /\ DOMAIN q = 1 .. d
  <2>1. m % d \in 0 .. d - 1
    BY DivMod
  <2> QED  BY <1>1, <2>1, PusType
<1>3. pu \in PlaceType
  BY <1>1, <1>2, PusType
<1>4. \A j \in 1 .. d : pu \in q[j] <=> j = k
  BY <1>1, <1>2, PusType
<1>5. InTurn(q, Cycle(k, d))'
  BY <1>1, <1>2, <1>3, <1>4, ServesNext
<1>6. Len(allocated') = m + 1
  BY <1>1
<1>7. ((m + 1) % d) + 1 = Cycle(k, d)
  <2>1. (m + 1) % d = IF m % d = d - 1 THEN 0 ELSE (m % d) + 1
    BY NextMod
  <2>2. Cycle(k, d) = IF k = d THEN 1 ELSE k + 1
    BY <1>2, CycleIs
  <2>3. m % d \in 0 .. d - 1
    BY DivMod
  <2> QED  BY <2>1, <2>2, <2>3
<1>8. PUs' = PUs
  BY <1>1 DEF PUs
<1> QED  BY <1>5, <1>6, <1>7, <1>8 DEF PusInv

------------------------------------------------------------------------------
(* thread_spread                                                           *)

LEMMA SpreadStart ==
  ASSUME Init, feature = "spread"
  PROVE  SpreadInv
<1>1. allocated = <<>> /\ turn = 1 /\ machine \in Machines
  BY DEF Init
<1>2. next = [s \in DOMAIN machine |-> 1]
  BY DEF Init
<1>3. InTurn([s \in DOMAIN machine |-> OnSocket(s)], turn)
  <2>1. Len(machine) \in Nat \ {0} /\ DOMAIN machine = 1 .. Len(machine)
    BY <1>1, MachineType
  <2> QED  BY <1>1, <2>1, InTurnAtFirst
<1>4. ASSUME NEW s \in DOMAIN machine
      PROVE  InTurn([c \in DOMAIN machine[s] |-> OnCore(<<s, c>>)], next[s])
  <2>1. Len(machine[s]) \in Nat \ {0} /\ DOMAIN machine[s] = 1 .. Len(machine[s])
    BY <1>1, MachineType
  <2> QED  BY <1>1, <1>2, <2>1, InTurnAtFirst
<1> QED  BY <1>2, <1>3, <1>4 DEF SpreadInv

LEMMA SpreadServes ==
  ASSUME AffinityInv, SpreadStep
  PROVE  SpreadInv'
<1> PICK t : t = turn
  OBVIOUS
<1> PICK k : k = next[t]
  OBVIOUS
<1> PICK pu : pu = Pu(t, k, 1)
  OBVIOUS
<1> PICK d \in Nat \ {0} : d = Len(machine) /\ DOMAIN machine = 1 .. d
  BY MachineType DEF AffinityInv
<1>1. /\ machine \in Machines /\ machine' = machine /\ SpreadInv
      /\ allocated \in Seq(PlaceType) /\ allocated' = Append(allocated, pu)
      /\ turn' = Cycle(t, d)
      /\ next' = [next EXCEPT ![t] = Cycle(k, Len(machine[t]))]
  BY DEF AffinityInv, SpreadStep, Choosing, Allocate, PlaceType
<1>2. t \in DOMAIN machine /\ k \in DOMAIN machine[t]
  <2>1. t \in DOMAIN machine
    BY <1>1 DEF SpreadInv, InTurn
  <2> QED  BY <1>1, <2>1 DEF SpreadInv, InTurn
<1>3. pu \in Units /\ pu \in PlaceType /\ pu.socket = t /\ pu.core = k
  <2>1. 1 \in 1 .. machine[t][k]
    BY <1>1, <1>2, MachineType
  <2>2. pu \in Units
    BY <1>1, <1>2, <2>1, UnitsType
  <2> QED  BY <1>1, <2>2, UnitsType DEF Pu
<1>4. /\ \A s : OnSocket(s)' = OnSocket(s)
      /\ \A x : OnCore(x)' = OnCore(x)
  BY <1>1 DEF OnCore, OnSocket, Units, PUs
<1>5. InTurn([s \in DOMAIN machine |-> OnSocket(s)], turn)'
  <2> PICK q : q = [s \in DOMAIN machine |-> OnSocket(s)]
    OBVIOUS
  <2>1. DOMAIN q = 1 .. d /\ \A s \in 1 .. d : pu \in q[s] <=> s = t
    BY <1>3, OnPart
  <2>2. InTurn(q, t)
    BY <1>1 DEF SpreadInv
  <2>3. InTurn(q, Cycle(t, d))'
    BY <1>1, <1>3, <2>1, <2>2, ServesNext
  <2>4. [s \in DOMAIN machine |-> OnSocket(s)]' = q
    BY <1>1, <1>4
  <2> QED  BY <1>1, <2>3, <2>4
<1>6. ASSUME NEW s \in DOMAIN machine
      PROVE  InTurn([c \in DOMAIN machine[s] |-> OnCore(<<s, c>>)], next[s])'
  <2> PICK q : q = [c \in DOMAIN machine[s] |-> OnCore(<<s, c>>)]
    OBVIOUS
  <2> PICK e \in Nat \ {0} : e = Len(machine[s]) /\ DOMAIN machine[s] = 1 .. e
    BY <1>1, <1>6, MachineType
  <2> PICK m : m = next[s]
    OBVIOUS
  <2>1. DOMAIN q = 1 .. e /\ \A c \in 1 .. e : q[c] = OnCore(<<s, c>>)
    OBVIOUS
  <2>2. InTurn(q, m)
    BY <1>1 DEF SpreadInv
  <2>3. [c \in DOMAIN machine[s] |-> OnCore(<<s, c>>)]' = q
    BY <1>1, <1>4
  <2>4. CASE s = t
    <3>1. \A c \in 1 .. e : pu \in q[c] <=> c = m
      BY <1>3, <2>1, <2>4, OnPart
    <3>2. InTurn(q, Cycle(m, e))'
      BY <1>1, <1>3, <2>1, <2>2, <3>1, ServesNext
    <3>3. next'[s] = Cycle(m, e)
      BY <1>1, <1>2, <2>4 DEF SpreadInv
    <3> QED  BY <2>3, <3>2, <3>3
  <2>5. CASE s # t
    <3>1. \A c \in DOMAIN q : pu \notin q[c]
      BY <1>3, <2>1, <2>5, OnPart
    <3>2. InTurn(q, m)'
      BY <1>1, <1>3, <2>2, <3>1, ServesElsewhere
    <3>3. next'[s] = m
      BY <1>1, <1>2, <2>5 DEF SpreadInv
    <3> QED  BY <2>3, <3>2, <3>3
  <2> QED  BY <2>4, <2>5
<1>7. next' \in [DOMAIN machine -> Nat]
  <2>1. Cycle(k, Len(machine[t])) \in Nat
    BY <1>1, <1>2, CycleIs, MachineType
  <2> QED  BY <1>1, <2>1 DEF SpreadInv
<1> QED  BY <1>1, <1>5, <1>6, <1>7 DEF SpreadInv

------------------------------------------------------------------------------
(* thread_nospread                                                         *)

LEMMA NospreadStart ==
  ASSUME Init
  PROVE  NospreadInv
<1>1. allocated = <<>> /\ machine \in Machines /\ Len(allocated) = 0
  BY DEF Init
<1> PICK d \in Nat \ {0} : d = Len(machine[1])
  BY <1>1, MachineType
<1>2. Beside.core = 1 /\ Beside.pu = 1
  <2>1. Beside = Pu(1, ((0 \div 2) % d) + 1, (0 % 2) + 1)
    BY <1>1 DEF Beside, Neighbour
  <2>2. Beside = Pu(1, 1, 1)
    BY <2>1, FirstPair
  <2> QED  BY <2>2 DEF Pu
<1>3. InTurn([j \in 1 .. 2 * d |-> {Neighbour(j - 1)}], 1)
  <2>1. 2 * d \in Nat \ {0}
    OBVIOUS
  <2> QED  BY <1>1, <2>1, InTurnAtFirst
<1>4. 2 * (Beside.core - 1) + Beside.pu = 1
  BY <1>2
<1> QED  BY <1>1, <1>3, <1>4 DEF NospreadInv

(* The first two rounds of slots in terms of cores and PUs.                *)
LEMMA SlotIs ==
  ASSUME NEW d \in Nat \ {0}, d = Len(machine[1]), NEW j \in 1 .. 2 * d
  PROVE  /\ Neighbour(j - 1).socket = 1
         /\ Neighbour(j - 1).core \in 1 .. d
         /\ Neighbour(j - 1).pu \in {1, 2}
         /\ j = 2 * (Neighbour(j - 1).core - 1) + Neighbour(j - 1).pu
<1> PICK k \in Nat : k = j - 1 /\ k <= 2 * d - 1
  OBVIOUS
<1> PICK c \in 0 .. d - 1 : c = k \div 2
  <2>1. k \div 2 \in 0 .. d - 1
    OBVIOUS
  <2> QED  BY <2>1
<1>1. c % d = c
  BY SmallMod
<1>2. k = 2 * c + (k % 2) /\ k % 2 \in {0, 1}
  OBVIOUS
<1>3. Neighbour(k) = Pu(1, c + 1, (k % 2) + 1)
  BY <1>1 DEF Neighbour
<1> QED  BY <1>2, <1>3 DEF Pu

LEMMA NospreadServes ==
  ASSUME AffinityInv, feature = "nospread", NospreadStep
  PROVE  NospreadInv'
<1> PICK m \in Nat : m = Len(allocated)
  BY DEF AffinityInv
<1> PICK d \in Nat \ {0} : d = Len(machine[1]) /\ DOMAIN machine[1] = 1 .. d
  BY MachineType DEF AffinityInv
<1>1. PICK pu : pu = Neighbour(m)
  OBVIOUS
<1>2. PICK c \in 0 .. d - 1 : c = (m \div 2) % d
  BY NextPair
<1>3. PICK p \in 0 .. 1 : p = m % 2
  OBVIOUS
<1>4. PICK e \in 0 .. d - 1 : e = ((m + 1) \div 2) % d
  BY NextPair
<1>5. PICK o \in 0 .. 1 : o = (m + 1) % 2
  OBVIOUS
<1>6. /\ machine \in Machines /\ machine' = machine /\ NospreadInv
      /\ allocated \in Seq(PlaceType) /\ allocated' = Append(allocated, pu)
      /\ pu.pu <= machine[1][pu.core]
  BY <1>1 DEF AffinityInv, NospreadStep, Choosing, Allocate, PlaceType, Beside
<1>7. /\ c \in 0 .. d - 1 /\ e \in 0 .. d - 1 /\ p \in {0, 1} /\ o \in {0, 1}
      /\ 2 * e + o = IF 2 * c + p = 2 * d - 1 THEN 0 ELSE 2 * c + p + 1
  <2>1. /\ (m \div 2) % d \in 0 .. d - 1 /\ ((m + 1) \div 2) % d \in 0 .. d - 1
        /\ m % 2 \in {0, 1} /\ (m + 1) % 2 \in {0, 1}
        /\ 2 * (((m + 1) \div 2) % d) + ((m + 1) % 2) =
             IF 2 * ((m \div 2) % d) + (m % 2) = 2 * d - 1 THEN 0
             ELSE 2 * ((m \div 2) % d) + (m % 2) + 1
    BY NextPair
  <2> QED  BY <1>2, <1>3, <1>4, <1>5, <2>1
<1>8. pu = Pu(1, c + 1, p + 1) /\ Neighbour(m + 1) = Pu(1, e + 1, o + 1)
  BY <1>1, <1>2, <1>3, <1>4, <1>5 DEF Neighbour
<1>9. pu \in Units /\ pu \in PlaceType
  <2>1. 1 \in DOMAIN machine
    BY <1>6, MachineType
  <2> PICK l : l = c + 1
    OBVIOUS
  <2>2. l \in DOMAIN machine[1] /\ pu = Pu(1, l, p + 1)
    BY <1>7, <1>8
  <2>3. machine[1][l] \in Nat /\ p + 1 <= machine[1][l]
    BY <1>6, <2>1, <2>2, MachineType DEF Pu
  <2>4. pu \in Units
    <3>1. p + 1 \in 1 .. machine[1][l]
      BY <1>7, <2>3
    <3> QED  BY <1>6, <2>1, <2>2, <3>1, UnitsType
  <2> QED  BY <1>6, <2>4, UnitsType
<1>10. /\ Len(allocated') = m + 1 /\ DOMAIN allocated' = 1 .. m + 1
      /\ DOMAIN allocated = 1 .. m /\ allocated'[m + 1] = pu
      /\ \A i \in 1 .. m : allocated'[i] = allocated[i]
  BY <1>6
<1>11. Units' = Units /\ \A k : Neighbour(k)' = Neighbour(k)
  BY <1>6 DEF Units, PUs, Neighbour
<1>12. \A i \in DOMAIN allocated' : allocated'[i] = Neighbour(i - 1)
  BY <1>6, <1>10, <1>1 DEF NospreadInv
<1>13. \A i \in DOMAIN allocated' : allocated'[i] \in Units
  BY <1>6, <1>9, <1>10 DEF NospreadInv
<1> PICK q : q = [j \in 1 .. 2 * d |-> {Neighbour(j - 1)}]
  OBVIOUS
<1>14. PICK k \in Nat : k = 2 * c + p + 1
  OBVIOUS
<1>15. InTurn(q, Cycle(k, 2 * d))'
  <2>1. InTurn(q, k)
    <3>1. Beside.core = c + 1 /\ Beside.pu = p + 1
      BY <1>8, <1>1 DEF Beside, Pu
    <3>2. InTurn(q, 2 * (Beside.core - 1) + Beside.pu)
      BY <1>6 DEF NospreadInv
    <3>3. 2 * (Beside.core - 1) + Beside.pu = k
      BY <1>7, <1>14, <3>1
    <3> QED  BY <3>2, <3>3
  <2>2. \A j \in 1 .. 2 * d : pu \in q[j] <=> j = k
    <3>1. ASSUME NEW j \in 1 .. 2 * d  PROVE pu \in q[j] <=> j = k
      <4>1. /\ Neighbour(j - 1).socket = 1
            /\ Neighbour(j - 1).core \in 1 .. d
            /\ Neighbour(j - 1).pu \in {1, 2}
            /\ j = 2 * (Neighbour(j - 1).core - 1) + Neighbour(j - 1).pu
        BY SlotIs
      <4>2. pu.core = c + 1 /\ pu.pu = p + 1
        BY <1>8 DEF Pu
      <4>3. pu = Neighbour(j - 1)
              <=> /\ Neighbour(j - 1).core = c + 1
                  /\ Neighbour(j - 1).pu = p + 1
        <5>1. \A x, y : pu = Pu(1, x, y) <=> x = c + 1 /\ y = p + 1
          BY <1>8 DEF Pu
        <5>2. Neighbour(j - 1) = Pu(1, Neighbour(j - 1).core, Neighbour(j - 1).pu)
          BY DEF Neighbour, Pu
        <5> QED  BY <5>1, <5>2
      <4>4. j = k <=> /\ Neighbour(j - 1).core = c + 1
                      /\ Neighbour(j - 1).pu = p + 1
        <5>1. PICK x \in 1 .. d : x = Neighbour(j - 1).core
          BY <4>1
        <5>2. PICK y \in 1 .. 2 : y = Neighbour(j - 1).pu
          BY <4>1
        <5>3. j = 2 * (x - 1) + y
          BY <4>1, <5>1, <5>2
        <5>4. c \in Nat /\ x \in Nat \ {0} /\ p \in 0 .. 1 /\ y \in 1 .. 2
          BY <1>7, <5>1, <5>2
        <5>5. 2 * (x - 1) + y = 2 * c + p + 1 <=> x = c + 1 /\ y = p + 1
          BY <5>4, PairNumber
        <5> QED  BY <1>14, <5>3, <5>5, <5>1, <5>2
      <4> QED  BY <4>3, <4>4
    <3> QED  BY <3>1
  <2>3. 2 * d \in Nat \ {0} /\ DOMAIN q = 1 .. 2 * d
    OBVIOUS
  <2> QED  BY <1>6, <1>9, <2>1, <2>2, <2>3, ServesNext
<1>16. Cycle(k, 2 * d) = 2 * e + o + 1
  <2>1. k \in 1 .. 2 * d /\ 2 * d \in Nat \ {0}
    BY <1>7, <1>14
  <2>2. Cycle(k, 2 * d) = IF k = 2 * d THEN 1 ELSE k + 1
    BY <2>1, CycleIs
  <2> QED  BY <1>7, <1>14, <2>1, <2>2
<1>17. (2 * (Beside.core - 1) + Beside.pu)' = Cycle(k, 2 * d)
  <2>1. Beside' = Pu(1, e + 1, o + 1)
    BY <1>8, <1>10, <1>11 DEF Beside
  <2>2. Beside'.core = e + 1 /\ Beside'.pu = o + 1
    BY <2>1 DEF Pu
  <2> QED  BY <1>7, <1>16, <2>2
<1>18. [j \in 1 .. 2 * Len(machine[1]) |-> {Neighbour(j - 1)}]' = q
  BY <1>6, <1>11
<1> QED  BY <1>11, <1>12, <1>13, <1>15, <1>17, <1>18 DEF NospreadInv

------------------------------------------------------------------------------
(* Workers are spread evenly                                               *)

(* A feature concerns one part of the invariant only.                      *)
LEMMA OtherFeatures ==
  ASSUME feature' = feature,
         machine' \in Machines /\ allocated' \in Seq(PlaceType),
         feature = "numa" => NumaInv', feature = "pus" => PusInv',
         feature = "spread" => SpreadInv', feature = "nospread" => NospreadInv'
  PROVE  AffinityInv'
BY DEF AffinityInv, PlaceType

LEMMA AppendPlace ==
  ASSUME allocated \in Seq(PlaceType), NEW pu \in PlaceType,
         allocated' = Append(allocated, pu)
  PROVE  allocated' \in Seq(PlaceType)
OBVIOUS

LEMMA Start ==
  ASSUME Init
  PROVE  AffinityInv
<1>1. machine \in Machines /\ allocated \in Seq(PlaceType)
  <2>1. allocated = <<>> /\ machine \in Machines
    BY DEF Init
  <2> QED  BY <2>1
<1> QED  BY <1>1, NumaStart, PusStart, SpreadStart, NospreadStart DEF AffinityInv, PlaceType

(* Whichever feature chooses, it chooses a PU of the machine.              *)
LEMMA ChoosesAPu ==
  ASSUME AffinityInv, NEW pu, allocated' = Append(allocated, pu),
         machine' = machine, pu \in PlaceType
  PROVE  machine' \in Machines /\ allocated' \in Seq(PlaceType)
<1>1. machine \in Machines /\ allocated \in Seq(PlaceType)
  BY DEF AffinityInv, PlaceType
<1> QED  BY <1>1, AppendPlace

LEMMA Step ==
  ASSUME AffinityInv, [Next]_vars
  PROVE  AffinityInv'
<1>1. CASE NumaStep
  <2> PICK t : t = turn
    OBVIOUS
  <2> PICK i : i = Len(Cores) - t + 1
    OBVIOUS
  <2> PICK x : x = Cores[i]
    OBVIOUS
  <2> PICK k : k = next[i]
    OBVIOUS
  <2>1. /\ feature' = feature /\ feature = "numa" /\ machine' = machine
        /\ allocated' = Append(allocated, Pu(x[1], x[2], k))
    BY <1>1 DEF NumaStep, Choosing, Allocate
  <2>2. machine \in Machines /\ NumaInv
    BY <2>1 DEF AffinityInv
  <2>3. Pu(x[1], x[2], k) \in PlaceType
    <3>1. Pu(x[1], x[2], k) \in Units
      BY <2>2, NumaTarget
    <3> QED  BY <2>2, <3>1, UnitsType
  <2>4. machine' \in Machines /\ allocated' \in Seq(PlaceType)
    BY <2>1, <2>3, ChoosesAPu
  <2>5. NumaInv'
    BY <1>1, NumaServes
  <2> QED  BY <2>1, <2>4, <2>5, OtherFeatures
<1>2. CASE PusStep
  <2> PICK pu : pu = PUs[(Len(allocated) % Len(PUs)) + 1]
    OBVIOUS
  <2>1. /\ feature' = feature /\ feature = "pus" /\ machine' = machine
        /\ allocated' = Append(allocated, pu)
    BY <1>2 DEF PusStep, Choosing, Allocate
  <2>2. pu \in PlaceType
    <3>1. machine \in Machines /\ Len(allocated) \in Nat
      BY DEF AffinityInv
    <3>2. Len(PUs) \in Nat \ {0}
      BY <3>1, PusType
    <3>3. Len(allocated) % Len(PUs) \in 0 .. Len(PUs) - 1
      BY <3>1, <3>2, DivMod
    <3>4. (Len(allocated) % Len(PUs)) + 1 \in DOMAIN PUs
      BY <3>1, <3>2, <3>3, PusType
    <3> QED  BY <3>1, <3>4, PusType
  <2>3. machine' \in Machines /\ allocated' \in Seq(PlaceType)
    BY <2>1, <2>2, ChoosesAPu
  <2>4. PusInv'
    BY <1>2, PusServes
  <2> QED  BY <2>1, <2>3, <2>4, OtherFeatures
<1>3. CASE SpreadStep
  <2> PICK t : t = turn
    OBVIOUS
  <2> PICK k : k = next[t]
    OBVIOUS
  <2>1. /\ feature' = feature /\ feature = "spread" /\ machine' = machine
        /\ allocated' = Append(allocated, Pu(t, k, 1))
    BY <1>3 DEF SpreadStep, Choosing, Allocate
  <2>2. machine \in Machines /\ t \in DOMAIN machine /\ k \in DOMAIN machine[t]
    <3>1. machine \in Machines /\ t \in DOMAIN machine
      BY <2>1 DEF AffinityInv, SpreadInv, InTurn
    <3>2. InTurn([c \in DOMAIN machine[t] |-> OnCore(<<t, c>>)], k)
      BY <2>1, <3>1 DEF AffinityInv, SpreadInv
    <3> QED  BY <3>1, <3>2 DEF InTurn
  <2>3. Pu(t, k, 1) \in PlaceType
    BY <2>2, MachineType DEF Pu, PlaceType
  <2>4. machine' \in Machines /\ allocated' \in Seq(PlaceType)
    BY <2>1, <2>3, ChoosesAPu
  <2>5. SpreadInv'
    BY <1>3, SpreadServes
  <2> QED  BY <2>1, <2>4, <2>5, OtherFeatures
<1>4. CASE NospreadStep
  <2>1. /\ feature' = feature /\ feature = "nospread" /\ machine' = machine
        /\ allocated' = Append(allocated, Beside)
    BY <1>4 DEF NospreadStep, Choosing, Allocate
  <2>2. NospreadInv'
    BY <1>4, <2>1, NospreadServes
  <2>3. machine' \in Machines /\ allocated' \in Seq(PlaceType)
    <3> PICK d \in Nat \ {0} : d = Len(machine[1])
      BY MachineType DEF AffinityInv
    <3> PICK m \in Nat : m = Len(allocated)
      BY DEF AffinityInv
    <3>1. /\ (m \div 2) % d \in 0 .. d - 1
          /\ m % 2 \in {0, 1}
      BY NextPair
    <3>2. Beside = Pu(1, ((m \div 2) % d) + 1, (m % 2) + 1)
      BY DEF Beside, Neighbour
    <3>3. ASSUME NEW c \in 0 .. d - 1, NEW p \in {0, 1}
          PROVE  Pu(1, c + 1, p + 1) \in PlaceType
      BY DEF Pu, PlaceType
    <3>4. Beside \in PlaceType
      BY <3>1, <3>2, <3>3
    <3> QED  BY <2>1, <3>4, ChoosesAPu
  <2> QED  BY <2>1, <2>2, <2>3, OtherFeatures
<1>5. CASE UNCHANGED vars
  <2>1. /\ machine' = machine /\ feature' = feature /\ allocated' = allocated
        /\ turn' = turn /\ next' = next
    BY <1>5 DEF vars
  <2>2. /\ Cores' = Cores /\ PUs' = PUs /\ Units' = Units /\ Beside' = Beside
        /\ \A S : Load(S)' = Load(S)
        /\ \A k : Neighbour(k)' = Neighbour(k)
    BY <2>1 DEF Cores, PUs, Units, Beside, Neighbour, Load
  <2>3. \A q, k : InTurn(q, k) => InTurn(q, k)'
    BY <2>1, <2>2 DEF InTurn
  <2>4. /\ CoresReversed' = CoresReversed
        /\ \A x : PusOnCore(x)' = PusOnCore(x)
        /\ \A x : OnCore(x)' = OnCore(x)
        /\ \A s : OnSocket(s)' = OnSocket(s)
    BY <2>1, <2>2 DEF CoresReversed, PusOnCore, OnCore, OnSocket
  <2>5. machine' \in Machines /\ allocated' \in Seq(PlaceType)
    BY <2>1 DEF AffinityInv, PlaceType
  <2>6. ASSUME NumaInv  PROVE NumaInv'
    <3>1. InTurn(CoresReversed, turn)'
      BY <2>1, <2>3, <2>4, <2>6 DEF NumaInv
    <3>2. \A i \in DOMAIN Cores : InTurn(PusOnCore(Cores[i]), next[i])'
      BY <2>1, <2>2, <2>3, <2>4, <2>6 DEF NumaInv
    <3> QED  BY <2>1, <2>2, <2>4, <2>6, <3>1, <3>2 DEF NumaInv
  <2>7. ASSUME PusInv  PROVE PusInv'
    BY <2>1, <2>2, <2>3, <2>7 DEF PusInv
  <2>8. ASSUME SpreadInv  PROVE SpreadInv'
    <3>1. InTurn([s \in DOMAIN machine |-> OnSocket(s)], turn)'
      BY <2>1, <2>3, <2>4, <2>8 DEF SpreadInv
    <3>2. \A s \in DOMAIN machine :
            InTurn([c \in DOMAIN machine[s] |-> OnCore(<<s, c>>)], next[s])'
      BY <2>1, <2>3, <2>4, <2>8 DEF SpreadInv
    <3> QED  BY <2>1, <2>8, <3>1, <3>2 DEF SpreadInv
  <2>9. ASSUME NospreadInv  PROVE NospreadInv'
    <3>1. InTurn([j \in 1 .. 2 * Len(machine[1]) |-> {Neighbour(j - 1)}],
                 2 * (Beside.core - 1) + Beside.pu)'
      BY <2>1, <2>2, <2>3, <2>9 DEF NospreadInv
    <3> QED  BY <2>1, <2>2, <2>9, <3>1 DEF NospreadInv
  <2>10. /\ feature = "numa" => NumaInv'
         /\ feature = "pus" => PusInv'
         /\ feature = "spread" => SpreadInv'
         /\ feature = "nospread" => NospreadInv'
    BY <2>6, <2>7, <2>8, <2>9 DEF AffinityInv
  <2> QED  BY <2>1, <2>5, <2>10, OtherFeatures
<1>6. NospreadPanic \/ Bound => UNCHANGED vars
  BY DEF NospreadPanic, Bound
<1> QED  BY <1>1, <1>2, <1>3, <1>4, <1>5, <1>6 DEF Next

------------------------------------------------------------------------------
(* What being served in turn means for each of the features                *)

LEMMA NumaIsEven ==
  ASSUME AffinityInv, feature = "numa"
  PROVE  /\ Even(CoreParts)
         /\ \A part \in CoreParts : Even({{u} : u \in part})
         /\ Len(allocated) < Len(Cores) => Load(OnCore(Cores[1])) = 0
<1>1. machine \in Machines /\ NumaInv /\ allocated \in Seq(PlaceType)
  BY DEF AffinityInv, PlaceType
<1>2. Len(Cores) \in Nat \ {0} /\ DOMAIN Cores = 1 .. Len(Cores)
  BY <1>1, CoresType
<1>3. \A part \in CoreParts : \E i \in DOMAIN Cores : part = OnCore(Cores[i])
  BY DEF CoreParts, Range
<1>4. \A part \in CoreParts :
        \E j \in DOMAIN CoresReversed : part = CoresReversed[j]
  <2> SUFFICES ASSUME NEW part \in CoreParts
               PROVE  \E j \in DOMAIN CoresReversed : part = CoresReversed[j]
    OBVIOUS
  <2>1. PICK i \in DOMAIN Cores : part = OnCore(Cores[i])
    BY <1>3
  <2>2. PICK l \in Nat \ {0} : l = Len(Cores) /\ DOMAIN Cores = 1 .. l
    BY <1>2
  <2>3. PICK j \in 1 .. l : l - j + 1 = i
    <3>1. i \in 1 .. l
      BY <2>2
    <3>2. l - i + 1 \in 1 .. l /\ l - (l - i + 1) + 1 = i
      BY <3>1
    <3> QED  BY <3>2
  <2> QED  BY <2>1, <2>2, <2>3 DEF CoresReversed
<1>5. Even(CoreParts)
  BY <1>1, <1>4, TurnsAreEven DEF NumaInv
<1>6. ASSUME NEW part \in CoreParts  PROVE Even({{u} : u \in part})
  <2>1. PICK i \in DOMAIN Cores : part = OnCore(Cores[i])
    BY <1>3
  <2>2. PICK x : x = Cores[i]
    OBVIOUS
  <2>3. ASSUME NEW u \in part
        PROVE  \E k \in DOMAIN PusOnCore(x) : {u} = PusOnCore(x)[k]
    <3>1. u \in Units /\ u.socket = x[1] /\ u.core = x[2]
      BY <2>1, <2>2 DEF OnCore, OnSocket
    <3>2. u = Pu(x[1], x[2], u.pu) /\ u.pu \in 1 .. machine[x[1]][x[2]]
      BY <1>1, <3>1, UnitsType
    <3> QED  BY <3>2 DEF PusOnCore
  <2>4. InTurn(PusOnCore(x), next[i])
    BY <1>1, <2>2 DEF NumaInv
  <2>5. PICK parts : parts = {{u} : u \in part}
    OBVIOUS
  <2>6. \A y \in parts : \E k \in DOMAIN PusOnCore(x) : y = PusOnCore(x)[k]
    BY <2>3, <2>5
  <2>7. Even(parts)
    BY <1>1, <2>4, <2>6, TurnsAreEven
  <2> QED  BY <2>5, <2>7
<1>7. Len(allocated) < Len(Cores) => Load(OnCore(Cores[1])) = 0
  BY <1>1 DEF NumaInv
<1> QED  BY <1>5, <1>6, <1>7

LEMMA PusAreEven ==
  ASSUME AffinityInv, feature = "pus"
  PROVE  Even({{u} : u \in Units})
<1>1. machine \in Machines /\ PusInv /\ allocated \in Seq(PlaceType)
  BY DEF AffinityInv, PlaceType
<1>2. PICK q : q = [j \in DOMAIN PUs |-> {PUs[j]}]
  OBVIOUS
<1>3. PICK parts : parts = {{u} : u \in Units}
  OBVIOUS
<1>4. \A x \in parts : \E j \in DOMAIN q : x = q[j]
  BY <1>1, <1>2, <1>3, PusType
<1>5. InTurn(q, (Len(allocated) % Len(PUs)) + 1)
  BY <1>1, <1>2 DEF PusInv
<1>6. Even(parts)
  BY <1>1, <1>4, <1>5, TurnsAreEven
<1> QED  BY <1>6, <1>3

LEMMA SpreadIsEven ==
  ASSUME AffinityInv, feature = "spread"
  PROVE  /\ Even({OnSocket(s) : s \in DOMAIN machine})
         /\ \A s \in DOMAIN machine :
              Even({OnCore(<<s, c>>) : c \in DOMAIN machine[s]})
<1>1. SpreadInv /\ allocated \in Seq(PlaceType)
  BY DEF AffinityInv, PlaceType
<1>2. Even({OnSocket(s) : s \in DOMAIN machine})
  <2>1. PICK q : q = [s \in DOMAIN machine |-> OnSocket(s)]
    OBVIOUS
  <2>2. PICK parts : parts = {OnSocket(s) : s \in DOMAIN machine}
    OBVIOUS
  <2>3. InTurn(q, turn)
    BY <1>1, <2>1 DEF SpreadInv
  <2>4. \A x \in parts : \E j \in DOMAIN q : x = q[j]
    BY <2>1, <2>2
  <2>5. Even(parts)
    BY <1>1, <2>3, <2>4, TurnsAreEven
  <2> QED  BY <2>5, <2>2
<1>3. ASSUME NEW s \in DOMAIN machine
      PROVE  Even({OnCore(<<s, c>>) : c \in DOMAIN machine[s]})
  <2>1. PICK q : q = [c \in DOMAIN machine[s] |-> OnCore(<<s, c>>)]
    OBVIOUS
  <2>2. PICK parts : parts = {OnCore(<<s, c>>) : c \in DOMAIN machine[s]}
    OBVIOUS
  <2>3. InTurn(q, next[s])
    BY <1>1, <2>1 DEF SpreadInv
  <2>4. \A x \in parts : \E j \in DOMAIN q : x = q[j]
    BY <2>1, <2>2
  <2>5. Even(parts)
    BY <1>1, <2>3, <2>4, TurnsAreEven
  <2> QED  BY <2>5, <2>2
<1> QED  BY <1>2, <1>3

LEMMA NospreadFills ==
  ASSUME AffinityInv, feature = "nospread"
  PROVE  /\ Load(OnSocket(1)) = Len(allocated)
         /\ \A i \in 1 .. Len(allocated) - 1 :
              i % 2 = 1 => allocated[i].core = allocated[i + 1].core
         /\ Even({{u} : u \in {v \in OnSocket(1) : v.pu <= 2}})
<1>1. machine \in Machines /\ NospreadInv /\ allocated \in Seq(PlaceType)
  BY DEF AffinityInv, PlaceType
<1> PICK m \in Nat : m = Len(allocated) /\ DOMAIN allocated = 1 .. m
  BY <1>1
<1> PICK d \in Nat \ {0} : d = Len(machine[1]) /\ DOMAIN machine[1] = 1 .. d
  BY <1>1, MachineType
<1>2. Load(OnSocket(1)) = m
  <2>1. \A i \in 1 .. m : allocated[i] \in OnSocket(1)
    <3>1. ASSUME NEW i \in 1 .. m  PROVE allocated[i] \in OnSocket(1)
      <4>1. allocated[i] \in Units /\ allocated[i] = Neighbour(i - 1)
        BY <1>1 DEF NospreadInv
      <4>2. Neighbour(i - 1).socket = 1
        BY DEF Neighbour, Pu
      <4> QED  BY <4>1, <4>2 DEF OnSocket
    <3> QED  BY <3>1
  <2>2. {i \in DOMAIN allocated : allocated[i] \in OnSocket(1)} = 1 .. m
    BY <2>1
  <2>3. Cardinality(1 .. m) = m
    BY SizeOfInterval
  <2> QED  BY <2>2, <2>3 DEF Load
<1>3. ASSUME NEW i \in 1 .. m - 1, i % 2 = 1
      PROVE  allocated[i].core = allocated[i + 1].core
  <2>1. allocated[i] = Neighbour(i - 1) /\ allocated[i + 1] = Neighbour(i)
    <3>1. i \in 1 .. m /\ i + 1 \in 1 .. m /\ (i + 1) - 1 = i
      OBVIOUS
    <3> QED  BY <1>1, <3>1 DEF NospreadInv
  <2>2. (i - 1) \div 2 = i \div 2
    BY <1>3
  <2>3. Neighbour(i - 1).core = Neighbour(i).core
    BY <2>2 DEF Neighbour, Pu
  <2> QED  BY <2>1, <2>3
<1>4. Even({{u} : u \in {v \in OnSocket(1) : v.pu <= 2}})
  <2>1. PICK q : q = [j \in 1 .. 2 * d |-> {Neighbour(j - 1)}]
    OBVIOUS
  <2>2. ASSUME NEW u \in OnSocket(1), u.pu <= 2
        PROVE  \E j \in DOMAIN q : {u} = q[j]
    <3>1. /\ u = Pu(1, u.core, u.pu) /\ u.core \in 1 .. d
          /\ u.pu \in 1 .. machine[1][u.core] /\ machine[1][u.core] \in Nat
      <4>1. u \in Units /\ u.socket = 1 /\ 1 \in DOMAIN machine
        BY <1>1, MachineType DEF OnSocket
      <4>2. /\ u = Pu(u.socket, u.core, u.pu) /\ u.core \in DOMAIN machine[u.socket]
            /\ u.pu \in 1 .. machine[u.socket][u.core]
        BY <1>1, <4>1, UnitsType
      <4>3. u = Pu(1, u.core, u.pu) /\ u.core \in DOMAIN machine[1]
        BY <4>1, <4>2
      <4>4. machine[1][u.core] \in Nat
        BY <1>1, <4>1, <4>3, MachineType
      <4> QED  BY <4>1, <4>2, <4>3, <4>4
    <3>2. PICK v \in 1 .. d : v = u.core
      BY <3>1
    <3>3. v - 1 \in 0 .. d - 1
      OBVIOUS
    <3>4. (v - 1) + 1 = u.core
      BY <3>2
    <3>5. PICK c \in 0 .. d - 1 : u.core = c + 1
      BY <3>3, <3>4, Zenon
    <3>6. PICK p \in 0 .. 1 : u.pu = p + 1
      BY <2>2, <3>1
    <3>7. PICK j \in 1 .. 2 * d : j = 2 * c + p + 1
      OBVIOUS
    <3>8. /\ Neighbour(j - 1).core \in 1 .. d /\ Neighbour(j - 1).pu \in {1, 2}
          /\ j = 2 * (Neighbour(j - 1).core - 1) + Neighbour(j - 1).pu
      BY SlotIs
    <3>9. PICK x \in 1 .. d : x = Neighbour(j - 1).core
      BY <3>8
    <3>10. PICK y \in 1 .. 2 : y = Neighbour(j - 1).pu
      BY <3>8
    <3>11. 2 * (x - 1) + y = 2 * c + p + 1
      BY <3>8, <3>7, <3>9, <3>10
    <3>12. x = c + 1 /\ y = p + 1
      <4>1. c \in Nat /\ x \in Nat \ {0}
        BY <3>5, <3>9
      <4> QED  BY <3>11, <4>1, PairNumber
    <3>13. Neighbour(j - 1) = Pu(1, x, y)
      BY <3>9, <3>10 DEF Neighbour, Pu
    <3>14. u = Neighbour(j - 1)
      BY <3>1, <3>5, <3>6, <3>12, <3>13
    <3> QED  BY <2>1, <3>14
  <2>3. InTurn(q, 2 * (Beside.core - 1) + Beside.pu)
    BY <1>1, <2>1 DEF NospreadInv
  <2>4. PICK parts : parts = {{u} : u \in {v \in OnSocket(1) : v.pu <= 2}}
    OBVIOUS
  <2>5. \A x \in parts : \E j \in DOMAIN q : x = q[j]
    BY <2>2, <2>4
  <2>6. Even(parts)
    BY <1>1, <2>3, <2>5, TurnsAreEven
  <2> QED  BY <2>6, <2>4
<1> QED  BY <1>2, <1>3, <1>4

(* At every moment of the choosing the parts of the machine have been      *)
(* served in turn, whichever feature chooses.                              *)
THEOREM AffinityInvariance == Spec => []AffinityInv
<1>1. Init => AffinityInv
  BY Start
<1>2. AffinityInv /\ [Next]_vars => AffinityInv'
  BY Step
<1> QED  BY <1>1, <1>2, PTL DEF Spec

(* On every machine, in whichever order hwloc lists its parts, and for any *)
(* number of workers, Lace::init spreads the workers, or keeps them        *)
(* together, as evenly as the feature is meant to.                         *)
THEOREM WorkersSpreadEvenly == Spec => []LoadEven
<1>1. AffinityInv => LoadEven
  BY NumaIsEven, PusAreEven, SpreadIsEven, NospreadFills DEF LoadEven
<1> QED  BY <1>1, AffinityInvariance, PTL
==============================================================================
