------------------------------ MODULE ChaseLev ------------------------------
(***************************************************************************)
(* One worker of the feature chase_lev (src/lace/src/lib.rs), its owner    *)
(* and its thieves.  The deque is the one of the crossbeam crate: it holds *)
(* pointers to boxed tasks, a stolen entry leaves it, and how the thief of *)
(* a task is doing is told by a flag of its own, a slot, that owner and    *)
(* thief share.  Slots of tasks that nobody stole are used again.          *)
(*                                                                         *)
(* After sync has read a thief's id the worker leapfrogs: its tasks spawn  *)
(* and sync above the token that is waited for.                            *)
(*                                                                         *)
(* Memory is sequentially consistent but for the one relaxed load that is  *)
(* used to decide whether the output of a task may be read: on a machine   *)
(* with WeakLoads, what is read after it may be older than its value.      *)
(***************************************************************************)
EXTENDS Naturals, Sequences, Stacks

CONSTANTS Thieves,         \* steal_work frames of other workers
          Boxes,           \* addresses of boxed tasks (task_box)
          Slots,           \* addresses of thief slots
          NoBox, NoSlot,   \* none of them
          THIEF_NONE, THIEF_FINISHED,
          Capacity,        \* bound on the tokens held at a time
          WeakLoads        \* TRUE: loads may pass an earlier relaxed load

ASSUME CapacityAssumption == Capacity \in Nat \ {0}
ASSUME NamesAssumption ==
  /\ NoBox \notin Boxes /\ NoSlot \notin Slots
  /\ THIEF_NONE # THIEF_FINISHED
  /\ THIEF_NONE \notin Thieves /\ THIEF_FINISHED \notin Thieves
ASSUME WeakLoadsAssumption == WeakLoads \in BOOLEAN

Entry == [box : Boxes, slot : Slots]
None  == [box |-> NoBox, slot |-> NoSlot]

VARIABLES
  queue,       \* the crossbeam deque, oldest first
  flag,        \* the value of each thief slot
  io,          \* TaskIO of each box: "free", "input", "empty" or "output"
  tokens,      \* the SpawnTokens that are not synced, newest last
  recycle,     \* recycle_thief, its end last
  waiting,     \* the slots whose sync leapfrogs
  opc,         \* where the owner is
  taken,       \* the token whose task sync is about to take
  acquired,    \* taken's FINISHED was read by an acquiring load
  tpc,         \* where each thief is
  loot         \* the entry each thief has stolen

owner   == <<opc, taken, acquired, waiting>>
thieves == <<tpc, loot>>
vars    == <<queue, flag, io, tokens, recycle, owner, thieves>>

OwnerPC == {"idle", "spin", "reset", "output", "panicked"}
ThiefPC == {"idle", "announce", "input", "run", "finish"}

TypeOK ==
  /\ queue \in Seq(Entry) /\ tokens \in Seq(Entry)
  /\ recycle \in Seq(Slots)
  /\ flag \in [Slots -> Thieves \cup {THIEF_NONE, THIEF_FINISHED}]
  /\ io \in [Boxes -> {"free", "input", "empty", "output"}]
  /\ waiting \subseteq Slots
  /\ opc \in OwnerPC
  /\ taken \in Entry \cup {None}
  /\ acquired \in BOOLEAN
  /\ tpc \in [Thieves -> ThiefPC]
  /\ loot \in [Thieves -> Entry \cup {None}]

Init ==
  /\ queue = <<>> /\ tokens = <<>> /\ recycle = <<>>
  /\ flag = [s \in Slots |-> THIEF_NONE]
  /\ io = [b \in Boxes |-> "free"]
  /\ waiting = {} /\ opc = "idle" /\ taken = None /\ acquired = FALSE
  /\ tpc = [p \in Thieves |-> "idle"]
  /\ loot = [p \in Thieves |-> None]

(* A slot no Arc points to.                                                *)
Unused(s) == /\ \A i \in 1 .. Len(tokens) : tokens[i].slot # s
             /\ \A i \in 1 .. Len(recycle) : recycle[i] # s
             /\ taken.slot # s
             /\ \A p \in Thieves : loot[p].slot # s

------------------------------------------------------------------------------
(* The owner                                                               *)

(* Task::new, arena.alloc and queue.push with slot s.                      *)
Push(b, s) ==
  /\ io[b] = "free"
  /\ io' = [io EXCEPT ![b] = "input"]
  /\ queue' = Append(queue, [box |-> b, slot |-> s])
  /\ tokens' = Append(tokens, [box |-> b, slot |-> s])

(* spawn with a slot of recycle_thief.                                     *)
SpawnRecycled ==
  /\ opc = "idle" /\ Len(tokens) < Capacity
  /\ recycle # <<>>
  /\ \E b \in Boxes : Push(b, Newest(recycle))
  /\ recycle' = Older(recycle)
  /\ UNCHANGED <<flag, owner, thieves>>

(* spawn with new_thief_slot.                                              *)
SpawnFresh ==
  /\ opc = "idle" /\ Len(tokens) < Capacity
  /\ recycle = <<>>
  /\ \E b \in Boxes, s \in Slots :
       /\ Unused(s)
       /\ Push(b, s)
       /\ flag' = [flag EXCEPT ![s] = THIEF_NONE]
  /\ UNCHANGED <<recycle, owner, thieves>>

(* A sync is for the newest token; the one below a leapfrog goes on in     *)
(* LoadAgain.                                                              *)
CanSync == opc = "idle" /\ tokens # <<>> /\ Newest(tokens).slot \notin waiting

(* sync whose pop succeeds: the slot is recycled, the box released and the *)
(* task executed by the owner.                                             *)
SyncPopped ==
  /\ CanSync /\ queue # <<>>
  /\ queue' = Older(queue)
  /\ recycle' = Append(recycle, Newest(tokens).slot)
  /\ io' = [io EXCEPT ![Newest(tokens).box] = "free"]
  /\ tokens' = Older(tokens)
  /\ UNCHANGED <<flag, owner, thieves>>

(* sync whose pop finds nothing.                                           *)
SyncStolen ==
  /\ CanSync /\ queue = <<>>
  /\ opc' = "spin"
  /\ UNCHANGED <<queue, flag, io, tokens, recycle, taken, acquired, waiting,
                 thieves>>

(* The first, relaxed load of the flag, until it is not THIEF_NONE.        *)
LoadFirst ==
  /\ opc = "spin"
  /\ LET tkn == Newest(tokens)
         seen == flag[tkn.slot]
     IN  \/ /\ seen = THIEF_NONE
            /\ UNCHANGED <<opc, waiting, acquired>>
         \/ /\ seen = THIEF_FINISHED
            /\ opc' = "reset" /\ acquired' = ~WeakLoads
            /\ UNCHANGED waiting
         \/ /\ seen \in Thieves
            /\ opc' = "idle" /\ waiting' = waiting \cup {tkn.slot}
            /\ UNCHANGED acquired
  /\ UNCHANGED <<queue, flag, io, tokens, recycle, taken, thieves>>

(* The loads of the leapfrog loop acquire.  One that finds the thief still *)
(* at work changes nothing.                                                *)
LoadAgain ==
  /\ opc = "idle" /\ tokens # <<>> /\ Newest(tokens).slot \in waiting
  /\ flag[Newest(tokens).slot] = THIEF_FINISHED
  /\ opc' = "reset" /\ acquired' = TRUE
  /\ waiting' = waiting \ {Newest(tokens).slot}
  /\ UNCHANGED <<queue, flag, io, tokens, recycle, taken, thieves>>

(* Mutant of Reset: the slot is recycled too, though its flag may belong   *)
(* to a thief.                                                             *)
ResetRecycles ==
  /\ opc = "reset"
  /\ opc' = "output" /\ taken' = Newest(tokens)
  /\ recycle' = Append(recycle, Newest(tokens).slot)
  /\ tokens' = Older(tokens)
  /\ UNCHANGED <<queue, flag, io, acquired, waiting, thieves>>

(* tkn.thief.store(THIEF_NONE); the slot goes with its token.              *)
Reset ==
  /\ opc = "reset"
  /\ opc' = "output" /\ taken' = Newest(tokens)
  /\ flag' = [flag EXCEPT ![Newest(tokens).slot] = THIEF_NONE]
  /\ tokens' = Older(tokens)
  /\ UNCHANGED <<queue, io, recycle, acquired, waiting, thieves>>

(* What arena.take reads from the box: after an acquiring load what the    *)
(* thief wrote, else possibly what the owner or the thief wrote before.    *)
Readable(b) == IF acquired THEN {io[b]} ELSE {"input", "empty", io[b]}

(* arena.take and take_output, which panics if there is no output.         *)
TakeOutput ==
  /\ opc = "output"
  /\ \E seen \in Readable(taken.box) :
       opc' = IF seen = "output" THEN "idle" ELSE "panicked"
  /\ io' = [io EXCEPT ![taken.box] = "free"]
  /\ taken' = None /\ acquired' = FALSE
  /\ UNCHANGED <<queue, flag, tokens, recycle, waiting, thieves>>

------------------------------------------------------------------------------
(* The thieves: steal_work                                                 *)

ThiefAt(p, from, to) == tpc[p] = from /\ tpc' = [tpc EXCEPT ![p] = to]

(* Steal::Empty or Steal::Retry.                                           *)
StealNothing(p) == tpc[p] = "idle" /\ UNCHANGED vars

(* Mutants of Steal: the entry stays in the deque, or is its newest.       *)
StealNewest(p) ==
  /\ queue # <<>>
  /\ ThiefAt(p, "idle", "announce")
  /\ loot' = [loot EXCEPT ![p] = Newest(queue)]
  /\ queue' = Older(queue)
  /\ UNCHANGED <<flag, io, tokens, recycle, owner>>

StealCopies(p) ==
  /\ queue # <<>>
  /\ ThiefAt(p, "idle", "announce")
  /\ loot' = [loot EXCEPT ![p] = Head(queue)]
  /\ UNCHANGED <<queue, flag, io, tokens, recycle, owner>>

(* Steal::Success.                                                         *)
Steal(p) ==
  /\ queue # <<>>
  /\ ThiefAt(p, "idle", "announce")
  /\ loot' = [loot EXCEPT ![p] = Head(queue)]
  /\ queue' = Tail(queue)
  /\ UNCHANGED <<flag, io, tokens, recycle, owner>>

(* thief_slot.store(self.id)                                               *)
Announce(p) ==
  /\ ThiefAt(p, "announce", "input")
  /\ flag' = [flag EXCEPT ![loot[p].slot] = p]
  /\ UNCHANGED <<queue, io, tokens, recycle, owner, loot>>

(* execute_stolen in the box: the input is taken,                          *)
TakeInput(p) ==
  /\ ThiefAt(p, "input", "run")
  /\ io' = [io EXCEPT ![loot[p].box] = "empty"]
  /\ UNCHANGED <<queue, flag, tokens, recycle, owner, loot>>

(* Mutant of WriteOutput: FINISHED is stored before the output.            *)
WriteOutputLate(p) ==
  /\ ThiefAt(p, "run", "finish")
  /\ flag' = [flag EXCEPT ![loot[p].slot] = THIEF_FINISHED]
  /\ UNCHANGED <<queue, io, tokens, recycle, owner, loot>>

(* the function runs and its output is written.                            *)
WriteOutput(p) ==
  /\ ThiefAt(p, "run", "finish")
  /\ io' = [io EXCEPT ![loot[p].box] = "output"]
  /\ UNCHANGED <<queue, flag, tokens, recycle, owner, loot>>

(* Mutant of Finish: the store is forgotten.                               *)
FinishSilently(p) ==
  /\ ThiefAt(p, "finish", "idle")
  /\ loot' = [loot EXCEPT ![p] = None]
  /\ UNCHANGED <<queue, flag, io, tokens, recycle, owner>>

(* thief_slot.store(THIEF_FINISHED)                                        *)
Finish(p) ==
  /\ ThiefAt(p, "finish", "idle")
  /\ flag' = [flag EXCEPT ![loot[p].slot] = THIEF_FINISHED]
  /\ loot' = [loot EXCEPT ![p] = None]
  /\ UNCHANGED <<queue, io, tokens, recycle, owner>>

------------------------------------------------------------------------------
OwnerInside == LoadFirst \/ Reset \/ TakeOutput
Sync        == SyncPopped \/ SyncStolen \/ LoadAgain
ThiefInside(p) == Announce(p) \/ TakeInput(p) \/ WriteOutput(p) \/ Finish(p)

Next == \/ SpawnRecycled \/ SpawnFresh \/ OwnerInside \/ Sync
        \/ \E p \in Thieves : Steal(p) \/ StealNothing(p) \/ ThiefInside(p)

Spec == Init /\ [][Next]_vars

(* The owner goes on inside of sync, looks at the flag again after each    *)
(* attempt to leapfrog, and comes to the syncs of what it has spawned; a   *)
(* thief runs what it has stolen to the end.  That it steals is not        *)
(* assumed.                                                                *)
FairSpec == /\ Spec
            /\ WF_vars(OwnerInside) /\ WF_vars(Sync)
            /\ \A p \in Thieves : WF_vars(ThiefInside(p))

------------------------------------------------------------------------------
(* Properties                                                              *)

Gone      == Len(tokens) - Len(queue)     \* how many tokens were stolen
Stolen(i) == i \in 1 .. Gone
Slotted   == {tokens[i].slot : i \in 1 .. Len(tokens)}

(* The assertion of sync: what pop returns is the task of the token, its   *)
(* input still in place; and when pop finds nothing it was stolen, so that *)
(* some thief will write the flag sync waits for.                          *)
SyncFindsOwnTask ==
  CanSync => IF queue # <<>>
             THEN /\ Newest(queue) = Newest(tokens)
                  /\ io[Newest(tokens).box] = "input"
             ELSE \/ flag[Newest(tokens).slot] = THIEF_FINISHED
                  \/ \E p \in Thieves : loot[p] = Newest(tokens)

(* A box is a plain allocation that owner and thief share through a raw    *)
(* pointer: while a thief works in it, it is not released, not in the      *)
(* deque, not being taken by sync, and no other thief has it.              *)
BoxExclusive ==
  \A p \in Thieves : loot[p] # None =>
    /\ io[loot[p].box] # "free"
    /\ \A i \in 1 .. Len(queue) : queue[i].box # loot[p].box
    /\ taken.box # loot[p].box
    /\ \A q \in Thieves \ {p} : loot[q].box # loot[p].box

(* take_output finds the output: its panic is never reached.               *)
OutputThere == opc # "panicked"

(* A sync that waits for a thief returns, unless the tasks that are run    *)
(* meanwhile go on spawning for ever.                                      *)
Spawning == SpawnRecycled \/ SpawnFresh

StolenSyncReturns ==
  \/ []<><<Spawning>>_vars
  \/ \A s \in Slots : s \in waiting ~> s \notin waiting

(* As the split deque, this one is a stack of tasks for its owner and a    *)
(* queue for its thieves, the flags telling stolen tasks from done ones.   *)
Index == 0 .. Capacity - 1

BoxOf(i) == IF i < Len(tokens) THEN tokens[i + 1].box ELSE NoBox

StatusOf(i) == IF i >= Len(tokens) THEN "free"
               ELSE IF ~Stolen(i + 1) THEN "ready"
               ELSE IF flag[tokens[i + 1].slot] = THIEF_FINISHED THEN "done"
               ELSE "stolen"

AbsTasks    == [i \in Index |-> BoxOf(i)]
AbsStatuses == [i \in Index |-> StatusOf(i)]

Abstract == INSTANCE WorkDeque WITH
  Tasks  <- Boxes,
  NoTask <- NoBox,
  depth  <- Len(tokens),
  task   <- AbsTasks,
  status <- AbsStatuses

ImplementsWorkDeque == Abstract!AbsSpec

------------------------------------------------------------------------------
(* The inductive invariant                                                 *)

(* The deque holds the newest tokens; tokens have boxes and slots of their *)
(* own.                                                                    *)
TokenInv ==
  /\ Len(tokens) <= Capacity
  /\ Len(queue) <= Len(tokens)
  /\ \A i \in 1 .. Len(queue) : queue[i] = tokens[Gone + i]
  /\ \A i, j \in 1 .. Len(tokens) :
       i # j => /\ tokens[i].box # tokens[j].box
                /\ tokens[i].slot # tokens[j].slot
  /\ \A i \in 1 .. Len(tokens) : io[tokens[i].box] # "free"

(* A flag nobody has written yet: of a recycled slot, or of a task that is *)
(* still in the deque.                                                     *)
SlotInv ==
  /\ \A i \in 1 .. Len(recycle) :
       /\ flag[recycle[i]] = THIEF_NONE
       /\ recycle[i] \notin Slotted
       /\ \A j \in 1 .. Len(recycle) : i # j => recycle[i] # recycle[j]
  /\ \A i \in 1 .. Len(tokens) : ~Stolen(i) =>
       flag[tokens[i].slot] = THIEF_NONE /\ io[tokens[i].box] = "input"

(* A stolen task is with its thief, or finished.                           *)
ThiefInv ==
  /\ \A i \in 1 .. Len(tokens) : Stolen(i) =>
       \/ \E p \in Thieves : loot[p] = tokens[i]
       \/ /\ flag[tokens[i].slot] = THIEF_FINISHED
          /\ io[tokens[i].box] = "output"
  /\ \A p \in Thieves :
       /\ tpc[p] = "idle" <=> loot[p] = None
       /\ loot[p] # None => \E i \in 1 .. Gone : loot[p] = tokens[i]
       /\ tpc[p] = "announce" => flag[loot[p].slot] = THIEF_NONE
       /\ tpc[p] \in {"input", "run", "finish"} => flag[loot[p].slot] = p
       /\ tpc[p] \in {"announce", "input"} => io[loot[p].box] = "input"
       /\ tpc[p] = "run" => io[loot[p].box] = "empty"
       /\ tpc[p] = "finish" => io[loot[p].box] = "output"
       /\ \A q \in Thieves \ {p} : loot[p] # None => loot[q] # loot[p]

(* Where the owner is in a sync.                                           *)
OwnerInv ==
  /\ \A s \in waiting : /\ flag[s] # THIEF_NONE
                         /\ \E i \in 1 .. Gone : tokens[i].slot = s
  /\ opc \in {"spin", "reset"} =>
       tokens # <<>> /\ queue = <<>> /\ Newest(tokens).slot \notin waiting
  /\ opc = "reset" => flag[Newest(tokens).slot] = THIEF_FINISHED
  /\ opc = "output" <=> taken # None
  /\ taken # None =>
       /\ io[taken.box] = "output"
       /\ \A i \in 1 .. Len(tokens) : tokens[i].box # taken.box
  /\ ~WeakLoads => /\ opc \in {"reset", "output"} => acquired
                   /\ opc # "panicked"

ChaseInv == TypeOK /\ TokenInv /\ SlotInv /\ ThiefInv /\ OwnerInv
=============================================================================
