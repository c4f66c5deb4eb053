-------------------------- MODULE MCSplitDequeLive --------------------------
(***************************************************************************)
(* SplitDeque driven by a fork-join program that ends: the owner spawns at *)
(* most MaxSpawns tasks and syncs every token it got.  What must happen    *)
(* then is that every sync returns.                                        *)
(***************************************************************************)
EXTENDS SplitDeque

CONSTANT MaxSpawns      \* bound on the spawns of the program

ASSUME MaxSpawnsAssumption == MaxSpawns \in Nat

VARIABLE spawns         \* spawns the program still has to do, at most

liveVars == <<vars, spawns>>

LiveInit == Init /\ spawns = MaxSpawns

Spawn == /\ spawns > 0
         /\ (\E t \in Tasks : Push(t)) \/ Overflow
         /\ spawns' = spawns - 1

Others == /\ \/ OwnerInside \/ Sync
             \/ \E p \in Thieves : ThiefInside(p) \/ ThiefTry(p)
          /\ UNCHANGED spawns

LiveNext == Spawn \/ Others

(* Threads are scheduled fairly: the owner goes on inside an operation and *)
(* syncs what it spawned, a thief that won a task runs it to the end (the  *)
(* task ends).  Nothing is assumed of thieves that only look for work, nor *)
(* of the program's decision to spawn.                                     *)
LiveSpec == /\ LiveInit /\ [][LiveNext]_liveVars
            /\ WF_liveVars(OwnerInside /\ UNCHANGED spawns)
            /\ WF_liveVars(Sync /\ UNCHANGED spawns)
            /\ \A p \in Thieves :
                 WF_liveVars(ThiefInside(p) /\ UNCHANGED spawns)

(* Whatever thieves do, the program ends with an empty deque and the owner *)
(* outside every operation (or with the overflow panic): no spin on a flag *)
(* no thief will write, no sync lost between split and tail.               *)
EverySyncReturns == <>[](opc = "panicked" \/ (opc = "idle" /\ head = 0))
==============================================================================
