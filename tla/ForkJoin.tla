------------------------------ MODULE ForkJoin ------------------------------
(***************************************************************************)
(* What Lace promises to those who write tasks: the meaning of a fork-join *)
(* program, with neither workers nor deques nor thieves.  A body goes      *)
(* through its operations in order.  A task that it spawns may start at    *)
(* any time after; one that it calls starts at once; and it goes on after  *)
(* a call or a sync only when that task has returned.  Each task starts    *)
(* once.  A panic takes away running tasks, and whoever waits for one of   *)
(* these waits forever.  WorkerPool implements this module.                *)
(***************************************************************************)
EXTENDS Naturals, Sequences

CONSTANTS Tasks,        \* the tasks
          Mains,        \* those that a caller may run
          Program,      \* Program[t]: the operations of t's body
          Panicking     \* the tasks whose body may panic

VARIABLES state,        \* "fresh", "forked", "running", "ended" or "lost"
          place         \* the operation a running body is at, 0 for others

fjVars == <<state, place>>

FJInit == /\ state = [t \in Tasks |-> "fresh"]
          /\ place = [t \in Tasks |-> 0]

(* What t called or synced last has returned.                              *)
Ready(t) ==
  /\ state[t] = "running"
  /\ LET k == place[t] - 1
     IN  k >= 1 /\ Program[t][k].do # "spawn" =>
           state[Program[t][k].of] = "ended"

AtOp(t, o) == /\ Ready(t) /\ place[t] <= Len(Program[t])
              /\ Program[t][place[t]].do = o

Named(t) == Program[t][place[t]].of

(* One of the main tasks at a time.                                        *)
StartMain(t) ==
  /\ state[t] = "fresh" /\ \A u \in Mains : state[u] # "running"
  /\ state' = [state EXCEPT ![t] = "running"]
  /\ place' = [place EXCEPT ![t] = 1]

Fork(t) ==
  /\ AtOp(t, "spawn") /\ state[Named(t)] = "fresh"
  /\ state' = [state EXCEPT ![Named(t)] = "forked"]
  /\ place' = [place EXCEPT ![t] = @ + 1]

(* A call starts its task, and so does a sync whose task nobody has taken. *)
Inline(t, o, s) ==
  /\ AtOp(t, o) /\ state[Named(t)] = s
  /\ state' = [state EXCEPT ![Named(t)] = "running"]
  /\ place' = [place EXCEPT ![t] = @ + 1, ![Named(t)] = 1]

Joined(t) ==
  /\ AtOp(t, "sync") /\ state[Named(t)] = "ended"
  /\ place' = [place EXCEPT ![t] = @ + 1]
  /\ UNCHANGED state

(* A forked task starts on its own.                                        *)
Take(t) ==
  /\ state[t] = "forked"
  /\ state' = [state EXCEPT ![t] = "running"]
  /\ place' = [place EXCEPT ![t] = 1]

End(t) ==
  /\ Ready(t) /\ place[t] > Len(Program[t])
  /\ state' = [state EXCEPT ![t] = "ended"]
  /\ place' = [place EXCEPT ![t] = 0]

(* t panics, by itself or because a deque is full at its spawn, and takes  *)
(* the bodies below it on its stack along.                                 *)
Fail(t) ==
  /\ Ready(t)
  /\ t \in Panicking \/ AtOp(t, "spawn")
  /\ \E S \in SUBSET {u \in Tasks : state[u] = "running"} :
       /\ t \in S
       /\ state' = [u \in Tasks |-> IF u \in S THEN "lost" ELSE state[u]]
       /\ place' = [u \in Tasks |-> IF u \in S THEN 0 ELSE place[u]]

FJNext == \/ \E t \in Mains : StartMain(t)
          \/ \E t \in Tasks :
               \/ Fork(t) \/ Inline(t, "call", "fresh")
               \/ Inline(t, "sync", "forked") \/ Joined(t)
               \/ Take(t) \/ End(t) \/ Fail(t)

FJSpec == FJInit /\ [][FJNext]_fjVars
==============================================================================
