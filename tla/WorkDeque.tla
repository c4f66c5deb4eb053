------------------------------ MODULE WorkDeque ------------------------------
(***************************************************************************)
(* What the work-stealing deque of lace promises its callers: a stack of   *)
(* tasks with one owner, who pushes at the top and settles the top, and    *)
(* thieves, who take the oldest task nobody took yet.  Each pushed task is *)
(* either run by the owner (Take) or stolen, finished and handed back      *)
(* (Steal, Finish, Reclaim): exactly one of the two, and always the task   *)
(* that was pushed at that depth.  SplitDeque implements this module.      *)
(***************************************************************************)
EXTENDS Naturals

CONSTANTS Tasks,      \* the tasks that can be pushed
          NoTask,     \* no task
          Capacity    \* how many tasks fit (BUFFER_SIZE)

Places == 0 .. Capacity - 1

VARIABLES depth,      \* number of tasks pushed and not settled
          task,       \* task[i] is the task pushed at depth i
          status      \* "free", "ready", "stolen" or "done", per depth

absVars == <<depth, task, status>>

AbsTypeOK == /\ depth \in 0 .. Capacity
             /\ task \in [Places -> Tasks \cup {NoTask}]
             /\ status \in [Places -> {"free", "ready", "stolen", "done"}]

AbsInit == /\ depth = 0
           /\ task = [i \in Places |-> NoTask]
           /\ status = [i \in Places |-> "free"]

(* The owner pushes t on top. *)
AbsPush(t) == /\ depth < Capacity
              /\ depth' = depth + 1
              /\ task' = [task EXCEPT ![depth] = t]
              /\ status' = [status EXCEPT ![depth] = "ready"]

(* The owner removes the top, whose status must be s. *)
Settle(s) == /\ depth > 0
             /\ status[depth - 1] = s
             /\ depth' = depth - 1
             /\ task' = [task EXCEPT ![depth - 1] = NoTask]
             /\ status' = [status EXCEPT ![depth - 1] = "free"]

AbsTake    == Settle("ready")    \* nobody stole the top: the owner runs it
AbsReclaim == Settle("done")     \* the thief of the top finished it

(* A thief takes the oldest task that is still ready. *)
AbsSteal == \E i \in Places :
               /\ status[i] = "ready"
               /\ \A j \in 0 .. i - 1 : status[j] # "ready"
               /\ status' = [status EXCEPT ![i] = "stolen"]
               /\ UNCHANGED <<depth, task>>

(* Thieves finish in any order. *)
AbsFinish == \E i \in Places :
               /\ status[i] = "stolen"
               /\ status' = [status EXCEPT ![i] = "done"]
               /\ UNCHANGED <<depth, task>>

AbsNext == \/ \E t \in Tasks : AbsPush(t)
           \/ AbsTake
           \/ AbsReclaim
           \/ AbsSteal
           \/ AbsFinish

AbsSpec == AbsInit /\ [][AbsNext]_absVars
==============================================================================
