----------------------------- MODULE SplitDeque -----------------------------
(***************************************************************************)
(* The split deque of lace (src/lace/src/lace_deque.rs) with the parts of  *)
(* Worker that drive it (spawn, sync, sync_slow and steal_work in          *)
(* src/lace/src/lib.rs): one owner, any number of thieves, one action per  *)
(* access to shared memory.  Private computation is part of the access     *)
(* before or after it.                                                     *)
(*                                                                         *)
(* tail and split are the two halves of the atomic word split_tail: one    *)
(* step reads or writes both.  Indices below tail are stolen, tail..split  *)
(* is for thieves, split..head is the owner's.  A thief here is one        *)
(* steal_work frame of some other worker: a worker that leapfrogs inside a *)
(* stolen task is another thief.                                           *)
(***************************************************************************)
EXTENDS Naturals

CONSTANTS Thieves,        \* steal_work frames that can be in flight
          Tasks,          \* the tasks the owner may spawn
          NoTask,         \* no task
          THIEF_NONE,     \* thief flag: no thief has written its id
          THIEF_FINISHED, \* thief flag: the thief has written the output
          BufferSize,     \* buffer.size
          InPlace         \* TRUE for feature unsafe_steal: run in the slot

ASSUME SizeAssumption == BufferSize \in Nat \ {0}
ASSUME FlagAssumption == /\ THIEF_NONE \notin Thieves
                         /\ THIEF_FINISHED \notin Thieves
                         /\ THIEF_NONE # THIEF_FINISHED
ASSUME TaskAssumption == NoTask \notin Tasks
ASSUME ModeAssumption == InPlace \in BOOLEAN

Index == 0 .. BufferSize - 1
Bound == 0 .. BufferSize

VARIABLES
  tail, split,     \* split_tail, one atomic word
  splitreq,        \* a thief asked for a larger shared part
  allstolen,       \* shared copy of oallstolen
  slot,            \* buffer.tasks
  flag,            \* buffer.thief
  head,            \* DequeOwned.head
  osplit,          \* DequeOwned.split
  oallstolen,      \* DequeOwned.allstolen
  opc,             \* where the owner is
  rt, rs, rn,      \* the owner's t, s and new_s in shrink_shared
  token,           \* token[i]: the task whose SpawnToken is for depth i
  waiting,         \* depths whose sync is in the leapfrog loop
  tpc,             \* where each thief is
  tt, ts,          \* each thief's t and s in steal_common
  got              \* the task each thief runs

word    == <<tail, split>>
flags   == <<splitreq, allstolen>>
buffer  == <<slot, flag>>
owned   == <<head, osplit, oallstolen>>
regs    == <<rt, rs, rn>>
client  == <<token, waiting>>
thief   == <<tpc, tt, ts, got>>
vars    == <<word, flags, buffer, owned, opc, regs, client, thief>>

Empty      == [task |-> NoTask, io |-> "none"]
Input(t)   == [task |-> t, io |-> "input"]
Running(t) == [task |-> t, io |-> "running"]
Output(t)  == [task |-> t, io |-> "output"]

OwnerPC == {"idle", "publish", "open", "ackLoad", "ackClear",
            "pushed", "pushGrow", "pushClear",
            "shrink", "move", "fix", "seal",
            "popped", "popGrow", "popClear", "take",
            "spin", "reclaim", "reset", "takeOut", "panicked"}

ThiefPC == {"idle", "load", "cas", "claim", "take", "run", "finish",
            "reqLoad", "reqSet"}

(* The one type invariant: every variable of deque, owner and thieves.      *)
TypeOK ==
  /\ tail \in Bound /\ split \in Bound
  /\ splitreq \in BOOLEAN /\ allstolen \in BOOLEAN
  /\ slot \in [Index -> [task : Tasks \cup {NoTask},
                         io   : {"none", "input", "running", "output"}]]
  /\ flag \in [Index -> Thieves \cup {THIEF_NONE, THIEF_FINISHED}]
  /\ head \in Bound /\ osplit \in Bound /\ oallstolen \in BOOLEAN
  /\ opc \in OwnerPC
  /\ rt \in Bound /\ rs \in Bound /\ rn \in Bound
  /\ token \in [Index -> Tasks \cup {NoTask}]
  /\ waiting \in SUBSET Index
  /\ tpc \in [Thieves -> ThiefPC]
  /\ tt \in [Thieves -> Bound] /\ ts \in [Thieves -> Bound]
  /\ got \in [Thieves -> Tasks \cup {NoTask}]

Init ==
  /\ tail = 0 /\ split = 0
  /\ splitreq = FALSE /\ allstolen = FALSE
  /\ slot = [i \in Index |-> Empty]
  /\ flag = [i \in Index |-> THIEF_NONE]
  /\ head = 0 /\ osplit = 0 /\ oallstolen = FALSE
  /\ opc = "idle"
  /\ rt = 0 /\ rs = 0 /\ rn = 0
  /\ token = [i \in Index |-> NoTask]
  /\ waiting = {}
  /\ tpc = [p \in Thieves |-> "idle"]
  /\ tt = [p \in Thieves |-> 0] /\ ts = [p \in Thieves |-> 0]
  /\ got = [p \in Thieves |-> NoTask]

OwnerAt(from, to) == opc = from /\ opc' = to

(* The locals of shrink_shared go out of scope.                            *)
DropRegs == rt' = 0 /\ rs' = 0 /\ rn' = 0

(* set_shared_split: xor with old ^ new gives new only if split is old;    *)
(* any other value is left open (feature unsafe_atomic stores new).        *)
SetSharedSplit(old, new) == split' \in IF split = old THEN {new} ELSE Bound

------------------------------------------------------------------------------
(* push                                                                    *)

(* Mutant of Push: the owner takes "nothing private" for "all stolen".      *)
PushNoPrivate(t) ==
  /\ head < BufferSize
  /\ OwnerAt("idle",
             IF oallstolen \/ osplit = head THEN "publish" ELSE "pushed")
  /\ slot' = [slot EXCEPT ![head] = Input(t)]
  /\ token' = [token EXCEPT ![head] = t]
  /\ head' = head + 1
  /\ UNCHANGED <<word, flags, flag, osplit, oallstolen, regs, waiting, thief>>

(* buffer.put, head += 1 and the token the caller gets.                    *)
Push(t) ==
  /\ head < BufferSize
  /\ OwnerAt("idle", IF oallstolen THEN "publish" ELSE "pushed")
  /\ slot' = [slot EXCEPT ![head] = Input(t)]
  /\ token' = [token EXCEPT ![head] = t]
  /\ head' = head + 1
  /\ UNCHANGED <<word, flags, flag, osplit, oallstolen, regs, waiting, thief>>

(* The check at the start of push, and task_stack_overflow.                *)
Overflow ==
  /\ head >= BufferSize
  /\ OwnerAt("idle", "panicked")
  /\ UNCHANGED <<word, flags, buffer, owned, regs, client, thief>>

(* Mutant of Publish: the word says that the new task is stolen, too.       *)
PublishStolen ==
  /\ OwnerAt("publish", "open")
  /\ tail' = head
  /\ split' = head
  /\ UNCHANGED <<flags, buffer, owned, regs, client, thief>>

(* push_allstolen: split_tail.store((head - 1, head)) *)
Publish ==
  /\ OwnerAt("publish", "open")
  /\ tail' = head - 1
  /\ split' = head
  /\ UNCHANGED <<flags, buffer, owned, regs, client, thief>>

(* push_allstolen: allstolen.store(false) *)
Open ==
  /\ OwnerAt("open", "ackLoad")
  /\ allstolen' = FALSE
  /\ UNCHANGED <<word, splitreq, buffer, owned, regs, client, thief>>

(* push_allstolen: the load of splitreq and, when no store follows, the    *)
(* private o_split and o_allstolen.                                        *)
AckLoad ==
  /\ OwnerAt("ackLoad", IF splitreq THEN "ackClear" ELSE "idle")
  /\ osplit' = IF splitreq THEN osplit ELSE head
  /\ oallstolen' = splitreq
  /\ UNCHANGED <<word, flags, buffer, head, regs, client, thief>>

AckClear ==
  /\ OwnerAt("ackClear", "idle")
  /\ splitreq' = FALSE
  /\ osplit' = head
  /\ oallstolen' = FALSE
  /\ UNCHANGED <<word, allstolen, buffer, head, regs, client, thief>>

(* The load of splitreq that decides whether push or pop grows the shared  *)
(* part.                                                                   *)
LoadReq(at, grow, done) ==
  /\ OwnerAt(at, IF splitreq THEN grow ELSE done)
  /\ UNCHANGED <<word, flags, buffer, owned, regs, client, thief>>

(* Mutant of GrowShared: the middle rounded down.                           *)
GrowSharedDown(at, to) ==
  /\ OwnerAt(at, to)
  /\ LET new_s == (osplit + head) \div 2
     IN  SetSharedSplit(osplit, new_s) /\ osplit' = new_s
  /\ UNCHANGED <<tail, flags, buffer, head, oallstolen, regs, client, thief>>

(* grow_shared: split := (split + head + 1) / 2 *)
GrowShared(at, to) ==
  /\ OwnerAt(at, to)
  /\ LET new_s == (osplit + head + 1) \div 2
     IN  SetSharedSplit(osplit, new_s) /\ osplit' = new_s
  /\ UNCHANGED <<tail, flags, buffer, head, oallstolen, regs, client, thief>>

(* grow_shared: splitreq.store(false) *)
GrowClear(at, to) ==
  /\ OwnerAt(at, to)
  /\ splitreq' = FALSE
  /\ UNCHANGED <<word, allstolen, buffer, owned, regs, client, thief>>

PushReq   == LoadReq("pushed", "pushGrow", "idle")
PushGrow  == GrowShared("pushGrow", "pushClear")
PushClear == GrowClear("pushClear", "idle")

------------------------------------------------------------------------------
(* sync: sync_fast, else pop.  SpawnTokens are used in LIFO order, so sync *)
(* always concerns depth head - 1, which is not already being waited for.  *)

CanSync == head > 0 /\ head - 1 \notin waiting

(* Mutant of SyncFast: the bound on private work off by one.                *)
SyncFastShared ==
  /\ CanSync /\ ~splitreq /\ osplit <= head
  /\ OwnerAt("idle", "take")
  /\ head' = head - 1
  /\ UNCHANGED <<word, flags, buffer, osplit, oallstolen, regs, client, thief>>

(* sync_fast: no request and private work: head -= 1 *)
SyncFast ==
  /\ CanSync /\ ~splitreq /\ osplit < head
  /\ OwnerAt("idle", "take")
  /\ head' = head - 1
  /\ UNCHANGED <<word, flags, buffer, osplit, oallstolen, regs, client, thief>>

(* sync_fast gives None; pop finds o_allstolen, or no private work, or     *)
(* private work (head -= 1).                                               *)
SyncSlow ==
  /\ CanSync /\ (splitreq \/ osplit >= head)
  /\ OwnerAt("idle", IF oallstolen THEN "spin"
                     ELSE IF osplit = head THEN "shrink" ELSE "popped")
  /\ head' = IF oallstolen \/ osplit = head THEN head ELSE head - 1
  /\ UNCHANGED <<word, flags, buffer, osplit, oallstolen, regs, client, thief>>

(* shrink_shared: (t, s) = split_tail *)
ShrinkLoad ==
  /\ IF tail # split
     THEN /\ OwnerAt("shrink", "move")
          /\ rt' = tail /\ rs' = split /\ rn' = (tail + split) \div 2
     ELSE OwnerAt("shrink", "seal") /\ UNCHANGED regs
  /\ UNCHANGED <<word, flags, buffer, owned, client, thief>>

(* Mutant of ShrinkMove: the private o_split keeps its old value.           *)
ShrinkMoveForgets ==
  /\ opc = "move"
  /\ SetSharedSplit(rs, rn)
  /\ \/ /\ tail = rs
        /\ opc' = "seal"
        /\ DropRegs
        /\ UNCHANGED head
     \/ /\ tail # rs /\ tail > rn
        /\ opc' = "fix"
        /\ rt' = tail
        /\ UNCHANGED <<head, rs, rn>>
     \/ /\ tail # rs /\ tail <= rn
        /\ opc' = "popped"
        /\ head' = head - 1
        /\ DropRegs
  /\ UNCHANGED <<osplit, tail, flags, buffer, oallstolen, client, thief>>

(* shrink_shared: fetch_xor moves split to new_s and returns the tail of   *)
(* that instant: everything stolen, or too much stolen, or done.           *)
ShrinkMove ==
  /\ opc = "move"
  /\ SetSharedSplit(rs, rn)
  /\ \/ /\ tail = rs
        /\ opc' = "seal"
        /\ DropRegs
        /\ UNCHANGED <<head, osplit>>
     \/ /\ tail # rs /\ tail > rn
        /\ opc' = "fix"
        /\ rt' = tail
        /\ UNCHANGED <<head, osplit, rs, rn>>
     \/ /\ tail # rs /\ tail <= rn
        /\ opc' = "popped"
        /\ osplit' = rn
        /\ head' = head - 1
        /\ DropRegs
  /\ UNCHANGED <<tail, flags, buffer, oallstolen, client, thief>>

(* Mutant of ShrinkFix: o_split gets the first new split, not the second.   *)
ShrinkFixStale ==
  /\ OwnerAt("fix", "popped")
  /\ SetSharedSplit(rn, (rt + rs) \div 2)
  /\ osplit' = rn
  /\ head' = head - 1
  /\ DropRegs
  /\ UNCHANGED <<tail, flags, buffer, oallstolen, client, thief>>

(* shrink_shared: thieves got past new_s, move split again.                *)
ShrinkFix ==
  /\ OwnerAt("fix", "popped")
  /\ LET newer_s == (rt + rs) \div 2
     IN  SetSharedSplit(rn, newer_s) /\ osplit' = newer_s
  /\ head' = head - 1
  /\ DropRegs
  /\ UNCHANGED <<tail, flags, buffer, oallstolen, client, thief>>

(* shrink_shared: allstolen.store(true); pop returns Stolen(head - 1).     *)
Seal ==
  /\ OwnerAt("seal", "spin")
  /\ allstolen' = TRUE
  /\ oallstolen' = TRUE
  /\ UNCHANGED <<word, splitreq, buffer, head, osplit, regs, client, thief>>

PopReq   == LoadReq("popped", "popGrow", "take")
PopGrow  == GrowShared("popGrow", "popClear")
PopClear == GrowClear("popClear", "take")

(* buffer.take(head): the owner runs the task it spawned.                  *)
TakeWork ==
  /\ OwnerAt("take", "idle")
  /\ slot' = [slot EXCEPT ![head] = Empty]
  /\ token' = [token EXCEPT ![head] = NoTask]
  /\ UNCHANGED <<word, flags, flag, owned, regs, waiting, thief>>

(* sync_slow: spin until the thief has written its id, then leapfrog (idle *)
(* with depth head - 1 in waiting) or, when it has finished, reclaim.      *)
SpinFlag ==
  /\ opc = "spin"
  /\ flag[head - 1] # THIEF_NONE
  /\ IF flag[head - 1] = THIEF_FINISHED
     THEN opc' = "reclaim" /\ UNCHANGED waiting
     ELSE opc' = "idle" /\ waiting' = waiting \cup {head - 1}
  /\ UNCHANGED <<word, flags, buffer, owned, regs, token, thief>>

(* sync_slow: back from a leapfrog, which pushed and synced on this deque, *)
(* the loop finds the flag FINISHED.                                       *)
LoopFlag ==
  /\ head > 0 /\ head - 1 \in waiting
  /\ flag[head - 1] = THIEF_FINISHED
  /\ OwnerAt("idle", "reclaim")
  /\ waiting' = waiting \ {head - 1}
  /\ UNCHANGED <<word, flags, buffer, owned, regs, token, thief>>

(* Mutant of Reclaim: allstolen is set in the private copy only.            *)
ReclaimPrivate ==
  /\ OwnerAt("reclaim", "reset")
  /\ head' = head - 1
  /\ oallstolen' = TRUE
  /\ UNCHANGED <<word, flags, buffer, osplit, regs, client, thief>>

(* pop_stolen: head -= 1 and, unless already set, allstolen.store(true)    *)
Reclaim ==
  /\ OwnerAt("reclaim", "reset")
  /\ head' = head - 1
  /\ IF oallstolen THEN UNCHANGED allstolen ELSE allstolen' = TRUE
  /\ oallstolen' = TRUE
  /\ UNCHANGED <<word, splitreq, buffer, osplit, regs, client, thief>>

(* Mutant of ResetFlag: the flag stays FINISHED.                            *)
ResetFlagMissing ==
  /\ OwnerAt("reset", "takeOut")
  /\ UNCHANGED <<word, flags, buffer, owned, regs, client, thief>>

(* pop_stolen: thief[head].store(THIEF_NONE) *)
ResetFlag ==
  /\ OwnerAt("reset", "takeOut")
  /\ flag' = [flag EXCEPT ![head] = THIEF_NONE]
  /\ UNCHANGED <<word, flags, slot, owned, regs, client, thief>>

(* pop_stolen: buffer.take(head), whose output sync returns.               *)
TakeOutput ==
  /\ OwnerAt("takeOut", "idle")
  /\ slot' = [slot EXCEPT ![head] = Empty]
  /\ token' = [token EXCEPT ![head] = NoTask]
  /\ UNCHANGED <<word, flags, flag, owned, regs, waiting, thief>>

------------------------------------------------------------------------------
(* steal_common, steal and steal_work                                      *)

owner == <<owned, opc, regs, client>>

ThiefAt(p, from, to) == tpc[p] = from /\ tpc' = [tpc EXCEPT ![p] = to]

(* The thief's locals t and s go out of scope when steal_work returns.     *)
DropIndex(p) == tt' = [tt EXCEPT ![p] = 0] /\ ts' = [ts EXCEPT ![p] = 0]

(* allstolen is set: Steal::Empty *)
StealEmpty(p) == tpc[p] = "idle" /\ allstolen /\ UNCHANGED vars

StealBegin(p) ==
  /\ ~allstolen
  /\ ThiefAt(p, "idle", "load")
  /\ UNCHANGED <<word, flags, buffer, owner, tt, ts, got>>

StealLoad(p) ==
  /\ IF tail < split
     THEN /\ ThiefAt(p, "load", "cas")
          /\ tt' = [tt EXCEPT ![p] = tail] /\ ts' = [ts EXCEPT ![p] = split]
     ELSE ThiefAt(p, "load", "reqLoad") /\ UNCHANGED <<tt, ts>>
  /\ UNCHANGED <<word, flags, buffer, owner, got>>

(* Mutant of StealCas: tail is stored without comparing the word.           *)
StealCasBlind(p) ==
  /\ ThiefAt(p, "cas", "claim")
  /\ tail' = tt[p] + 1
  /\ ts' = [ts EXCEPT ![p] = 0]
  /\ UNCHANGED <<split, flags, buffer, owner, tt, got>>

(* compare_exchange_weak of the whole word succeeds.                       *)
StealCas(p) ==
  /\ tail = tt[p] /\ split = ts[p]
  /\ ThiefAt(p, "cas", "claim")
  /\ tail' = tail + 1
  /\ ts' = [ts EXCEPT ![p] = 0]
  /\ UNCHANGED <<split, flags, buffer, owner, tt, got>>

(* The word changed, or the weak exchange failed spuriously: Steal::Retry. *)
StealRetry(p) ==
  /\ ThiefAt(p, "cas", "idle")
  /\ DropIndex(p)
  /\ UNCHANGED <<word, flags, buffer, owner, got>>

(* thief[t].store(thief_id) *)
StealClaim(p) ==
  /\ ThiefAt(p, "claim", "take")
  /\ flag' = [flag EXCEPT ![tt[p]] = p]
  /\ UNCHANGED <<word, flags, slot, owner, tt, ts, got>>

(* buffer.take(i), or buffer.ptr(i) and execute_stolen's replace of the io *)
StealTake(p) ==
  /\ ThiefAt(p, "take", "run")
  /\ got' = [got EXCEPT ![p] = slot[tt[p]].task]
  /\ slot' = [slot EXCEPT ![tt[p]] = IF InPlace THEN Running(@.task) ELSE Empty]
  /\ UNCHANGED <<word, flags, flag, owner, tt, ts>>

(* The task has run: buffer.put(i, task) with its output.                  *)
StealPut(p) ==
  /\ ThiefAt(p, "run", "finish")
  /\ slot' = [slot EXCEPT ![tt[p]] = Output(got[p])]
  /\ got' = [got EXCEPT ![p] = NoTask]
  /\ UNCHANGED <<word, flags, flag, owner, tt, ts>>

(* steal_finished: thief[i].store(THIEF_FINISHED) *)
StealFinish(p) ==
  /\ ThiefAt(p, "finish", "idle")
  /\ flag' = [flag EXCEPT ![tt[p]] = THIEF_FINISHED]
  /\ DropIndex(p)
  /\ UNCHANGED <<word, flags, slot, owner, got>>

(* Nothing to steal: ask the owner for more, once.                         *)
RequestLoad(p) ==
  /\ ThiefAt(p, "reqLoad", IF splitreq THEN "idle" ELSE "reqSet")
  /\ UNCHANGED <<word, flags, buffer, owner, tt, ts, got>>

RequestSet(p) ==
  /\ ThiefAt(p, "reqSet", "idle")
  /\ splitreq' = TRUE
  /\ UNCHANGED <<word, allstolen, buffer, owner, tt, ts, got>>

------------------------------------------------------------------------------
(* Steps of the owner inside an operation: the thread runs on.             *)
OwnerInside ==
  \/ Publish \/ Open \/ AckLoad \/ AckClear
  \/ PushReq \/ PushGrow \/ PushClear
  \/ ShrinkLoad \/ ShrinkMove \/ ShrinkFix \/ Seal
  \/ PopReq \/ PopGrow \/ PopClear \/ TakeWork
  \/ SpinFlag \/ Reclaim \/ ResetFlag \/ TakeOutput

Sync == SyncFast \/ SyncSlow \/ LoopFlag

(* Steps of a thief that has won a task.                                   *)
ThiefInside(p) == StealClaim(p) \/ StealTake(p) \/ StealPut(p) \/ StealFinish(p)

ThiefTry(p) == \/ StealEmpty(p) \/ StealBegin(p) \/ StealLoad(p)
               \/ StealCas(p) \/ StealRetry(p)
               \/ RequestLoad(p) \/ RequestSet(p)

Next == \/ \E t \in Tasks : Push(t)
        \/ Overflow
        \/ OwnerInside
        \/ Sync
        \/ \E p \in Thieves : ThiefInside(p) \/ ThiefTry(p)

Spec == Init /\ [][Next]_vars

------------------------------------------------------------------------------
(* Properties                                                              *)

(* The owner_invariants! macro, asserted at the entry of every owner       *)
(* operation: shared and private copies agree, tail <= split <= head.      *)
OwnerInvariants ==
  opc \in {"idle", "pushGrow", "popGrow", "shrink"} =>
    /\ allstolen = oallstolen
    /\ ~oallstolen => split = osplit /\ tail <= osplit /\ osplit <= head

Holding(p) == tpc[p] \in {"claim", "take", "run", "finish"}

(* No slot has two users: a thief between its exchange and its FINISHED    *)
(* works strictly below the owner's head, and no two thieves share a slot. *)
(* The slots are plain Cells: two users would be a data race.              *)
SlotExclusive ==
  \A p \in Thieves : Holding(p) =>
    /\ tt[p] < head
    /\ \A q \in Thieves \ {p} : Holding(q) => tt[q] # tt[p]

(* sync gets the task of its own token: the input when the owner runs it,  *)
(* the output when a thief ran it (TaskIO panics otherwise).               *)
SyncReturnsOwnTask ==
  /\ opc = "take" => slot[head] = Input(token[head])
  /\ opc = "takeOut" => slot[head] = Output(token[head])

(* The thief-flag assertions of push, steal_common and pop_stolen, and the *)
(* put/take assertions of the buffer.                                      *)
FlagProtocol ==
  /\ opc = "idle" /\ head < BufferSize =>
       flag[head] = THIEF_NONE /\ slot[head] = Empty
  /\ opc = "reset" => flag[head] = THIEF_FINISHED
  /\ \A p \in Thieves :
       /\ tpc[p] = "claim" => flag[tt[p]] = THIEF_NONE
       /\ tpc[p] = "take" => slot[tt[p]].io = "input"
       /\ tpc[p] = "run" /\ ~InPlace => slot[tt[p]] = Empty

(* push_allstolen overwrites tail and split with a plain store: no thief   *)
(* may then hold a word whose exchange could still succeed.                *)
NoStealLost ==
  opc = "publish" =>
    \A p \in Thieves : tpc[p] = "cas" => ~(tt[p] = tail /\ ts[p] = split)

(* set_shared_split xors with a remembered old split: whenever it runs,    *)
(* that is still the split in the word.                                    *)
XorHitsOldSplit ==
  /\ opc \in {"pushGrow", "popGrow"} => split = osplit
  /\ opc = "move" => split = rs
  /\ opc = "fix" => split = rn

(* A granted split request really shares something: if the owner has       *)
(* private work when it grows, split moves up, by rounding up.             *)
GrowShares ==
  [][ (PushGrow \/ PopGrow) /\ osplit < head => split' > split ]_vars

------------------------------------------------------------------------------
(* SplitDeque implements WorkDeque.  A task leaves the ready state when    *)
(* the exchange on tail succeeds, and leaves the stack when head passes    *)
(* it.  While push_allstolen is about to store the word, tail is stale:    *)
(* the top is the only ready task.                                         *)
StolenBelow == IF opc = "publish" THEN head - 1
               ELSE IF tail < head THEN tail ELSE head

StatusOf(i) == IF i >= head THEN "free"
               ELSE IF i >= StolenBelow THEN "ready"
               ELSE IF flag[i] = THIEF_FINISHED THEN "done" ELSE "stolen"

AbsTasks    == [i \in Index |-> IF i < head THEN token[i] ELSE NoTask]
AbsStatuses == [i \in Index |-> StatusOf(i)]

Abs == INSTANCE WorkDeque WITH
         Capacity <- BufferSize, depth <- head,
         task <- AbsTasks, status <- AbsStatuses

(* Every behaviour of the deque is one of the abstract task stack.         *)
ImplementsWorkDeque == Abs!AbsSpec
------------------------------------------------------------------------------
(* The inductive invariant behind the safety properties, in three parts.   *)

(* The word is published, or split is moved, and the private copies follow.*)
Acking   == opc \in {"open", "ackLoad", "ackClear"}
Shifting == opc \in {"fix", "seal"}

(* Where the owner stands, and how its private copies relate to the word.  *)
OwnerInv ==
  /\ allstolen <=> oallstolen /\ opc \notin {"ackLoad", "ackClear"}
  /\ ~oallstolen =>
       /\ osplit <= head
       /\ ~Shifting => split = osplit /\ tail <= split
  /\ oallstolen /\ ~Acking =>
       split <= tail /\ head <= (IF opc = "publish" THEN tail + 1 ELSE tail)
  /\ oallstolen /\ ~Acking /\ opc # "publish" => head <= osplit
  /\ Acking => split = head /\ tail \in {head - 1, head}
  /\ opc \in {"publish", "open", "ackLoad", "ackClear",
              "spin", "reset", "takeOut"} => oallstolen
  /\ opc \in {"pushed", "pushGrow", "pushClear", "shrink", "move", "fix",
              "seal", "popped", "popGrow", "popClear", "take"} => ~oallstolen
  /\ opc \in {"publish", "open", "ackLoad", "ackClear", "shrink", "move",
              "fix", "seal", "spin", "reclaim"} => head > 0
  /\ opc \in {"shrink", "move", "fix", "seal"} => osplit = head
  /\ opc = "move" => /\ rs = split /\ rt <= tail /\ rt < rs
                     /\ rn = (rt + rs) \div 2
  /\ opc = "fix" => /\ split = rn /\ rn < tail /\ rt = tail
                    /\ rt < rs /\ rs = head
  /\ opc = "seal" => split <= tail /\ tail = head
  /\ opc = "reclaim" => head <= tail
  /\ opc \in {"popped", "popGrow", "popClear", "take", "reset", "takeOut"} =>
       head < BufferSize

(* The depths being waited for are stolen ones; the depth that a sync is   *)
(* settling is not among them.                                             *)
WaitingInv ==
  /\ \A i \in waiting : i < StolenBelow
  /\ opc \in {"shrink", "move", "fix", "seal", "spin", "reclaim"} =>
       head - 1 \notin waiting

(* What each slot and flag holds: stolen slots belong to one thief or are  *)
(* finished, ready ones hold their input, free ones are empty, except the  *)
(* one at head while the owner takes it.                                   *)
Finished(i) == flag[i] = THIEF_FINISHED /\ slot[i] = Output(token[i])
Ready(i)    == flag[i] = THIEF_NONE /\ slot[i] = Input(token[i])
Free(i)     == flag[i] = THIEF_NONE /\ slot[i] = Empty

SlotInv ==
  \A i \in Index :
    /\ i < StolenBelow => \/ Finished(i)
                          \/ \E p \in Thieves : Holding(p) /\ tt[p] = i
    /\ StolenBelow <= i /\ i < head => Ready(i)
    /\ i = head =>
         CASE opc \in {"popped", "popGrow", "popClear", "take"} -> Ready(i)
           [] opc = "reset"   -> Finished(i)
           [] opc = "takeOut" -> /\ flag[i] = THIEF_NONE
                                 /\ slot[i] = Output(token[i])
           [] OTHER           -> Free(i)
    /\ head < i => Free(i)
    /\ opc = "reclaim" /\ i = head - 1 => Finished(i)

(* What a thief between its exchange and its FINISHED has in its slot.     *)
ThiefOK(p) ==
  /\ tpc[p] = "cas" => tt[p] < ts[p]
  /\ Holding(p) =>
       /\ tt[p] < StolenBelow
       /\ \A q \in Thieves \ {p} : Holding(q) => tt[q] # tt[p]
       /\ flag[tt[p]] = IF tpc[p] = "claim" THEN THIEF_NONE ELSE p
  /\ tpc[p] \in {"claim", "take"} => slot[tt[p]] = Input(token[tt[p]])
  /\ tpc[p] = "run" =>
       /\ got[p] = token[tt[p]]
       /\ slot[tt[p]] = IF InPlace THEN Running(got[p]) ELSE Empty
  /\ tpc[p] = "finish" => slot[tt[p]] = Output(token[tt[p]])

ThiefInv == \A p \in Thieves : ThiefOK(p)

(* Owner, waiting depths, slots and thieves together: the strengthening    *)
(* under which every safety property above is preserved by every step.     *)
IndInv == TypeOK /\ OwnerInv /\ WaitingInv /\ SlotInv /\ ThiefInv
==============================================================================
