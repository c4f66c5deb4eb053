---------------------------- MODULE MCWorkerPool ----------------------------
(***************************************************************************)
(* WorkerPool for TLC, on a program with the shapes of src/lace/src/lib.rs *)
(* tests: main and b spawn two tasks and sync them newest first, a joins a *)
(* spawned task and one it calls, and a1 is a chain.  again is a second    *)
(* run on the same pool.                                                   *)
(***************************************************************************)
EXTENDS WorkerPool

CONSTANTS w0, w1, w2,
          main, a, b, a1, a2, b1, b2, a11, again, leaf

spawn(t) == [do |-> "spawn", of |-> t]
sync(t)  == [do |-> "sync", of |-> t]
call(t)  == [do |-> "call", of |-> t]

AllTasks == {main, a, b, a1, a2, b1, b2, a11, again, leaf}

Bodies == [t \in AllTasks |->
  CASE t = main  -> <<spawn(a), spawn(b), sync(b), sync(a)>>
    [] t = a     -> <<spawn(a1), call(a2), sync(a1)>>
    [] t = b     -> <<spawn(b1), spawn(b2), sync(b2), sync(b1)>>
    [] t = a1    -> <<spawn(a11), sync(a11)>>
    [] t = again -> <<spawn(leaf), sync(leaf)>>
    [] OTHER     -> <<>>]

(* The tokens a body holds after its first k operations.                   *)
HeldTokens == [t \in AllTasks |->
  LET held[k \in 0 .. Len(Bodies[t])] ==
        IF k = 0 THEN <<>>
        ELSE CASE Bodies[t][k].do = "spawn" -> Append(held[k - 1], Bodies[t][k].of)
               [] Bodies[t][k].do = "sync"  -> SubSeq(held[k - 1], 1, Len(held[k - 1]) - 1)
               [] Bodies[t][k].do = "call"  -> held[k - 1]
  IN  held]
=============================================================================
