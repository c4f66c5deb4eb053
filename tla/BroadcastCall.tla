---------------------------- MODULE BroadcastCall ----------------------------
(***************************************************************************)
(* What Lace::broadcast promises: between its start and its return the     *)
(* operation runs exactly once for every worker index, in any order, and   *)
(* never outside of a call.                                                *)
(***************************************************************************)
CONSTANT Workers

VARIABLES active,    \* a call is in progress
          ran        \* the workers whose operation has run in this call

callVars == <<active, ran>>

CallInit == active = FALSE /\ ran = {}

CallStart == ~active /\ active' = TRUE /\ ran' = {}

CallRun(w) == active /\ w \notin ran /\ ran' = ran \cup {w} /\ UNCHANGED active

CallReturn == active /\ ran = Workers /\ active' = FALSE /\ ran' = {}

CallNext == CallStart \/ CallReturn \/ \E w \in Workers : CallRun(w)

CallSpec == CallInit /\ [][CallNext]_callVars
==============================================================================
