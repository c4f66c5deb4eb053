----------------------------- MODULE MCAffinity -----------------------------
(* Affinity on machines with one or two sockets, with and without          *)
(* hyperthreading, symmetrical or not.                                     *)
EXTENDS Affinity, SequencesExt

SomeMachines == { << <<2, 2>> >>, << <<1, 1, 1>> >>, << <<2, 2>>, <<2, 2>> >>,
                  << <<2, 1, 3>> >>, << <<1, 2>>, <<2>> >>, << <<4>>, <<1>>, <<2, 2>> >> }

(* hwloc's logical order: socket by socket, core by core.                  *)
LogicalCores == [m \in SomeMachines |->
  FlattenSeq([s \in DOMAIN m |-> [c \in DOMAIN m[s] |-> <<s, c>>]])]

LogicalPus == [m \in SomeMachines |->
  FlattenSeq([i \in DOMAIN LogicalCores[m] |->
    LET x == LogicalCores[m][i]
    IN  [k \in 1 .. m[x[1]][x[2]] |-> Pu(x[1], x[2], k)]])]
=============================================================================
