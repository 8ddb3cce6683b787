---------------------------- MODULE MCWorkerLoop ----------------------------
(***************************************************************************)
(* Several connections and one small request shape: event batches, accept, *)
(* HTTP/2 served inside accept, the idle sweep, stop.                      *)
(***************************************************************************)
EXTENDS Worker, TLC

MCKinds == {"get"}
MCLen   == [k \in MCKinds |-> 1]
MCBody  == [k \in MCKinds |-> 0]

Symmetry == Permutations(Conns)
=============================================================================
