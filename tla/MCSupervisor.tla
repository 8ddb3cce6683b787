---------------------------- MODULE MCSupervisor ----------------------------
(* Two workers, a configuration that asks for one, and one for two again. *)
EXTENDS Supervisor

MCWorkersOf == [v \in Versions |-> IF v = 1 THEN 1 ELSE 2]
=============================================================================
