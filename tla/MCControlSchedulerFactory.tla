--------------------- MODULE MCControlSchedulerFactory ---------------------
(* A small instance of both schedulers for TLC. *)
EXTENDS ControlSchedulerFactory

(* Every position of the start within a second. *)
AllTicksOfASecond == 0 .. Second - 1
=============================================================================
