-------------------------- MODULE MCLinuxScheduler --------------------------
(* Small instances of LinuxScheduler for TLC. *)
EXTENDS LinuxScheduler

(* Every position of the start within a second. *)
AllTicksOfASecond == 0 .. Second - 1
=============================================================================
