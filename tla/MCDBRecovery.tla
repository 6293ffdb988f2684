---------------------------- MODULE MCDBRecovery ----------------------------
(* Small instances of DBRecovery for TLC. *)
EXTENDS DBRecovery

Default == [reuse |-> FALSE, power |-> TRUE, torn |-> TRUE, faults |-> FALSE]

(* The defaults under every crash, with failing appends too, and reuse_logs *)
(* under crashes of the process.                                            *)
AllSettings ==
  {Default, [Default EXCEPT !.faults = TRUE, !.torn = FALSE],
   [Default EXCEPT !.reuse = TRUE, !.power = FALSE]}

FaultySetting == {[Default EXCEPT !.faults = TRUE, !.power = FALSE]}
=============================================================================
